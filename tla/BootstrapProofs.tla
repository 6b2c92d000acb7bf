-------------------------- MODULE BootstrapProofs ---------------------------
(***************************************************************************)
(* Proofs about Bootstrap for every value of its constants: type           *)
(* correctness and the fail-fast guarantee that the manager runs only when *)
(* every setup step of main succeeded.  Both rest on the inductive         *)
(* invariant IInv of Bootstrap.                                            *)
(***************************************************************************)
EXTENDS Bootstrap, SequenceTheorems, TLAPS

\* The cipher-name assumption of TLSOptions plays no part in these proofs.
HIDE TLSOptionsAssumption

\* The code's registration lists have the lengths and kinds main walks.
LEMMA ReconcilerOrderLen == Len(ReconcilerOrder) = 7
  BY DEF ReconcilerOrder

LEMMA ReconcilerOrderKinds == \A i \in 1..7 : ReconcilerOrder[i] \in ReconcilerKinds
  BY DEF ReconcilerOrder, ReconcilerKinds

LEMMA WebhookOrderLen == Len(WebhookOrder) = 8
  BY DEF WebhookOrder

LEMMA WebhookOrderKinds == \A i \in 1..8 : WebhookOrder[i] \in WebhookKinds
  BY DEF WebhookOrder, WebhookKinds

LEMMA OrderFacts ==
  /\ Len(ReconcilerOrder) = 7
  /\ \A i \in 1..7 : ReconcilerOrder[i] \in ReconcilerKinds
  /\ Len(WebhookOrder) = 8
  /\ \A i \in 1..8 : WebhookOrder[i] \in WebhookKinds
  /\ WebhookOrder \in Seq(WebhookKinds)
  BY DEF ReconcilerOrder, ReconcilerKinds, WebhookOrder, WebhookKinds

\* The initial state satisfies the invariant.
LEMMA InitIInv == Init => IInv
<1> SUFFICES ASSUME Init PROVE IInv
  OBVIOUS
<1>1. TypeOK
  <2>1. reconcilers \in Seq([kind : ReconcilerKinds,
                             options : [MaxConcurrentReconciles : Int]])
        /\ webhooks \in Seq(WebhookKinds)
    BY DEF Init
  <2>2. Len(reconcilers) <= Len(ReconcilerOrder) /\ Len(webhooks) <= Len(WebhookOrder)
    BY OrderFacts DEF Init
  <2>3. pc \in Phases /\ tlsOptions \in TLSFlagValues /\ signals \in 0..2
    BY DEF Init, Phases
  <2>4. exitCode \in {Running, Killed, 0, 1} /\ checks \subseteq {"readyz", "healthz"}
    BY DEF Init
  <2>5. /\ enableBMHNameBasedPreallocation \in BOOLEAN /\ apiServed \in BOOLEAN
        /\ preallocation \in BOOLEAN /\ signalHandler \in BOOLEAN
        /\ ctxCancelled \in BOOLEAN /\ mgrStarted \in BOOLEAN
    BY DEF Init
  <2>6. QED
    BY <2>1, <2>2, <2>3, <2>4, <2>5 DEF TypeOK
<1>2. SetupProgress
  BY DEF Init, SetupProgress, Past, AfterTLS, AfterGate, AfterHandler,
         AfterReadyz, AfterHealthz, AfterReconcilers, AfterWebhooks, Running,
         BeforeReconcilers
<1>3. SignalProgress
  BY DEF Init, SignalProgress
<1>4. QED
  BY <1>1, <1>2, <1>3 DEF IInv

\* The phase definitions every case of the step lemma unfolds.
USE DEF Past, Phases, AfterTLS, AfterGate, AfterHandler, AfterReadyz,
        AfterHealthz, AfterReconcilers, AfterWebhooks, BeforeReconcilers,
        Running, Killed, NoErr, NotBuilt

\* Every step of main, of the manager and of the environment keeps IInv.
LEMMA NextIInv == IInv /\ [Next]_vars => IInv'
<1> SUFFICES ASSUME TypeOK, SetupProgress, SignalProgress, [Next]_vars
             PROVE  TypeOK' /\ SetupProgress' /\ SignalProgress'
  BY DEF IInv
<1>1. CASE ValidateLogs
  BY <1>1 DEF ValidateLogs, StepOrFail, Fatal, flagVars, setupVars,
              signalVars, runVars, exitVars, TypeOK, SetupProgress, SignalProgress
<1>2. CASE GetConfig
  BY <1>2 DEF GetConfig, StepOrFail, Fatal, flagVars, setupVars,
              signalVars, runVars, exitVars, TypeOK, SetupProgress, SignalProgress
<1>3. CASE BuildTLSOverrides
  <2> DEFINE r == GetTLSOptionOverrideFuncs(tlsOptions)
  <2>1. /\ pc = "tls"
        /\ tlsOptionOverrides' = r
        /\ UNCHANGED <<apiServed, flagVars, preallocation, checks, reconcilers,
                       webhooks, signalVars, runVars>>
    BY <1>3 DEF BuildTLSOverrides
  <2>2. CASE r.err = NoError
    <3>1. r # NotBuilt
      <4>1. NotBuilt.err = "notBuilt"
        OBVIOUS
      <4>2. NoError # "notBuilt"
        BY DEF NoError
      <4>3. QED
        BY <2>2, <4>1, <4>2
    <3>2. pc' = "newManager" /\ UNCHANGED exitVars
      BY <1>3, <2>2 DEF BuildTLSOverrides
    <3>3. ~mgrStarted
      BY <2>1 DEF SetupProgress
    <3>4. TypeOK'
      BY <2>1, <3>2 DEF flagVars, signalVars, runVars, exitVars, TypeOK
    <3>5. SetupProgress'
      BY <2>1, <2>2, <3>1, <3>2, <3>3 DEF flagVars, signalVars, runVars,
         exitVars, SetupProgress
    <3>6. SignalProgress'
      BY <2>1, <3>2 DEF signalVars, SignalProgress
    <3>7. QED
      BY <3>4, <3>5, <3>6
  <2>3. CASE r.err # NoError
    <3>1. pc' = "exited" /\ exitCode' = 1
          /\ setupError' = "unable to add TLS settings to the webhook server"
      BY <1>3, <2>3 DEF BuildTLSOverrides, Fatal
    <3>2. QED
      BY <2>1, <3>1 DEF flagVars, signalVars, runVars, TypeOK, SetupProgress,
         SignalProgress
  <2>4. QED
    BY <2>2, <2>3
<1>4. CASE NewManager
  <2>1. CASE pc' \in {"gateConfig", "signalHandler"} /\ UNCHANGED exitVars
    <3>1. WaitForMetal3Controller => pc' = "gateConfig"
      BY <1>4, <2>1, Zenon DEF NewManager, Fatal
    <3>2. ~WaitForMetal3Controller => pc' = "signalHandler"
      BY <1>4, <2>1, Zenon DEF NewManager, Fatal
    <3>3. QED
      BY <1>4, <2>1, <3>1, <3>2 DEF NewManager, flagVars, setupVars,
         signalVars, runVars, exitVars, TypeOK, SetupProgress, SignalProgress
  <2>2. CASE Fatal("unable to start manager")
    BY <1>4, <2>2 DEF NewManager, Fatal, flagVars, setupVars, signalVars,
       runVars, exitVars, TypeOK, SetupProgress, SignalProgress
  <2>3. QED
    BY <1>4, <2>1, <2>2, BootstrapAssumption DEF NewManager
<1>5. CASE DiscoveryClient
  BY <1>5 DEF DiscoveryClient, Fatal, flagVars, setupVars, signalVars,
              runVars, exitVars, TypeOK, SetupProgress, SignalProgress
<1>6. CASE PollAPIs
  BY <1>6 DEF PollAPIs, flagVars, setupVars, signalVars, runVars, exitVars,
              TypeOK, SetupProgress, SignalProgress
<1>7. CASE SleepAndRetry
  BY <1>7 DEF SleepAndRetry, flagVars, setupVars, signalVars, runVars,
              exitVars, TypeOK, SetupProgress, SignalProgress
<1>8. CASE SetupSignalHandler
  BY <1>8 DEF SetupSignalHandler, flagVars, setupVars, signalVars, runVars,
              exitVars, TypeOK, SetupProgress, SignalProgress
<1>9. CASE SetPreallocation
  BY <1>9 DEF SetPreallocation, flagVars, signalVars, runVars, exitVars,
              TypeOK, SetupProgress, SignalProgress
<1>10. CASE AddReadyzCheck
  BY <1>10 DEF AddReadyzCheck, AddCheck, Fatal, flagVars, signalVars,
               runVars, exitVars, TypeOK, SetupProgress, SignalProgress
<1>11. CASE AddHealthzCheck
  <2>1. /\ pc = "healthz" /\ ~mgrStarted /\ "readyz" \in checks
        /\ UNCHANGED <<apiServed, flagVars, tlsOptionOverrides, preallocation,
                       reconcilers, webhooks, signalVars, runVars>>
    BY <1>11 DEF AddHealthzCheck, AddCheck, SetupProgress
  <2>2. CASE /\ pc' = "reconcilers"
             /\ checks' = checks \cup {"healthz"}
             /\ UNCHANGED exitVars
    <3>1. checks' = {"readyz", "healthz"}
      BY <2>1, <2>2 DEF TypeOK
    <3>2. reconcilers = <<>> /\ webhooks = <<>>
      BY <2>1 DEF SetupProgress
    <3>3. Len(reconcilers') < Len(ReconcilerOrder)
      BY <2>1, <3>2, ReconcilerOrderLen
    <3>4. TypeOK'
      BY <2>1, <2>2, <3>1 DEF flagVars, signalVars, runVars, exitVars, TypeOK
    <3>5. SetupProgress'
      BY <2>1, <2>2, <3>1, <3>2, <3>3 DEF flagVars, signalVars, runVars,
         exitVars, SetupProgress
    <3>6. SignalProgress'
      BY <2>1, <2>2 DEF signalVars, exitVars, SignalProgress
    <3>7. QED
      BY <3>4, <3>5, <3>6
  <2>3. CASE Fatal("unable to create health check") /\ UNCHANGED checks
    BY <2>1, <2>3 DEF Fatal, flagVars, signalVars, runVars, TypeOK,
       SetupProgress, SignalProgress
  <2>4. QED
    BY <1>11, <2>2, <2>3 DEF AddHealthzCheck, AddCheck
<1>12. CASE SetupReconciler
  <2>0. PICK n \in Nat : n = Len(reconcilers)
    BY LenProperties DEF TypeOK
  <2> USE <2>0
  <2> DEFINE kind == ReconcilerOrder[n + 1]
             Exp(i) == [kind |-> ReconcilerOrder[i],
                        options |-> [MaxConcurrentReconciles |->
                                       ConcurrencyFlags[ReconcilerOrder[i]]]]
             RecT == [kind : ReconcilerKinds,
                      options : [MaxConcurrentReconciles : Int]]
  <2>1. /\ pc = "reconcilers"
        /\ UNCHANGED <<apiServed, flagVars, tlsOptionOverrides, preallocation,
                       checks, webhooks, signalVars, runVars>>
    BY <1>12 DEF SetupReconciler
  <2>2. reconcilers \in Seq(RecT)
    BY DEF TypeOK
  <2>3. n \in Nat /\ n <= 6
    <3>1. n < Len(ReconcilerOrder)
      BY <2>1 DEF SetupProgress
    <3>2. QED
      BY <2>0, <3>1, ReconcilerOrderLen
  <2>4. kind \in ReconcilerKinds /\ Exp(n + 1) \in RecT
    <3>1. kind \in ReconcilerKinds
      BY <2>3, ReconcilerOrderKinds
    <3>2. ConcurrencyFlags[kind] \in Int
      BY <3>1, BootstrapAssumption
    <3>3. QED
      BY <3>1, <3>2
  <2>5. \A i \in 1..n : reconcilers[i] = Exp(i)
    BY DEF SetupProgress
  <2>6. CASE /\ reconcilers' = Append(reconcilers,
                                      [kind |-> kind,
                                       options |-> concurrency(ConcurrencyFlags[kind])])
             /\ pc' = IF n + 1 = Len(ReconcilerOrder)
                      THEN "webhooks" ELSE "reconcilers"
             /\ UNCHANGED exitVars
    <3>1. reconcilers' = Append(reconcilers, Exp(n + 1))
      BY <2>6 DEF concurrency
    <3>2. /\ reconcilers' \in Seq(RecT)
          /\ Len(reconcilers') = n + 1
          /\ \A i \in 1..n : reconcilers'[i] = reconcilers[i]
          /\ reconcilers'[n + 1] = Exp(n + 1)
      BY <2>2, <2>4, <3>1, AppendProperties
    <3>3. \A i \in 1..Len(reconcilers') : reconcilers'[i] = Exp(i)
      <4>1. SUFFICES ASSUME NEW i \in 1..n + 1 PROVE reconcilers'[i] = Exp(i)
        BY <3>2
      <4>2. CASE i <= n
        <5>1. i \in 1..n
          BY <2>3, <4>2
        <5>2. reconcilers'[i] = reconcilers[i] /\ reconcilers[i] = Exp(i)
          BY <2>5, <3>2, <5>1
        <5>3. QED
          BY <5>2
      <4>3. CASE i = n + 1
        BY <3>2, <4>3
      <4>4. QED
        BY <2>3, <4>2, <4>3
    <3>4. /\ Len(reconcilers') <= Len(ReconcilerOrder)
          /\ pc' \in {"webhooks", "reconcilers"}
          /\ pc' = "reconcilers" => Len(reconcilers') < Len(ReconcilerOrder)
          /\ pc' = "webhooks" => Len(reconcilers') = Len(ReconcilerOrder)
      BY <2>3, <2>6, <3>2, ReconcilerOrderLen
    <3>5. TypeOK'
      BY <2>1, <2>6, <3>2, <3>4 DEF TypeOK, flagVars, signalVars, runVars,
         exitVars
    <3>5a. webhooks = <<>> /\ Len(webhooks) < Len(WebhookOrder)
      BY <2>1, WebhookOrderLen DEF SetupProgress
    <3>6. SetupProgress'
      BY <2>1, <2>6, <3>3, <3>4, <3>5a DEF SetupProgress, flagVars, signalVars,
         runVars, exitVars
    <3>7. SignalProgress'
      BY <2>1, <2>6, <3>4 DEF SignalProgress, signalVars, exitVars
    <3>8. QED
      BY <3>5, <3>6, <3>7
  <2>7. CASE Fatal("unable to create controller") /\ UNCHANGED reconcilers
    BY <2>1, <2>7 DEF Fatal, flagVars, signalVars, runVars, TypeOK,
       SetupProgress, SignalProgress
  <2>8. QED
    BY <1>12, <2>6, <2>7 DEF SetupReconciler
<1>13. CASE SetupWebhook
  <2> DEFINE n    == Len(webhooks)
             kind == WebhookOrder[n + 1]
  <2>1. /\ pc = "webhooks"
        /\ UNCHANGED <<apiServed, flagVars, tlsOptionOverrides, preallocation,
                       checks, reconcilers, signalVars, runVars>>
    BY <1>13 DEF SetupWebhook
  <2>2. webhooks \in Seq(WebhookKinds)
    BY DEF TypeOK
  <2>3. n \in Nat /\ n <= 7
    <3>1. n < Len(WebhookOrder)
      BY <2>1 DEF SetupProgress
    <3>2. n \in Nat
      BY <2>2, LenProperties
    <3>3. QED
      BY <3>1, <3>2, WebhookOrderLen
  <2>4. kind \in WebhookKinds
    BY <2>3, WebhookOrderKinds
  <2>5. \A i \in 1..n : webhooks[i] = WebhookOrder[i]
    BY DEF SetupProgress
  <2>6. CASE /\ webhooks' = Append(webhooks, kind)
             /\ pc' = IF n + 1 = Len(WebhookOrder) THEN "start" ELSE "webhooks"
             /\ UNCHANGED exitVars
    <3>2. /\ webhooks' \in Seq(WebhookKinds)
          /\ Len(webhooks') = n + 1
          /\ \A i \in 1..n : webhooks'[i] = webhooks[i]
          /\ webhooks'[n + 1] = kind
      BY <2>2, <2>4, <2>6, AppendProperties
    <3>3. \A i \in 1..Len(webhooks') : webhooks'[i] = WebhookOrder[i]
      BY <2>3, <2>5, <3>2
    <3>4. /\ Len(webhooks') <= Len(WebhookOrder)
          /\ pc' \in {"start", "webhooks"}
          /\ pc' = "webhooks" => Len(webhooks') < Len(WebhookOrder)
          /\ pc' = "start" => Len(webhooks') = Len(WebhookOrder)
      BY <2>3, <2>6, <3>2, WebhookOrderLen
    <3>5. TypeOK'
      BY <2>1, <2>6, <3>2, <3>4 DEF TypeOK, flagVars, signalVars, runVars,
         exitVars
    <3>6. SetupProgress'
      BY <2>1, <2>6, <3>3, <3>4 DEF SetupProgress, flagVars, signalVars,
         runVars, exitVars
    <3>7. SignalProgress'
      BY <2>1, <2>6, <3>4 DEF SignalProgress, signalVars, exitVars
    <3>8. QED
      BY <3>5, <3>6, <3>7
  <2>7. CASE Fatal("unable to create webhook") /\ UNCHANGED webhooks
    BY <2>1, <2>7 DEF Fatal, flagVars, signalVars, runVars, TypeOK,
       SetupProgress, SignalProgress
  <2>8. QED
    BY <1>13, <2>6, <2>7 DEF SetupWebhook
<1>14. CASE StartManager
  BY <1>14 DEF StartManager, flagVars, setupVars, signalVars, exitVars,
               TypeOK, SetupProgress, SignalProgress
<1>15. CASE StartWebhookServer
  BY <1>15 DEF StartWebhookServer, flagVars, setupVars, signalVars, exitVars,
               TypeOK, SetupProgress, SignalProgress
<1>16. CASE Shutdown
  BY <1>16 DEF Shutdown, flagVars, setupVars, signalVars, runVars,
               TypeOK, SetupProgress, SignalProgress
<1>17. CASE ManagerFails
  BY <1>17 DEF ManagerFails, Fatal, flagVars, setupVars, signalVars, runVars,
               TypeOK, SetupProgress, SignalProgress
<1>18. CASE Signal
  <2>1. /\ pc # "exited" /\ signals' = signals + 1
        /\ UNCHANGED <<apiServed, flagVars, setupVars, signalHandler, runVars>>
    BY <1>18 DEF Signal
  <2>2. signals \in 0..1
    BY <2>1 DEF TypeOK, SignalProgress
  <2>3. CASE /\ ~signalHandler
             /\ pc' = "exited" /\ exitCode' = Killed
             /\ UNCHANGED <<ctxCancelled, setupError>>
    <3>1. ~mgrStarted /\ ~ctxCancelled
      BY <2>1, <2>3 DEF SetupProgress, SignalProgress
    <3>2. QED
      BY <2>1, <2>2, <2>3, <3>1 DEF flagVars, setupVars, runVars,
         TypeOK, SetupProgress, SignalProgress
  <2>4. CASE /\ signalHandler /\ signals = 0
             /\ ctxCancelled' = TRUE /\ UNCHANGED <<pc, exitVars>>
    BY <2>1, <2>4 DEF flagVars, setupVars, runVars, exitVars,
       TypeOK, SetupProgress, SignalProgress
  <2>5. CASE /\ signalHandler /\ signals > 0
             /\ pc' = "exited" /\ exitCode' = 1
             /\ UNCHANGED <<ctxCancelled, setupError>>
    BY <2>1, <2>2, <2>5 DEF flagVars, setupVars, runVars,
       TypeOK, SetupProgress, SignalProgress
  <2>6. QED
    BY <1>18, <2>3, <2>4, <2>5 DEF Signal
<1>19. CASE ServeAPI
  <2>1. TypeOK'
    BY <1>19 DEF ServeAPI, flagVars, setupVars, signalVars, runVars, exitVars,
       TypeOK, SetupProgress, SignalProgress
  <2>2. SetupProgress'
    BY <1>19 DEF ServeAPI, flagVars, setupVars, signalVars, runVars, exitVars,
       TypeOK, SetupProgress, SignalProgress
  <2>3. SignalProgress'
    BY <1>19 DEF ServeAPI, flagVars, setupVars, signalVars, runVars, exitVars,
       TypeOK, SetupProgress, SignalProgress
  <2>4. QED
    BY <2>1, <2>2, <2>3
<1>20. CASE UNCHANGED vars
  <2>1. TypeOK'
    BY <1>20 DEF vars, flagVars, setupVars, signalVars, runVars, exitVars,
       TypeOK, SetupProgress, SignalProgress
  <2>2. SetupProgress'
    BY <1>20 DEF vars, flagVars, setupVars, signalVars, runVars, exitVars,
       TypeOK, SetupProgress, SignalProgress
  <2>3. SignalProgress'
    BY <1>20 DEF vars, flagVars, setupVars, signalVars, runVars, exitVars,
       TypeOK, SetupProgress, SignalProgress
  <2>4. QED
    BY <2>1, <2>2, <2>3
<1>21. QED
  BY <1>1, <1>2, <1>3, <1>4, <1>5, <1>6, <1>7, <1>8, <1>9, <1>10, <1>11,
     <1>12, <1>13, <1>14, <1>15, <1>16, <1>17, <1>18, <1>19, <1>20
  DEF Next, Main

\* IInv implies the fail-fast guarantee.
LEMMA IInvFullySetUp == IInv => RunningOnlyWhenFullySetUp
<1> SUFFICES ASSUME TypeOK, SetupProgress, mgrStarted
             PROVE  RunningOnlyWhenFullySetUp
  BY DEF IInv, RunningOnlyWhenFullySetUp
<1>1. /\ tlsOptionOverrides # NotBuilt
      /\ tlsOptionOverrides.err = NoError
      /\ WaitForMetal3Controller => apiServed
      /\ signalHandler
      /\ checks = {"readyz", "healthz"}
      /\ Len(reconcilers) = Len(ReconcilerOrder)
      /\ \A i \in 1..Len(reconcilers) :
           reconcilers[i] = [kind |-> ReconcilerOrder[i],
                             options |-> [MaxConcurrentReconciles |->
                                            ConcurrencyFlags[ReconcilerOrder[i]]]]
      /\ setupError \in {NoErr, "problem running manager"}
  BY DEF SetupProgress
<1>2. webhooks = WebhookOrder
  <2>1. webhooks \in Seq(WebhookKinds) /\ Len(webhooks) = Len(WebhookOrder)
        /\ \A i \in 1..Len(webhooks) : webhooks[i] = WebhookOrder[i]
    BY DEF TypeOK, SetupProgress
  <2>2. QED
    BY <2>1, OrderFacts, SeqEqual
<1>3. QED
  BY <1>1, <1>2 DEF RunningOnlyWhenFullySetUp

(* Type correctness of the bootstrap model: in every reachable state each  *)
(* variable of main, of the manager and of the signal handler has the type *)
(* the code gives it.                                                      *)
THEOREM TypeCorrect == Spec => []TypeOK
<1>1. Init => IInv
  BY InitIInv
<1>2. IInv /\ [Next]_vars => IInv'
  BY NextIInv
<1>3. IInv => TypeOK
  BY DEF IInv
<1>4. QED
  BY <1>1, <1>2, <1>3, PTL DEF Spec

(* Fail-fast start-up (main.go 109-175): in every reachable state, if      *)
(* mgr.Start was reached then the TLS overrides were built without error,  *)
(* the API gate (when on) saw the API, the signal handler, both health     *)
(* checks, all seven controllers with their own concurrency flag and all   *)
(* eight webhooks, in the code's order, were set up.                       *)
THEOREM FullySetUp == Spec => []RunningOnlyWhenFullySetUp
<1>1. Init => IInv
  BY InitIInv
<1>2. IInv /\ [Next]_vars => IInv'
  BY NextIInv
<1>3. IInv => RunningOnlyWhenFullySetUp
  BY IInvFullySetUp
<1>4. QED
  BY <1>1, <1>2, <1>3, PTL DEF Spec

\* Every step of main, of the manager and of the signal handler starts in a
\* phase other than "exited".
LEMMA LiveStepsNeedLivePc ==
  ASSUME Main \/ ManagerFails \/ Signal
  PROVE  pc # "exited"
<1>1. CASE ValidateLogs \/ GetConfig
  BY <1>1 DEF ValidateLogs, GetConfig, StepOrFail
<1>2. CASE BuildTLSOverrides \/ NewManager \/ DiscoveryClient \/ PollAPIs
           \/ SleepAndRetry
  BY <1>2 DEF BuildTLSOverrides, NewManager, DiscoveryClient, PollAPIs,
              SleepAndRetry
<1>3. CASE SetupSignalHandler \/ SetPreallocation \/ AddReadyzCheck
           \/ AddHealthzCheck
  BY <1>3 DEF SetupSignalHandler, SetPreallocation, AddReadyzCheck,
              AddHealthzCheck, AddCheck
<1>4. CASE SetupReconciler \/ SetupWebhook \/ StartManager
  BY <1>4 DEF SetupReconciler, SetupWebhook, StartManager
<1>5. CASE StartWebhookServer \/ Shutdown \/ ManagerFails \/ Signal
  BY <1>5 DEF StartWebhookServer, Shutdown, ManagerFails, Signal
<1>6. QED
  BY <1>1, <1>2, <1>3, <1>4, <1>5 DEF Main

(* Fail-fast (main.go 109-175, every `setupLog.Error ...; os.Exit(1)`):    *)
(* once an error is logged, no later step registers a check, controller   *)
(* or webhook, or starts the manager.                                      *)
THEOREM NoRegistrationAfterErrorThm == Spec => NoRegistrationAfterError
<1>1. ASSUME IInv, [Next]_vars
      PROVE  [setupError # NoErr =>
                UNCHANGED <<checks, reconcilers, webhooks, mgrStarted>>]_vars
  <2>1. SUFFICES ASSUME setupError # NoErr
                 PROVE  UNCHANGED <<checks, reconcilers, webhooks, mgrStarted>>
    OBVIOUS
  <2>2. pc = "exited"
    BY <1>1, <2>1 DEF IInv, SetupProgress
  <2>3. ~(Main \/ ManagerFails \/ Signal)
    BY <2>2, LiveStepsNeedLivePc
  <2>4. QED
    BY <1>1, <2>3 DEF Next, ServeAPI, vars, setupVars, runVars
<1>2. QED
  BY <1>1, InitIInv, NextIInv, PTL DEF Spec, NoRegistrationAfterError

\* A status that is still Running, or 1 with an error logged, satisfies
\* ExitStatusSound.
LEMMA RunningOrLoggedSound ==
  ASSUME exitCode' = Running \/ (exitCode' = 1 /\ setupError' # NoErr)
  PROVE  ExitStatusSound'
  BY DEF ExitStatusSound

\* ExitStatusSound is kept by every step of a state of IInv.
LEMMA NextExitStatusSound ==
  IInv /\ ExitStatusSound /\ [Next]_vars => ExitStatusSound'
<1> SUFFICES ASSUME TypeOK, SetupProgress, SignalProgress, ExitStatusSound,
                    [Next]_vars
             PROVE  ExitStatusSound'
  BY DEF IInv
<1>1. CASE pc = "exited"
  <2>1. ~(Main \/ ManagerFails \/ Signal)
    BY <1>1, LiveStepsNeedLivePc
  <2>2. UNCHANGED <<exitCode, mgrStarted, ctxCancelled, signals, setupError,
                    signalHandler>>
    BY <2>1 DEF Next, ServeAPI, vars, signalVars, runVars, exitVars
  <2>3. QED
    BY <2>2 DEF ExitStatusSound
<1>2. CASE pc # "exited"
  <2>1. exitCode = Running /\ setupError = NoErr
    BY <1>2 DEF SetupProgress
  <2>2. CASE ValidateLogs \/ GetConfig \/ BuildTLSOverrides \/ NewManager
             \/ DiscoveryClient \/ PollAPIs \/ SleepAndRetry
             \/ SetupSignalHandler \/ SetPreallocation
    <3>1. exitCode' = Running \/ (exitCode' = 1 /\ setupError' # NoErr)
      BY <2>1, <2>2 DEF ValidateLogs, GetConfig, StepOrFail, BuildTLSOverrides,
                        NewManager, DiscoveryClient, PollAPIs, SleepAndRetry,
                        SetupSignalHandler, SetPreallocation, Fatal, exitVars
    <3>2. QED
      BY <3>1, RunningOrLoggedSound
  <2>3. CASE AddReadyzCheck \/ AddHealthzCheck \/ SetupReconciler
             \/ SetupWebhook \/ StartManager \/ StartWebhookServer
             \/ ManagerFails \/ ServeAPI \/ UNCHANGED vars
    <3>1. exitCode' = Running \/ (exitCode' = 1 /\ setupError' # NoErr)
      BY <2>1, <2>3 DEF AddReadyzCheck, AddHealthzCheck, AddCheck,
                        SetupReconciler, SetupWebhook, StartManager,
                        StartWebhookServer, ManagerFails, ServeAPI, Fatal,
                        vars, exitVars
    <3>2. QED
      BY <3>1, RunningOrLoggedSound
  <2>4. CASE Shutdown
    <3>1. pc = "running" /\ ctxCancelled /\ exitCode' = 0
          /\ UNCHANGED <<mgrStarted, ctxCancelled, signals, setupError>>
      BY <2>4 DEF Shutdown, signalVars, runVars
    <3>2. mgrStarted /\ signals = 1
      BY <1>2, <3>1 DEF SetupProgress, SignalProgress, TypeOK
    <3>3. QED
      BY <2>1, <3>1, <3>2 DEF ExitStatusSound
  <2>5. CASE Signal
    <3>1. signals \in 0..2 /\ signals' = signals + 1
          /\ UNCHANGED <<signalHandler, mgrStarted>>
      BY <2>5 DEF Signal, TypeOK, runVars
    <3>2. CASE ~signalHandler
      <4>1. ~mgrStarted
        BY <3>2 DEF SetupProgress
      <4>2. exitCode' = Killed
        BY <2>5, <3>2 DEF Signal
      <4>3. QED
        BY <3>1, <3>2, <4>1, <4>2 DEF ExitStatusSound
    <3>3. CASE signalHandler /\ signals = 0
      <4>1. exitCode' = Running
        BY <2>1, <2>5, <3>3 DEF Signal, exitVars
      <4>2. QED
        BY <4>1, RunningOrLoggedSound
    <3>4. CASE signalHandler /\ signals > 0
      <4>1. signals = 1
        BY <1>2, <3>1, <3>4 DEF SignalProgress
      <4>2. exitCode' = 1 /\ signals' = 2
        BY <2>5, <3>1, <3>4, <4>1 DEF Signal
      <4>3. QED
        BY <4>2 DEF ExitStatusSound
    <3>5. QED
      BY <3>1, <3>2, <3>3, <3>4
  <2>6. QED
    BY <2>2, <2>3, <2>4, <2>5 DEF Next, Main
<1>3. QED
  BY <1>1, <1>2

(* Exit status (main.go 159-175 and the default action of a signal): 0    *)
(* only after the manager ran and one handled signal cancelled it with no *)
(* error logged, 1 only after a logged error or a second signal, 143 only *)
(* before SetupSignalHandler, in every reachable state.                   *)
THEOREM ExitStatusSoundThm == Spec => []ExitStatusSound
<1>1. Init => IInv /\ ExitStatusSound
  BY InitIInv DEF Init, ExitStatusSound
<1>2. IInv /\ ExitStatusSound /\ [Next]_vars => (IInv /\ ExitStatusSound)'
  BY NextIInv, NextExitStatusSound
<1>3. QED
  BY <1>1, <1>2, PTL DEF Spec

(* The spec (6): the process exits 0 "on clean shutdown after signal".    *)
(* Once it ended after exactly one signal that the handler of line 159    *)
(* caught, with no error logged, its status is 0: neither the default      *)
(* action (143) nor the handler's forced exit (1) can have ended it.       *)
THEOREM CleanShutdownExitsZero ==
  Spec => [](exitCode # Running /\ signalHandler /\ signals = 1
             /\ setupError = NoErr => exitCode = 0)
<1>1. IInv /\ ExitStatusSound =>
        (exitCode # Running /\ signalHandler /\ signals = 1
         /\ setupError = NoErr => exitCode = 0)
  BY DEF IInv, TypeOK, ExitStatusSound, Running, Killed
<1>2. Init => IInv /\ ExitStatusSound
  BY InitIInv DEF Init, ExitStatusSound
<1>3. IInv /\ ExitStatusSound /\ [Next]_vars => (IInv /\ ExitStatusSound)'
  BY NextIInv, NextExitStatusSound
<1>4. QED
  BY <1>1, <1>2, <1>3, PTL DEF Spec
=============================================================================
