----------------------------- MODULE Bootstrap ------------------------------
(***************************************************************************)
(* main() of the manager (main.go:109-175) with the functions it calls:    *)
(* every setup step in the order of the code, each failure that ends the   *)
(* process with os.Exit(1), the optional wait for the metal3.io API        *)
(* (waitForAPIs), the signal handler and the run of the manager until its  *)
(* context is cancelled.  Signals arrive at any time: before the handler   *)
(* is installed the default action kills the process; after it, the first *)
(* one cancels the context and the second one exits with status 1.        *)
(*                                                                         *)
(* The external calls (log validation, kubeconfig, manager construction,   *)
(* discovery, check/controller/webhook registration, the manager's run)    *)
(* may each succeed or fail; which one does is a nondeterministic choice.  *)
(***************************************************************************)
EXTENDS TLSOptions

CONSTANTS
  TLSFlagValues,            \* the values tlsOptions can hold after flag parsing
  ConcurrencyFlags,         \* --metal3<kind>-concurrency, per reconciler kind
  WaitForMetal3Controller   \* the package variable waitForMetal3Controller

\* setupReconcilers and setupWebhooks register these kinds in this order.
ReconcilerOrder ==
  << "Metal3Machine", "Metal3Cluster", "Metal3DataTemplate", "Metal3Data",
     "Metal3LabelSync", "Metal3MachineTemplate", "Metal3Remediation" >>
WebhookOrder ==
  << "Metal3Cluster", "Metal3Machine", "Metal3MachineTemplate",
     "Metal3DataTemplate", "Metal3Data", "Metal3DataClaim",
     "Metal3Remediation", "Metal3RemediationTemplate" >>
ReconcilerKinds ==
  {"Metal3Machine", "Metal3Cluster", "Metal3DataTemplate", "Metal3Data",
   "Metal3LabelSync", "Metal3MachineTemplate", "Metal3Remediation"}
WebhookKinds ==
  {"Metal3Cluster", "Metal3Machine", "Metal3MachineTemplate",
   "Metal3DataTemplate", "Metal3Data", "Metal3DataClaim",
   "Metal3Remediation", "Metal3RemediationTemplate"}

ASSUME BootstrapAssumption ==
  /\ TLSFlagValues # {}
  /\ ConcurrencyFlags \in [ReconcilerKinds -> Int]
  /\ WaitForMetal3Controller \in BOOLEAN

NotBuilt == [err |-> "notBuilt"]
NoConfig == [MinVersion |-> "unset"]
NoErr    == "noError"
Running  == -1          \* exitCode while the process lives
Killed   == 143         \* 128 + SIGTERM: died by the default action of a signal

\* controller.Options{MaxConcurrentReconciles: c}
concurrency(c) == [MaxConcurrentReconciles |-> c]

Phases ==
  {"logs", "kubeconfig", "tls", "newManager", "gateConfig", "gatePoll",
   "gateSleep", "signalHandler", "prealloc", "readyz", "healthz",
   "reconcilers", "webhooks", "start", "running", "exited"}

VARIABLES
  pc,                       \* the statement main is at
  tlsOptions,               \* the parsed --tls-* flags
  enableBMHNameBasedPreallocation, \* the flag of that name
  tlsOptionOverrides,       \* what GetTLSOptionOverrideFuncs returned
  apiServed,                \* the cluster serves metal3.io/v1alpha1
  preallocation,            \* baremetal.EnableBMHNameBasedPreallocation
  signalHandler,            \* ctrl.SetupSignalHandler has run
  ctxCancelled,             \* the context it returned is cancelled
  signals,                  \* SIGTERM/SIGINT received so far
  checks,                   \* health checks added to the manager
  reconcilers,              \* controllers registered, in order
  webhooks,                 \* webhooks registered, in order
  mgrStarted,               \* mgr.Start has been called
  webhookTLSConfig,         \* the webhook server's tls.Config once it serves
  setupError,               \* the context of the error main logged, if any
  exitCode                  \* the process's exit status

flagVars   == <<tlsOptions, enableBMHNameBasedPreallocation>>
setupVars  == <<tlsOptionOverrides, preallocation, checks, reconcilers, webhooks>>
signalVars == <<signalHandler, ctxCancelled, signals>>
runVars    == <<mgrStarted, webhookTLSConfig>>
exitVars   == <<setupError, exitCode>>
vars == <<pc, apiServed, flagVars, setupVars, signalVars, runVars, exitVars>>

Init ==
  /\ pc = "logs"
  /\ tlsOptions \in TLSFlagValues
  /\ enableBMHNameBasedPreallocation \in BOOLEAN
  /\ tlsOptionOverrides = NotBuilt
  /\ apiServed \in BOOLEAN
  /\ preallocation = FALSE
  /\ signalHandler = FALSE
  /\ ctxCancelled = FALSE
  /\ signals = 0
  /\ checks = {}
  /\ reconcilers = <<>>
  /\ webhooks = <<>>
  /\ mgrStarted = FALSE
  /\ webhookTLSConfig = NoConfig
  /\ setupError = NoErr
  /\ exitCode = Running

-----------------------------------------------------------------------------
(* setupLog.Error(err, msg); os.Exit(1): the process ends with status 1.   *)
Fatal(msg) == /\ pc' = "exited"
              /\ exitCode' = 1
              /\ setupError' = msg

\* One step of main that only moves on or fails with msg.
StepOrFail(from, to, msg) ==
  /\ pc = from
  /\ \/ pc' = to /\ UNCHANGED exitVars
     \/ Fatal(msg)
  /\ UNCHANGED <<apiServed, flagVars, setupVars, signalVars, runVars>>

\* logsv1.ValidateAndApply(logOptions, nil)
ValidateLogs == StepOrFail("logs", "kubeconfig", "unable to start manager")

\* ctrl.GetConfigOrDie(): logs and exits when no kubeconfig can be loaded.
GetConfig == StepOrFail("kubeconfig", "tls", "unable to get kubeconfig")

\* tlsOptionOverrides, err := GetTLSOptionOverrideFuncs(tlsOptions)
BuildTLSOverrides ==
  LET r == GetTLSOptionOverrideFuncs(tlsOptions) IN
  /\ pc = "tls"
  /\ tlsOptionOverrides' = r
  /\ IF r.err = NoError
     THEN pc' = "newManager" /\ UNCHANGED exitVars
     ELSE Fatal("unable to add TLS settings to the webhook server")
  /\ UNCHANGED <<apiServed, flagVars, preallocation, checks, reconcilers,
                 webhooks, signalVars, runVars>>

\* ctrl.NewManager(...), then `if waitForMetal3Controller`.
NewManager ==
  /\ pc = "newManager"
  /\ \/ /\ pc' = IF WaitForMetal3Controller THEN "gateConfig" ELSE "signalHandler"
        /\ UNCHANGED exitVars
     \/ Fatal("unable to start manager")
  /\ UNCHANGED <<apiServed, flagVars, setupVars, signalVars, runVars>>

\* waitForAPIs: ctrl.GetConfigOrDie() and NewDiscoveryClientForConfig.
DiscoveryClient ==
  /\ pc = "gateConfig"
  /\ \/ pc' = "gatePoll" /\ UNCHANGED exitVars
     \/ Fatal("unable to get kubeconfig")
     \/ Fatal("unable to discover required APIs")
  /\ UNCHANGED <<apiServed, flagVars, setupVars, signalVars, runVars>>

\* Mutant: the loop breaks whatever ServerSupportsVersion returned.
PollAPIsIgnoringError ==
  /\ pc = "gatePoll"
  /\ pc' = "signalHandler"
  /\ UNCHANGED <<apiServed, flagVars, setupVars, signalVars, runVars, exitVars>>

\* discovery.ServerSupportsVersion: break when served, else log and sleep.
PollAPIs ==
  /\ pc = "gatePoll"
  /\ pc' = IF apiServed THEN "signalHandler" ELSE "gateSleep"
  /\ UNCHANGED <<apiServed, flagVars, setupVars, signalVars, runVars, exitVars>>

\* time.Sleep(time.Second * 10); continue
SleepAndRetry ==
  /\ pc = "gateSleep"
  /\ pc' = "gatePoll"
  /\ UNCHANGED <<apiServed, flagVars, setupVars, signalVars, runVars, exitVars>>

\* ctx := ctrl.SetupSignalHandler()
SetupSignalHandler ==
  /\ pc = "signalHandler"
  /\ pc' = "prealloc"
  /\ signalHandler' = TRUE
  /\ UNCHANGED <<apiServed, flagVars, setupVars, ctxCancelled, signals,
                 runVars, exitVars>>

\* if enableBMHNameBasedPreallocation { baremetal.Enable... = ... }
SetPreallocation ==
  /\ pc = "prealloc"
  /\ pc' = "readyz"
  /\ preallocation' = (preallocation \/ enableBMHNameBasedPreallocation)
  /\ UNCHANGED <<apiServed, flagVars, tlsOptionOverrides, checks, reconcilers,
                 webhooks, signalVars, runVars, exitVars>>

\* Mutant: a failed AddReadyzCheck/AddHealthzCheck is logged, not fatal.
AddCheckNoExit(from, to, check, msg) ==
  /\ pc = from
  /\ pc' = to
  /\ \/ checks' = checks \cup {check} /\ UNCHANGED setupError
     \/ setupError' = msg /\ UNCHANGED checks
  /\ UNCHANGED <<apiServed, flagVars, tlsOptionOverrides, preallocation,
                 reconcilers, webhooks, signalVars, runVars, exitCode>>

\* setupChecks: mgr.AddReadyzCheck / mgr.AddHealthzCheck("webhook", ...).
AddCheck(from, to, check, msg) ==
  /\ pc = from
  /\ \/ /\ pc' = to
        /\ checks' = checks \cup {check}
        /\ UNCHANGED exitVars
     \/ Fatal(msg) /\ UNCHANGED checks
  /\ UNCHANGED <<apiServed, flagVars, tlsOptionOverrides, preallocation,
                 reconcilers, webhooks, signalVars, runVars>>

AddReadyzCheck  == AddCheck("readyz", "healthz", "readyz", "unable to create ready check")
AddHealthzCheck == AddCheck("healthz", "reconcilers", "healthz", "unable to create health check")

\* setupReconcilers: the next (&controllers.<Kind>Reconciler{...})
\* .SetupWithManager(ctx, mgr, concurrency(<kind>Concurrency)).
SetupReconciler ==
  LET kind == ReconcilerOrder[Len(reconcilers) + 1] IN
  /\ pc = "reconcilers"
  /\ \/ /\ reconcilers' = Append(reconcilers,
                                 [kind |-> kind,
                                  options |-> concurrency(ConcurrencyFlags[kind])])
        /\ pc' = IF Len(reconcilers) + 1 = Len(ReconcilerOrder)
                 THEN "webhooks" ELSE "reconcilers"
        /\ UNCHANGED exitVars
     \/ Fatal("unable to create controller") /\ UNCHANGED reconcilers
  /\ UNCHANGED <<apiServed, flagVars, tlsOptionOverrides, preallocation,
                 checks, webhooks, signalVars, runVars>>

\* Mutant: a failed registration is logged and the loop goes on.
SetupWebhookNoExit ==
  LET kind == WebhookOrder[Len(webhooks) + 1] IN
  /\ pc = "webhooks"
  /\ \/ /\ webhooks' = Append(webhooks, kind)
        /\ pc' = IF Len(webhooks) + 1 = Len(WebhookOrder) THEN "start" ELSE "webhooks"
        /\ UNCHANGED setupError
     \/ setupError' = "unable to create webhook" /\ UNCHANGED <<pc, webhooks>>
  /\ UNCHANGED <<apiServed, flagVars, tlsOptionOverrides, preallocation,
                 checks, reconcilers, signalVars, runVars, exitCode>>

\* Mutant: the loop stops one webhook short (the last kind is forgotten).
SetupWebhookSkipsLast ==
  LET kind == WebhookOrder[Len(webhooks) + 1] IN
  /\ pc = "webhooks"
  /\ \/ /\ webhooks' = Append(webhooks, kind)
        /\ pc' = IF Len(webhooks) + 2 = Len(WebhookOrder) THEN "start" ELSE "webhooks"
        /\ UNCHANGED exitVars
     \/ Fatal("unable to create webhook") /\ UNCHANGED webhooks
  /\ UNCHANGED <<apiServed, flagVars, tlsOptionOverrides, preallocation,
                 checks, reconcilers, signalVars, runVars>>

\* setupWebhooks: the next (&infrav1.<Kind>{}).SetupWebhookWithManager(mgr).
SetupWebhook ==
  LET kind == WebhookOrder[Len(webhooks) + 1] IN
  /\ pc = "webhooks"
  /\ \/ /\ webhooks' = Append(webhooks, kind)
        /\ pc' = IF Len(webhooks) + 1 = Len(WebhookOrder) THEN "start" ELSE "webhooks"
        /\ UNCHANGED exitVars
     \/ Fatal("unable to create webhook") /\ UNCHANGED webhooks
  /\ UNCHANGED <<apiServed, flagVars, tlsOptionOverrides, preallocation,
                 checks, reconcilers, signalVars, runVars>>

\* mgr.Start(ctx)
StartManager ==
  /\ pc = "start"
  /\ pc' = "running"
  /\ mgrStarted' = TRUE
  /\ UNCHANGED <<apiServed, flagVars, setupVars, signalVars, webhookTLSConfig,
                 exitVars>>

\* The manager starts the webhook server, which builds its tls.Config and
\* runs the TLS overrides on it; it does not start once ctx is done.
StartWebhookServer ==
  /\ pc = "running"
  /\ ~ctxCancelled
  /\ webhookTLSConfig = NoConfig
  /\ webhookTLSConfig' = ApplyOverrides(DefaultTLSConfig, tlsOptionOverrides.overrides)
  /\ UNCHANGED <<pc, apiServed, flagVars, setupVars, signalVars, mgrStarted,
                 exitVars>>

\* Mutant: Start waits for the webhook server before it honours ctx.
ShutdownAfterServing ==
  /\ pc = "running"
  /\ ctxCancelled
  /\ webhookTLSConfig # NoConfig
  /\ pc' = "exited"
  /\ exitCode' = 0
  /\ UNCHANGED <<apiServed, flagVars, setupVars, signalVars, runVars, setupError>>

\* ctx is done: mgr.Start returns nil, main returns, status 0.
Shutdown ==
  /\ pc = "running"
  /\ ctxCancelled
  /\ pc' = "exited"
  /\ exitCode' = 0
  /\ UNCHANGED <<apiServed, flagVars, setupVars, signalVars, runVars, setupError>>

\* Mutant: the error of mgr.Start is logged and main returns (status 0).
ManagerFailsNoExit ==
  /\ pc = "running"
  /\ pc' = "exited"
  /\ exitCode' = 0
  /\ setupError' = "problem running manager"
  /\ UNCHANGED <<apiServed, flagVars, setupVars, signalVars, runVars>>

\* mgr.Start returns an error (leader election lost, a runnable failed).
ManagerFails ==
  /\ pc = "running"
  /\ Fatal("problem running manager")
  /\ UNCHANGED <<apiServed, flagVars, setupVars, signalVars, runVars>>

-----------------------------------------------------------------------------
(* The environment.                                                        *)

\* Mutant: the handler cancels ctx on every signal and never exits.
SignalNoForcedExit ==
  /\ pc # "exited"
  /\ signals' = signals + 1
  /\ IF ~signalHandler
     THEN pc' = "exited" /\ exitCode' = Killed /\ UNCHANGED <<ctxCancelled, setupError>>
     ELSE ctxCancelled' = TRUE /\ UNCHANGED <<pc, exitVars>>
  /\ UNCHANGED <<apiServed, flagVars, setupVars, signalHandler, runVars>>

\* SIGTERM or SIGINT.  Without the handler the process dies; with it the
\* first one cancels ctx and the second one calls os.Exit(1).
Signal ==
  /\ pc # "exited"
  /\ signals' = signals + 1
  /\ \/ /\ ~signalHandler
        /\ pc' = "exited" /\ exitCode' = Killed
        /\ UNCHANGED <<ctxCancelled, setupError>>
     \/ /\ signalHandler /\ signals = 0
        /\ ctxCancelled' = TRUE /\ UNCHANGED <<pc, exitVars>>
     \/ /\ signalHandler /\ signals > 0
        /\ pc' = "exited" /\ exitCode' = 1
        /\ UNCHANGED <<ctxCancelled, setupError>>
  /\ UNCHANGED <<apiServed, flagVars, setupVars, signalHandler, runVars>>

\* The metal3.io CRDs get installed in the cluster.
ServeAPI ==
  /\ ~apiServed
  /\ apiServed' = TRUE
  /\ UNCHANGED <<pc, flagVars, setupVars, signalVars, runVars, exitVars>>

-----------------------------------------------------------------------------
\* The steps of main's goroutine and of the manager it runs.
Main ==
  \/ ValidateLogs \/ GetConfig \/ BuildTLSOverrides \/ NewManager
  \/ DiscoveryClient \/ PollAPIs \/ SleepAndRetry
  \/ SetupSignalHandler \/ SetPreallocation
  \/ AddReadyzCheck \/ AddHealthzCheck
  \/ SetupReconciler \/ SetupWebhook
  \/ StartManager \/ StartWebhookServer \/ Shutdown

Next == Main \/ ManagerFails \/ Signal \/ ServeAPI

Spec == Init /\ [][Next]_vars

\* The process is never starved of CPU: every step of main and of the
\* manager that stays enabled is eventually taken.  Failures, signals and
\* the installation of the API are up to the environment.
FairSpec == Spec /\ WF_vars(Main)

-----------------------------------------------------------------------------
(* The refinement mapping to BootstrapAbstract.  The process is running   *)
(* once mgr.Start was called and it has not exited; it is ready once      *)
(* every setup step main must complete before mgr.Start has completed.    *)
ManagerSetUp ==
  /\ tlsOptionOverrides # NotBuilt /\ tlsOptionOverrides.err = NoError
  /\ signalHandler
  /\ checks = {"readyz", "healthz"}
  /\ Len(reconcilers) = Len(ReconcilerOrder)
  /\ \A i \in 1..Len(reconcilers) :
       reconcilers[i] = [kind |-> ReconcilerOrder[i],
                         options |-> concurrency(ConcurrencyFlags[ReconcilerOrder[i]])]
  /\ webhooks = WebhookOrder

ProcessPhase ==
  IF pc = "exited" THEN "exited" ELSE IF mgrStarted THEN "running" ELSE "setup"

Abstract == INSTANCE BootstrapAbstract
              WITH phase <- ProcessPhase, handler <- signalHandler,
                   ready <- ManagerSetUp, cancelled <- ctxCancelled,
                   status <- exitCode

-----------------------------------------------------------------------------
(* Properties.                                                             *)

TypeOK ==
  /\ pc \in Phases
  /\ tlsOptions \in TLSFlagValues
  /\ enableBMHNameBasedPreallocation \in BOOLEAN
  /\ apiServed \in BOOLEAN
  /\ preallocation \in BOOLEAN
  /\ signalHandler \in BOOLEAN
  /\ ctxCancelled \in BOOLEAN
  /\ signals \in 0..2
  /\ checks \subseteq {"readyz", "healthz"}
  /\ reconcilers \in Seq([kind : ReconcilerKinds,
                          options : [MaxConcurrentReconciles : Int]])
  /\ Len(reconcilers) <= Len(ReconcilerOrder)
  /\ webhooks \in Seq(WebhookKinds)
  /\ Len(webhooks) <= Len(WebhookOrder)
  /\ mgrStarted \in BOOLEAN
  /\ exitCode \in {Running, Killed, 0, 1}

(* The manager runs only when every setup step of main succeeded: the TLS *)
(* overrides were built, the API gate (when on) saw the API, the signal    *)
(* handler is installed, both health checks and every controller and       *)
(* webhook are registered (fail-fast: no partial start), and each          *)
(* controller got the concurrency of its own flag.                         *)
RunningOnlyWhenFullySetUp ==
  mgrStarted =>
    /\ tlsOptionOverrides # NotBuilt
    /\ tlsOptionOverrides.err = NoError
    /\ WaitForMetal3Controller => apiServed
    /\ signalHandler
    /\ checks = {"readyz", "healthz"}
    /\ Len(reconcilers) = Len(ReconcilerOrder)
    /\ \A i \in 1..Len(reconcilers) :
         reconcilers[i] = [kind |-> ReconcilerOrder[i],
                           options |-> [MaxConcurrentReconciles |->
                                          ConcurrencyFlags[ReconcilerOrder[i]]]]
    /\ webhooks = WebhookOrder
    /\ setupError \in {NoErr, "problem running manager"}

(* The exit status tells what happened: 0 only after the manager ran and   *)
(* stopped because one signal cancelled its context with no error logged; *)
(* 1 only after a logged error or a second signal; death by a signal only *)
(* before the handler was installed.                                       *)
ExitStatusSound ==
  /\ exitCode = 0 =>
       mgrStarted /\ ctxCancelled /\ signals = 1 /\ setupError = NoErr
  /\ exitCode = 1 => setupError # NoErr \/ signals = 2
  /\ exitCode = Killed => ~signalHandler /\ ~mgrStarted

(* Fail-fast: once main logged a setup error, no check, controller or      *)
(* webhook is registered any more and the manager is not started.          *)
NoRegistrationAfterError ==
  [][setupError # NoErr => UNCHANGED <<checks, reconcilers, webhooks, mgrStarted>>]_vars

(* A termination signal always ends the process without a second one,     *)
(* whichever step main is in when it arrives, the API gate included.      *)
SignalTerminates == (signals > 0) ~> (pc = "exited")

(* main implements the abstract process: every step either leaves what  *)
(* the abstraction sees alone or is one of its steps, so the manager      *)
(* serves only when fully set up and the exit status is 0 only after a     *)
(* cancelled run, 143 only before the handler, 1 otherwise.                *)
ImplementsAbstract == Abstract!ASpec

-----------------------------------------------------------------------------
(* The inductive invariant behind TypeOK and RunningOnlyWhenFullySetUp:    *)
(* what each step of main has established by the time main is past it,    *)
(* or the manager has started; and what the signals have done so far.      *)
AfterWebhooks    == {"start", "running"}
AfterReconcilers == {"webhooks"} \cup AfterWebhooks
AfterHealthz     == {"reconcilers"} \cup AfterReconcilers
AfterReadyz      == {"healthz"} \cup AfterHealthz
AfterHandler     == {"prealloc", "readyz"} \cup AfterReadyz
AfterGate        == {"signalHandler"} \cup AfterHandler
AfterTLS         == {"newManager", "gateConfig", "gatePoll", "gateSleep"} \cup AfterGate

Past(phases) == pc \in phases \/ mgrStarted

\* The phases main is in before its first controller registration.
BeforeReconcilers == Phases \ (AfterHealthz \cup {"exited"})

SetupProgress ==
  /\ Past(AfterTLS) =>
       tlsOptionOverrides # NotBuilt /\ tlsOptionOverrides.err = NoError
  /\ Past(AfterGate) => (WaitForMetal3Controller => apiServed)
  /\ Past(AfterHandler) => signalHandler
  /\ Past(AfterReadyz) => "readyz" \in checks
  /\ Past(AfterHealthz) => checks = {"readyz", "healthz"}
  /\ pc \in BeforeReconcilers => reconcilers = <<>>
  /\ pc \in BeforeReconcilers \cup {"reconcilers"} => webhooks = <<>>
  /\ pc = "reconcilers" => Len(reconcilers) < Len(ReconcilerOrder)
  /\ Past(AfterReconcilers) => Len(reconcilers) = Len(ReconcilerOrder)
  /\ \A i \in 1..Len(reconcilers) :
       reconcilers[i] = [kind |-> ReconcilerOrder[i],
                         options |-> [MaxConcurrentReconciles |->
                                        ConcurrencyFlags[ReconcilerOrder[i]]]]
  /\ pc = "webhooks" => Len(webhooks) < Len(WebhookOrder)
  /\ Past(AfterWebhooks) => Len(webhooks) = Len(WebhookOrder)
  /\ \A i \in 1..Len(webhooks) : webhooks[i] = WebhookOrder[i]
  /\ pc = "running" => mgrStarted
  /\ mgrStarted => pc \in {"running", "exited"}
  /\ mgrStarted => setupError \in {NoErr, "problem running manager"}
  /\ pc # "exited" => setupError = NoErr /\ exitCode = Running

SignalProgress ==
  /\ signals > 0 /\ ~signalHandler => pc = "exited"
  /\ signals = 2 => pc = "exited"
  /\ ctxCancelled <=> (signalHandler /\ signals > 0)

IInv == TypeOK /\ SetupProgress /\ SignalProgress
=============================================================================
