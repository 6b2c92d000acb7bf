# Formal models of the cluster-api-provider-metal3 manager

This directory holds TLA+ models of the manager binary of this repository
(`src/main.go`) and of the golangci-lint installer script
(`src/unnamed/part_000`), the TLC configurations that check them, and
TLAPS proofs of their main guarantees, including a refinement proof that
main implements an abstract specification of the manager process.

## 1. The system

`src/main.go` is the entry point of the Metal3 infrastructure provider. It
has no long-lived logic of its own. It parses flags, builds the TLS policy of
the webhook server, constructs a controller-runtime manager, optionally
waits until the `metal3.io/v1alpha1` API is served, installs the signal
handler, registers health checks, seven controllers and eight webhooks,
then blocks in `mgr.Start` until the context is cancelled or the manager
fails. Every setup error is fatal: `setupLog.Error(...); os.Exit(1)`.

| Part (spec name) | Code | State it changes | Operations |
|---|---|---|---|
| RuntimeConfig | `initFlags` 177-303, package vars 70-96 | package variables | flag binding |
| SchemeRegistry | `init` 98-107 | `myscheme` | `AddToScheme` x7 |
| TLSPolicyBuilder | `GetTLSOptionOverrideFuncs`, `GetTLSVersion` 459-530 | none (pure) | version lookup, range check, TLS13 cipher drop, cipher lookup, insecure warnings |
| ManagerBootstrap | `main` 109-175 | process phase, exit status | the ordered setup steps, `mgr.Start` |
| APIReadinessGate | `waitForAPIs` 305-328 | none (blocks) | discovery client, poll, sleep 10 s, retry forever |
| HealthChecks | `setupChecks` 330-340 | checks of the manager | readyz, healthz |
| ReconcilerRegistry | `setupReconcilers`, `concurrency` 342-457 | controllers of the manager | 7 registrations, each with its own concurrency flag |
| WebhookRegistry | `setupWebhooks` 413-453 | webhooks of the manager | 8 registrations |
| Signal handling | `ctrl.SetupSignalHandler` (controller-runtime) | context, process | 1st signal cancels, 2nd exits 1 |
| Download script | `src/unnamed/part_000` | temp dir, archive, installed binary, exit status | mktemp/pushd, kernel check, wget, sha256 check, tar, mkdir/mv |
| CI workflows | `src/unnamed/part_001`, `part_002` | none | declarative YAML |

How the parts interact:
- main runs the builder and hands its overrides to the manager options.
- The webhook server applies the overrides, in order, to its `tls.Config`
  when it starts inside `mgr.Start`.
- The readiness gate runs between manager construction and the signal
  handler.
- Signals arrive asynchronously at any step.

The hard behaviours are these:
- Signals interleave with every setup step, and the effect of a signal
  depends on whether the handler is already installed.
- A failure can hit any step, including one in the middle of a
  registration loop.
- The gate may loop forever.
- A second signal can come during the drain.
- The TLS builder has a chain of early returns whose order decides which
  error is reported.

## 2. Modules

| Module | Models | Kind |
|---|---|---|
| `TLSOptions` | `GetTLSVersion`, `GetTLSOptionOverrideFuncs` and the webhook server's application of the overrides | pure operators, no variables |
| `TLSPolicy` | the TLS builder as a component: the flags are read, main builds the overrides, the webhook server applies them | state machine over `TLSOptions` |
| `Bootstrap` | `main`, `waitForAPIs`, `setupChecks`, `setupReconcilers`, `setupWebhooks`, `concurrency`, the signal handler and `mgr.Start` | state machine; EXTENDS `TLSOptions` |
| `BootstrapProofs` | theorems about `Bootstrap` | TLAPS |
| `BootstrapAbstract` | what the manager process promises: setup, start only when ready, cancel, and the meaning of each exit status | abstract state machine |
| `BootstrapRefinement` | proof that `Bootstrap` implements `BootstrapAbstract` | TLAPS |
| `DownloadVerify` | `wget_and_verify` and `download_and_install_golangci_lint` under `set -eux` | state machine |
| `TLSPolicyProofs` | theorems about `TLSPolicy` and lemmas about the `TLSOptions` operators | TLAPS |
| `DownloadVerifyProofs` | theorems about `DownloadVerify`, and proof that it implements `DownloadAbstract` | TLAPS |
| `DownloadAbstract` | what the installer promises: an archive is judged, only an accepted one is installed, and the meaning of the status | abstract state machine |
| `MC_TLSPolicy`, `MC_Bootstrap`, `MC_DownloadVerify` | small values of the constants for TLC | MC |

`TLSOptions` is the bottom layer. `TLSPolicy` and `Bootstrap` both extend
it: `Bootstrap` calls `GetTLSOptionOverrideFuncs` in `BuildTLSOverrides` and
`ApplyOverrides` in `StartWebhookServer`, exactly as main and the webhook
server do.

### TLSOptions

Each definition translates a piece of `GetTLSOptionOverrideFuncs`:
- `GetTLSVersion` is the switch at 518-530.
- `VersionRangeInverted` is the guard at 474, `tlsMaxVersion != 0` included.
- `VersionOverrides` are the two closures at 479-485.
- `IgnoreCipherSuites` is the TLS13/TLS13 test at 487-489.
- `SplitComma` is `strings.Split(s, ",")`, including the empty names it
  produces.
- `CipherSuiteIDs` is `cliflag.TLSCipherSuites`: a lookup in `CipherIDs`
  that fails on the first unknown name.
- `InsecureWarnings` is the loop at 501-508.

`GetTLSOptionOverrideFuncs` is an IF/ELSE chain in the order of the
code's early returns. (An earlier version used a CASE. Its guards overlap,
e.g. an unknown label and an inverted range, and a TLA+ CASE with overlapping
guards leaves the choice open. TLC takes the first guard, so the runs were
unaffected, but the proofs could not rely on the code's order.) It returns a record holding the error, the ordered overrides and
the set of warnings. An override is a record `[field, value]`; applying it
is `[cfg EXCEPT ![field] = value]`, and `ApplyOverrides` is a left fold.

Data is abstracted as follows:
- Cipher names are short sequences of model-value characters.
- `CipherIDs` is a constant function from names to ids.
- `InsecureCipherNames` is a constant set.
- The assumption `TLSOptionsAssumption` says three things: insecure
  names are known names, no name contains the separator, and the empty
  name is not registered (cliflag has no such cipher).

### TLSPolicy

It has three variables:
- `tlsOptions`: the parsed flags;
- `tlsOptionOverrides`: what the builder returned, or `NotBuilt`;
- `webhookTLSConfig`: the server's config once it started, or `NoConfig`.

It has two actions. `BuildTLSOverrides` is main 124-128.
`StartWebhookServer` runs the overrides on a zero `tls.Config`; it is
spec-modelled, since the server is controller-runtime code.

The properties compare the result with the policy of the spec (4.1). That
policy is written with its own operators (`SpecVersion`, `ValidVersionRange`,
`CiphersRequested`, `AllNamesKnown`), not with the code's.
`SpecVersion` is the table from label to tls id, written as a function
constructor so that the prover can read it.

### Bootstrap

`pc` is the statement main is at. Its values are:
- `logs`, `kubeconfig`, `tls`, `newManager`;
- `gateConfig`, `gatePoll`, `gateSleep`;
- `signalHandler`, `prealloc`, `readyz`, `healthz`;
- `reconcilers`, `webhooks`, `start`, `running`, `exited`.

The other variables are:
- the flags;
- the overrides;
- `apiServed`: whether the cluster serves metal3.io;
- the preallocation toggle;
- `signalHandler`, `ctxCancelled`, `signals`;
- `checks`;
- `reconcilers` and `webhooks`: the ordered registrations, each controller
  with its `controller.Options`;
- `mgrStarted`, the webhook `tls.Config`, the logged error and the exit
  status.

Every setup step is one action with two outcomes:
- it moves on, or
- it calls `Fatal(msg)`, which is `setupLog.Error` followed by `os.Exit(1)`.

Whether an external call (log validation, kubeconfig, NewManager, discovery,
a registration) fails is a nondeterministic choice. `SetupReconciler` and
`SetupWebhook` each take one registration of the code's fixed list per step,
so a failure can fall between any two registrations.

The environment has three actions:
- `ManagerFails`: `mgr.Start` returns an error;
- `Signal`: SIGTERM or SIGINT;
- `ServeAPI`: the CRDs get installed.

`Signal` follows controller-runtime's handler:
- before `SetupSignalHandler`, the default action kills the process with
  status 143;
- after it, the first signal cancels the context;
- after it, the second signal calls `os.Exit(1)`.

`Shutdown` is `mgr.Start` returning nil after cancellation, after which main
returns and the status is 0.

### BootstrapAbstract and the refinement mapping

`BootstrapAbstract` has five variables and no setup steps:
- `phase`: `setup`, `running` or `exited`;
- `handler`: termination signals are handled;
- `ready`: everything the manager serves is set up;
- `cancelled`: a handled signal asked the process to stop;
- `status`: the exit status, -1 while the process lives.

Its actions are `InstallHandler`, `CompleteSetup` (only once the handler
is installed), `Start` (only when `ready`), `Cancel` (only with the
handler), and three ways to stop. `Kill` gives 143 and needs no handler.
`CleanExit` gives 0 and needs a running, cancelled process. `Fail` gives 1.

`Bootstrap` defines the mapping and instantiates the abstraction as
`Abstract`:
- `phase <- ProcessPhase`: `exited` once `pc = "exited"`, `running` once
  `mgr.Start` was called, `setup` before;
- `handler <- signalHandler`;
- `ready <- ManagerSetUp`: the TLS overrides built, the handler, both
  checks, the seven controllers with their own concurrency, and the eight
  webhooks in order;
- `cancelled <- ctxCancelled`;
- `status <- exitCode`.

`ImplementsAbstract == Abstract!ASpec` is checked by TLC and proved. Every
setup step but the last webhook registration leaves the mapped state
alone, or is `Fail`. The last registration is `CompleteSetup`. The gate,
the webhook server and the installation of the API are stutters.

### DownloadVerify

The script runs under `set -eux`. It is one sequential process, whose `pc`
takes these values:
- `main`, `mktemp`, `uname`, `wget`, `compare`, `tar`, `install`, `exited`.

Its inputs are chosen in `Init`:
- whether `$1` was given;
- the value of `INSECURE_SKIP_DOWNLOAD_VERIFICATION`, `Unset` included;
- the kernel name `uname` prints.

Each external command either succeeds or fails with a status it can
return. wget can return 1-8 and tar 1 or 2; mktemp, pushd, mkdir and mv
return 1. Under `set -e` the script then ends with that status. Under
`set -u` it ends with status 1 when it expands an unset variable. Two
places do this: `"$1"` at line 80 when the argument is missing, and the
skip variable at line 41 on a checksum mismatch. The served archive
matches the pinned sha256 or not, by nondeterministic choice. Messages
are abstracted to their kind (warning, fatal, unbound variable, command
failure).

The refinement mapping to `DownloadAbstract` reads:
- `InstallStage` from `pc`: `fetching` up to the comparison, `accepted`
  at `tar` and `install`, and `done` once the script exited;
- `ArchiveVerdict` from the archive wget fetched and the skip switch:
  `pending`, `pinned`, `waived` (a mismatch with the switch `true`) or
  `rejected`;
- `binary` and `status` from `installed` and `exitCode`.

`DownloadAbstract` allows four steps: `Download` (the verdict is set),
`Accept` (only a pinned or waived archive), `InstallBinary` (status 0)
and `Fail` (a non-zero status, nothing installed). `Fail` is allowed at
any stage before the end.

## 3. Runs

| Run | Config | Expect | What it shows |
|---|---|---|---|
| tls_policy | `MC_TLSPolicy.cfg` | pass | see below |
| tls_max_unset | `MC_TLSPolicy_maxunset.cfg` | violation | an empty `--tls-max-version` is rejected at line 469, so the `tlsMaxVersion != 0` guard is dead and "unspecified max = no upper bound" (spec 4.1) never happens |
| bootstrap | `MC_Bootstrap.cfg` | pass | see below |
| bootstrap_gate | `MC_Bootstrap_gate.cfg` | pass | with the gate on, the manager starts only after the API was seen; a signal still ends the process while the gate loops |
| bootstrap_refinement | `MC_Bootstrap_refine.cfg` | pass | with the gate on, every behaviour of main is a behaviour of `BootstrapAbstract` (`ImplementsAbstract`) |
| download_verify | `MC_DownloadVerify.cfg` | pass | see below |
| download_refinement | `MC_DownloadVerify_refine.cfg` | pass | every behaviour of the installer is a behaviour of `DownloadAbstract` (`ImplementsAbstract`) |
| download_mismatch_message | `MC_DownloadVerify_mismatch.cfg` | violation | with the skip variable unset (its default), a checksum mismatch ends with bash's "unbound variable", not the fatal checksum message of lines 43-45 |

tls_policy: for all 640 flag combinations it checks four properties.
- `BuildSucceedsIff`: the builder succeeds exactly when the policy allows.
- `AppliedConfigHonoursFlags`: the server's config has exactly the
  requested versions and cipher ids.
- `CipherWarningsFaithful`: the warnings are exactly the due ones.
- `EmptyCipherNameRejected`: a used cipher list with a leading, trailing
  or doubled comma fails the build, because `strings.Split` keeps the
  empty field and cliflag does not know it. The first three properties
  name the cipher list through the same `SplitComma` as the code, so they
  cannot tell how the split treats empty fields. This one is stated on
  the raw string. Its mutant is a split that drops empty fields.

bootstrap: it explores every interleaving of failures, signals and a fatal
manager error, and checks these properties.
- `TypeOK`.
- `RunningOnlyWhenFullySetUp`: the fail-fast contract, with each
  controller getting its own concurrency.
- `ExitStatusSound`: the exit status tells what happened.
- `NoRegistrationAfterError`: an action property.
- `SignalTerminates`: a signal always ends the process.

download_verify: for every argument, kernel and skip value, and every
command failure, it checks two properties.
- `InstalledOnlyIfVerified`: a binary reaches `bin_dir` only from an
  archive with the pinned sum, or under the skip switch set to `true`
  after the warning.
- `ExitStatusMeansInstalled`: the status is 0 exactly when the binary was
  installed.

Bounds and why they are enough:
- **TLS.** The version labels are `TLS12`, `TLS13`, `TLS11` (unknown) and
  `""` (empty). The cipher strings are every sequence of up to 3
  characters over {`a`, `b`, `,`}, where `a` is a secure known name and `b`
  an insecure one. That covers every branch of the builder: each version
  error, the inverted range, the TLS13 drop, an unknown name (`""`, `ab`,
  `aa`), the empty names made by `,`, duplicates, and insecure warnings.
- **Bootstrap.** There are three flag sets: the defaults, TLS13/TLS13 with
  a cipher, and an inverted range. So the TLS step both succeeds and fails.
  The concurrency flags are the code's defaults (machine 1, others 10).
  Signals are bounded by 2, since the third cannot matter: the second
  already exits. Every step can fail. The gate is explored both ways: the
  code's `waitForMetal3Controller` is always false (no flag sets it), and
  the gate config models the spec's opt-in switch.
- **Download script.** The kernels are `linux` and `darwin` (pinned) and
  `freebsd` (not pinned). The skip values are unset, `true` and `false`.
  That covers each branch of the `case`, of the checksum test and of
  `set -u`. The model has no loop, so the whole state space is explored:
  170 states.

Fairness: `FairSpec` adds `WF_vars(Main)`. Main is a single goroutine that
never blocks except in the gate's sleep (a timed sleep) and in `mgr.Start`
until cancellation. So each of its enabled steps is eventually taken.
Failures, signals and the installation of the API are the environment's
choice and get no fairness. The download script's run checks only safety,
so it needs no fairness. Deadlock checking is off: once the process has
exited no step is possible, which is the intended end state.

Each property of a passing run is paired with a mutant: a plausible bug in
the mapped code that TLC then catches (see `PROJECT.json`). Examples are
`>=` for `>` in the range check, a registration error that is only logged,
a shutdown that waits for the webhook server, and a poll that ignores the
discovery error.

## 4. Proofs

Four modules hold the proofs, for every value of the constants.

| Module | Theorem | Statement |
|---|---|---|
| `BootstrapProofs` | `TypeCorrect` | `Spec => []TypeOK` |
| `BootstrapProofs` | `FullySetUp` | `Spec => []RunningOnlyWhenFullySetUp` |
| `BootstrapProofs` | `NoRegistrationAfterErrorThm` | `Spec => NoRegistrationAfterError` |
| `BootstrapProofs` | `ExitStatusSoundThm` | `Spec => []ExitStatusSound` |
| `BootstrapProofs` | `CleanShutdownExitsZero` | once ended after one handled signal with no error logged, the status is 0 |
| `BootstrapRefinement` | `Refinement` | `Spec => ImplementsAbstract` |
| `DownloadVerifyProofs` | `DownloadTypeCorrect` | `Spec => []TypeOK` |
| `DownloadVerifyProofs` | `OnlyVerifiedInstalled` | `Spec => []InstalledOnlyIfVerified` |
| `DownloadVerifyProofs` | `StatusMeansInstalled` | `Spec => []ExitStatusMeansInstalled` |
| `DownloadVerifyProofs` | `DownloadRefinement` | `Spec => ImplementsAbstract` |
| `TLSPolicyProofs` | `BuildSucceedsIffThm` | `Spec => []BuildSucceedsIff` |
| `TLSPolicyProofs` | `CipherWarningsFaithfulThm` | `Spec => []CipherWarningsFaithful` |
| `TLSPolicyProofs` | `AppliedConfigHonoursFlagsThm` | `Spec => []AppliedConfigHonoursFlags` |

The Bootstrap proofs assume only `BootstrapAssumption`: the flag set is
non-empty, the concurrency flags are integers, and the gate switch is
Boolean. The TLS assumption is hidden, since it plays no part.

All three rest on the inductive invariant `IInv` of `Bootstrap`, made of
`TypeOK`, `SetupProgress` and `SignalProgress`. `RunningOnlyWhenFullySetUp`
is not inductive by itself, because it only speaks of states where the
manager started. `SetupProgress` records, for each phase main has passed,
what that phase established. It says, for example, that:
- past `tls`, the overrides were built without error;
- in `reconcilers`, fewer than seven controllers are registered;
- before `reconcilers`, none are;
- every registered controller i is `ReconcilerOrder[i]` with its own flag's
  concurrency;
- the same holds for the webhooks;
- before `exited`, no error was logged.

`SignalProgress` ties the signal count to the handler, the context and the
phase.

TLC checked `IInv` as an invariant of both bootstrap configurations before
the proof. The proof then has three parts:
- `InitIInv`: `Init => IInv`.
- `NextIInv`: `IInv /\ [Next]_vars => IInv'`, with one case per action. The
  registration cases use `AppendProperties`, and `SeqEqual` is used for
  `webhooks = WebhookOrder`.
- The theorems follow by PTL. `NoRegistrationAfterErrorThm` uses the fact
  that after an error `pc = "exited"` and no step but `ServeAPI` is
  enabled.

`ExitStatusSound` is not inductive with `IInv` alone: a step must know
the status was still `Running` before it. `IInv /\ ExitStatusSound` is
inductive, because `IInv` says that before `exited` the status is
`Running` and no error was logged. `NextExitStatusSound` shows this with
one case per group of actions. `Shutdown` gets `signals = 1` from
`SignalProgress`: the context is cancelled and the process has not exited.

`CleanShutdownExitsZero` is the converse that the spec states: exactly one
handled signal and no logged error mean status 0. It needs no new
invariant. By `TypeOK` the status is one of -1, 143, 0 and 1. By
`ExitStatusSound`, 1 requires an error or a second signal, and 143 requires
that the handler is not installed.

`Refinement` uses the same `IInv`. `InitRefines` maps the initial state.
`NextRefines` has one case per action or group of actions.
- `SetupStepRefines` covers every setup step before the webhooks: the
  process is not ready before or after it, because
  `EarlyWebhooksShort` says the webhook list is short.
- The last webhook registration is `CompleteSetup`; the full list follows
  from `SeqEqual`.
- `StartManager` is `Start`, where `ReadyAtStart` supplies `ready`.
- `Signal` is `Kill`, `Cancel` or `Fail`, according to the handler and
  the signal count.

`DownloadVerifyProofs` uses the inductive invariant `TypeOK /\
ScriptProgress`. `ScriptProgress` says that past the comparison the
archive is `Verified`, that an installed binary means the script exited
with 0, and that an exit with 0 means the binary is installed.

`DownloadRefinement` needs more than `IInv`: the abstract `Download`
step requires a pending verdict, and `Accept` and `InstallBinary` require
the script to be still running. `ArchiveProgress` says there is no archive
before wget returned and there is one after. It also says the status is
-1 exactly while the script runs. `RInv == IInv /\ ArchiveProgress` is
inductive, and TLC checked it as an invariant of the `download_verify`
configuration before the proof. `NextRefinesAbstract` has one case per
action:
- every failing branch is `Fail` (`FailRefines`), since every status a
  command fails with lies in 1..8;
- the steps between lines of one stage are stutters (`StutterRefines`);
- wget's success is `Download`;
- the comparison's success is `Accept`;
- mv's success is `InstallBinary`.

`TLSPolicyProofs` proves the three TLS properties. They hold for any
cipher registry, any insecure list and any flag values: the proofs use
neither `TLSOptionsAssumption` nor the flag type. The argument has two
layers.
- **What the builder returns.** `BuildOutcome` computes, for any flags
  `o`, the result of `GetTLSOptionOverrideFuncs(o)`. The build succeeds
  exactly under the policy's conditions. Without a used cipher list the
  result is the two version overrides with the "ignored" warning when it
  is due. With one, it is the three overrides with the insecure warnings.
  `SplitComma` stays opaque: the policy names the same split through
  `RequestedNames`, so no fact about what it computes is needed.
  `GetTLSVersionSpec` relates the switch to `SpecVersion`, and it gives
  the non-zero id that makes the `tlsMaxVersion != 0` guard true.
- **What running the overrides gives.** `ApplyTwo` and `ApplyThree`
  evaluate `FoldLeft` on two and three overrides. `FoldLeft` is a
  recursive function over the subsets of the index set that takes the
  greatest index first (`Max`). Each lemma gives an explicit function
  that satisfies the recursive equation, so the function `FoldLeft`
  CHOOSEs satisfies it too. The lemma then evaluates that equation along
  {1}, {1,2}, {1,2,3}. `MaxIsGreatest` gives `Max` on those sets.
  `AppliedVersions` and `AppliedVersionsAndCiphers` apply this to the
  zero `tls.Config`.

The inductive invariant `TLSInv` says three things:
- a built result is `GetTLSOptionOverrideFuncs(tlsOptions)`;
- a started server's config is `ApplyOverrides` of that result's
  overrides;
- the result is a success.

The properties themselves are not inductive. For example,
`BuildSucceedsIff` says nothing about the overrides the server will
apply. TLC checked `TLSInv` on the `tls_policy` configuration before the
proof.

What stays with TLC:
- The liveness property `SignalTerminates`: fairness is beyond the prover.
- `EmptyCipherNameRejected`, and what `SplitComma` computes for all strings. `SelectSeq` is a recursive
  function, and that would need induction over data. The TLS theorems do
  not depend on it, because the policy uses the same split. The TLS runs
  evaluate it on every string of up to three characters, empty fields and
  trailing separators included.
- `ApplyOverrides` on lists of arbitrary length. Only lengths 2 and 3
  occur, and those are proved.

## 5. Not modelled

- **SchemeRegistry.** It is a write-once registration at `init` whose
  errors are discarded; there is no control flow.
- **Flag parsing itself.** That is pflag. The values are constants.
- **controller-runtime's worker pools, leader election and drain.** They
  are not in this repository and are planned as spec-modelled modules: a
  per-kind pool bounded by `MaxConcurrentReconciles`, two replicas with a
  lease, and a drain on cancellation.
- **In the download script:** the URL and architecture strings, and the
  `CAPM3_DIR` path computation. They are data with no control flow. The
  temporary directory is recorded (`tmpDir`) but is never removed on any
  path: there is no trap and no `rm -rf`. So a property about it would
  only restate that no line removes it.
- **The CI workflows.** They are declarative YAML.

## 6. Findings

1. **Spec/code divergence** (`main.go:469`, run tls_max_unset). An empty
   max version is an error, so the spec's "unspecified max = no upper
   bound" is unreachable and the `tlsMaxVersion != 0` guard is dead.
2. **Code bug** (`part_000:41`, run download_mismatch_message). The script
   reads `${INSECURE_SKIP_DOWNLOAD_VERIFICATION}` under `set -u` without a
   default. With the variable unset, its default state, a checksum
   mismatch aborts with "unbound variable". The fatal message that names
   the URL and both sums is printed only when the variable is set to
   something other than `true`. No bad binary is installed either way
   (`OnlyVerifiedInstalled` proves that).

Also observed, and not a run:
- The signal handler is installed at line 159, after the manager is
  built and after the possibly endless gate. A signal before it kills the
  process by the default action (143). This is not a divergence from the
  spec: it promises status 0 only "on clean shutdown after signal", and it
  says the gate ends by external termination. A signal that arrives
  before `main`'s first statement would end the process whatever the code
  did. What the spec does promise is proved as `CleanShutdownExitsZero`.
  `ExitStatusSound` allows 143 only before the handler.
- `--metal3machine-concurrency` above 1 is accepted even though the code's
  own help text calls it unsafe.
- `waitForMetal3Controller` has no flag, so the gate is dead code in this
  build.
