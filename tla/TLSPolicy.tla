----------------------------- MODULE TLSPolicy ------------------------------
(***************************************************************************)
(* The TLS policy as a component: the flag values are read, main builds    *)
(* the overrides (main.go:124-128) and, when that succeeds, the webhook    *)
(* server applies them to its tls.Config when it starts.  The properties   *)
(* compare the outcome with the policy that the flags ask for, written     *)
(* independently of the code's operators.                                  *)
(***************************************************************************)
EXTENDS TLSOptions, TLC

CONSTANTS
  TLSFlagValues   \* the values tlsOptions can hold after flag parsing

ASSUME TLSPolicyAssumption ==
  TLSFlagValues \subseteq
    [TLSMinVersion : STRING, TLSMaxVersion : STRING, TLSCipherSuites : Seq(STRING)]

NotBuilt == [err |-> "notBuilt"]
NoConfig == [MinVersion |-> "unset"]

VARIABLES
  tlsOptions,          \* the parsed --tls-* flags
  tlsOptionOverrides,  \* what GetTLSOptionOverrideFuncs returned
  webhookTLSConfig     \* the webhook server's tls.Config once it started

vars == <<tlsOptions, tlsOptionOverrides, webhookTLSConfig>>

Init ==
  /\ tlsOptions \in TLSFlagValues
  /\ tlsOptionOverrides = NotBuilt
  /\ webhookTLSConfig = NoConfig

\* main: tlsOptionOverrides, err := GetTLSOptionOverrideFuncs(tlsOptions)
BuildTLSOverrides ==
  /\ tlsOptionOverrides = NotBuilt
  /\ tlsOptionOverrides' = GetTLSOptionOverrideFuncs(tlsOptions)
  /\ UNCHANGED <<tlsOptions, webhookTLSConfig>>

\* The webhook server starts and runs every override on its tls.Config.
StartWebhookServer ==
  /\ tlsOptionOverrides # NotBuilt
  /\ tlsOptionOverrides.err = NoError
  /\ webhookTLSConfig = NoConfig
  /\ webhookTLSConfig' = ApplyOverrides(DefaultTLSConfig, tlsOptionOverrides.overrides)
  /\ UNCHANGED <<tlsOptions, tlsOptionOverrides>>

Next == BuildTLSOverrides \/ StartWebhookServer

Spec == Init /\ [][Next]_vars

-----------------------------------------------------------------------------
(* The policy the flags ask for, as the spec (4.1) states it.              *)
SpecVersion ==
  [v \in {TLSVersion12, TLSVersion13} |->
     IF v = TLSVersion12 THEN VersionTLS12 ELSE VersionTLS13]

BothTLS13(o) == o.TLSMinVersion = TLSVersion13 /\ o.TLSMaxVersion = TLSVersion13

CiphersRequested(o) == o.TLSCipherSuites # <<>> /\ ~BothTLS13(o)

RequestedNames(o) == SplitComma(o.TLSCipherSuites)

ValidVersionRange(o) ==
  /\ o.TLSMinVersion \in DOMAIN SpecVersion
  /\ o.TLSMaxVersion \in DOMAIN SpecVersion
  /\ SpecVersion[o.TLSMinVersion] <= SpecVersion[o.TLSMaxVersion]

AllNamesKnown(o) ==
  \A i \in DOMAIN RequestedNames(o) : RequestedNames(o)[i] \in DOMAIN CipherIDs

Built == tlsOptionOverrides # NotBuilt

Succeeded == Built /\ tlsOptionOverrides.err = NoError

(* The builder succeeds exactly when both labels are known, the minimum    *)
(* does not exceed the maximum and, when a cipher list is used, every name *)
(* in it is known (GetTLSOptionOverrideFuncs and its early returns).       *)
BuildSucceedsIff ==
  Built =>
    (Succeeded <=> ValidVersionRange(tlsOptions)
                   /\ (CiphersRequested(tlsOptions) => AllNamesKnown(tlsOptions)))

(* The tls.Config the webhook server ends up with, after it ran every      *)
(* override in order, has exactly the versions of the flags and the cipher *)
(* ids of the names given, or no cipher list when none applies.            *)
AppliedConfigHonoursFlags ==
  webhookTLSConfig # NoConfig =>
    webhookTLSConfig =
      [MinVersion   |-> SpecVersion[tlsOptions.TLSMinVersion],
       MaxVersion   |-> SpecVersion[tlsOptions.TLSMaxVersion],
       CipherSuites |-> IF CiphersRequested(tlsOptions)
                        THEN [i \in DOMAIN RequestedNames(tlsOptions) |->
                                CipherIDs[RequestedNames(tlsOptions)[i]]]
                        ELSE <<>>]

(* A successful build warns that the cipher list is ignored exactly when   *)
(* both bounds are TLS13 and a list was given, and warns once for every    *)
(* insecure name of a list that is used, and about nothing else.           *)
CipherWarningsFaithful ==
  Succeeded =>
    tlsOptionOverrides.warnings =
      (IF BothTLS13(tlsOptions) /\ tlsOptions.TLSCipherSuites # <<>>
       THEN {Warning("ciphersIgnored", <<>>)} ELSE {})
      \cup
      (IF CiphersRequested(tlsOptions)
       THEN {Warning("insecureCipher", n) :
               n \in {RequestedNames(tlsOptions)[i] :
                        i \in DOMAIN RequestedNames(tlsOptions)} \cap InsecureCipherNames}
       ELSE {})

(* strings.Split at line 495 keeps empty fields: a used cipher list that  *)
(* starts or ends with a comma, or holds two adjacent ones, names the     *)
(* empty cipher, which cliflag does not know, so the build fails instead  *)
(* of silently skipping it.  Stated on the raw flag string.               *)
EmptyCipherNameRejected ==
  LET s == tlsOptions.TLSCipherSuites
  IN  (Built /\ CiphersRequested(tlsOptions)
             /\ \/ s[1] = Comma \/ s[Len(s)] = Comma
                \/ \E i \in 1..Len(s) - 1 : s[i] = Comma /\ s[i + 1] = Comma)
      => ~Succeeded

(* The spec (4.1): "a max of unspecified is treated as no upper bound";    *)
(* with a known minimum and an empty --tls-max-version the build would     *)
(* then succeed.  The guard tlsMaxVersion != 0 of the code is meant for it. *)
MaxUnspecifiedMeansNoUpperBound ==
  (Built /\ tlsOptions.TLSMaxVersion = ""
         /\ tlsOptions.TLSMinVersion \in tlsSupportedVersions
         /\ tlsOptions.TLSCipherSuites = <<>>) => Succeeded
=============================================================================
