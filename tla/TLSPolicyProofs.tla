-------------------------- MODULE TLSPolicyProofs ---------------------------
EXTENDS TLSPolicy, SequenceTheorems, TLAPS


\* Max (FiniteSetsExt) of a set of naturals is its greatest element; FoldLeft
\* takes the last index first, through Max.
LEMMA MaxIsGreatest ==
  ASSUME NEW s \in SUBSET Nat, NEW m \in s, \A y \in s : y <= m
  PROVE  Max(s) = m
<1>1. \E x \in s : \A y \in s : x >= y
  OBVIOUS
<1>2. Max(s) \in s /\ \A y \in s : Max(s) >= y
  BY <1>1 DEF Max
<1>3. Max(s) \in Nat /\ Max(s) >= m /\ m >= Max(s)
  BY <1>2
<1> QED
  BY <1>3

\* The loop `for _, op := range TLSOpts { op(cfg) }` over two overrides runs
\* the first, then the second.
LEMMA ApplyTwo ==
  ASSUME NEW cfg, NEW a, NEW b
  PROVE  ApplyOverrides(cfg, <<a, b>>) = ApplyOverride(ApplyOverride(cfg, a), b)
<1> DEFINE seq == <<a, b>>
           Body(g, s) == IF s = {} THEN cfg
                         ELSE ApplyOverride(g[s \ {Max(s)}], seq[Max(s)])
           it == CHOOSE g : g = [s \in SUBSET {1, 2} |-> Body(g, s)]
           A1 == ApplyOverride(cfg, a)
           w == [s \in SUBSET {1, 2} |->
                   IF s = {} THEN cfg
                   ELSE IF s = {1} THEN A1
                   ELSE IF s = {2} THEN ApplyOverride(cfg, b)
                   ELSE ApplyOverride(A1, b)]
<1>1. ApplyOverrides(cfg, seq) = it[{1, 2}]
  BY DEF ApplyOverrides, FoldLeft, MapThenFoldSet
<1>2. Max({1, 2}) = 2 /\ Max({1}) = 1 /\ Max({2}) = 2
  BY DEF Max
<1>3. SUBSET {1, 2} = {{}, {1}, {2}, {1, 2}}
  OBVIOUS
<1>4. w = [s \in SUBSET {1, 2} |-> Body(w, s)]
  <2>1. \A s \in SUBSET {1, 2} :
          s # {} => Body(w, s) = ApplyOverride(w[s \ {Max(s)}], seq[Max(s)])
    BY DEF Body
  <2>2. Body(w, {}) = cfg
    BY DEF Body
  <2>3. {1} \ {Max({1})} = {} /\ seq[Max({1})] = a
    BY <1>2 DEF seq
  <2>4. {2} \ {Max({2})} = {} /\ seq[Max({2})] = b
    BY <1>2 DEF seq
  <2>5. {1, 2} \ {Max({1, 2})} = {1} /\ seq[Max({1, 2})] = b
    BY <1>2 DEF seq
  <2>6. w[{}] = cfg /\ w[{1}] = A1 /\ w[{2}] = ApplyOverride(cfg, b)
        /\ w[{1, 2}] = ApplyOverride(A1, b)
    BY DEF w
  <2>7. \A s \in SUBSET {1, 2} : w[s] = Body(w, s)
    BY <1>3, <2>1, <2>2, <2>3, <2>4, <2>5, <2>6 DEF A1
  <2> QED
    BY <2>7 DEF w
<1>5. it = [s \in SUBSET {1, 2} |-> Body(it, s)]
  BY <1>4
<1>6. it[{}] = cfg
  BY <1>5
<1>7. it[{1}] = A1
  <2>1. it[{1}] = Body(it, {1})
    BY <1>5
  <2>a. {1} \ {Max({1})} = {} /\ seq[Max({1})] = a
    BY <1>2 DEF seq
  <2>b. Body(it, {1}) = ApplyOverride(it[{1} \ {Max({1})}], seq[Max({1})])
    BY DEF Body
  <2>2. Body(it, {1}) = ApplyOverride(it[{}], a)
    BY <2>a, <2>b
  <2> QED
    BY <1>6, <2>1, <2>2
<1>8. it[{1, 2}] = ApplyOverride(it[{1}], b)
  <2>1. it[{1, 2}] = Body(it, {1, 2})
    BY <1>5
  <2>2. {1, 2} \ {2} = {1}
    OBVIOUS
  <2>a. {1, 2} \ {Max({1, 2})} = {1} /\ seq[Max({1, 2})] = b
    BY <1>2, <2>2 DEF seq
  <2>b. Body(it, {1, 2}) = ApplyOverride(it[{1, 2} \ {Max({1, 2})}], seq[Max({1, 2})])
    BY DEF Body
  <2>3. Body(it, {1, 2}) = ApplyOverride(it[{1}], b)
    BY <2>a, <2>b
  <2> QED
    BY <2>1, <2>3
<1> QED
  BY <1>1, <1>7, <1>8

\* The same loop over three overrides runs them in order.
LEMMA ApplyThree ==
  ASSUME NEW cfg, NEW a, NEW b, NEW c
  PROVE  ApplyOverrides(cfg, <<a, b, c>>) =
           ApplyOverride(ApplyOverride(ApplyOverride(cfg, a), b), c)
<1> DEFINE seq == <<a, b, c>>
           S == SUBSET {1, 2, 3}
           Body(g, s) == IF s = {} THEN cfg
                         ELSE ApplyOverride(g[s \ {Max(s)}], seq[Max(s)])
           it == CHOOSE g : g = [s \in S |-> Body(g, s)]
           X1(s) == IF 1 \in s THEN ApplyOverride(cfg, a) ELSE cfg
           X2(s) == IF 2 \in s THEN ApplyOverride(X1(s), b) ELSE X1(s)
           X3(s) == IF 3 \in s THEN ApplyOverride(X2(s), c) ELSE X2(s)
           w == [s \in S |-> X3(s)]
<1>1. ApplyOverrides(cfg, seq) = it[{1, 2, 3}]
  BY DEF ApplyOverrides, FoldLeft, MapThenFoldSet
<1>2. \A s \in S : 3 \in s => Max(s) = 3
  BY MaxIsGreatest
<1>3. \A s \in S : 3 \notin s /\ 2 \in s => Max(s) = 2
  BY MaxIsGreatest
<1>4. \A s \in S : s # {} /\ 3 \notin s /\ 2 \notin s => s = {1} /\ Max(s) = 1
  <2> SUFFICES ASSUME NEW s \in S, s # {}, 3 \notin s, 2 \notin s
               PROVE  s = {1} /\ Max(s) = 1
    OBVIOUS
  <2>1. s = {1}
    OBVIOUS
  <2> QED
    BY <2>1, MaxIsGreatest
<1>5. \A g, s : s # {} => Body(g, s) = ApplyOverride(g[s \ {Max(s)}], seq[Max(s)])
  BY DEF Body
<1>6. \A s \in S : s \ {3} \in S /\ s \ {2} \in S /\ s \ {1} \in S
  OBVIOUS
<1>7. w = [s \in S |-> Body(w, s)]
  <2>1. SUFFICES ASSUME NEW s \in S PROVE w[s] = Body(w, s)
    BY DEF w
  <2>2. CASE s = {}
    BY <2>2 DEF w, X1, X2, X3, Body
  <2>3. CASE 3 \in s
    <3>1. w[s \ {3}] = X2(s)
      BY <1>6 DEF w, X1, X2, X3
    <3>2. w[s] = ApplyOverride(X2(s), c)
      BY <2>3 DEF w, X3
    <3>3. Body(w, s) = ApplyOverride(w[s \ {3}], c)
      <4>1. Max(s) = 3 /\ s # {}
        BY <1>2, <2>3
      <4>2. Body(w, s) = ApplyOverride(w[s \ {Max(s)}], seq[Max(s)])
        BY <1>5, <4>1
      <4>3. seq[3] = c
        BY DEF seq
      <4> QED
        BY <4>1, <4>2, <4>3
    <3> QED
      BY <3>1, <3>2, <3>3
  <2>4. CASE 3 \notin s /\ 2 \in s
    <3>1. w[s \ {2}] = X1(s)
      BY <1>6, <2>4 DEF w, X1, X2, X3
    <3> QED
      BY <1>3, <1>5, <2>4, <3>1 DEF w, X3, X2, seq
  <2>5. CASE s # {} /\ 3 \notin s /\ 2 \notin s
    <3>1. s = {1} /\ Max(s) = 1
      BY <1>4, <2>5
    <3>2. w[s \ {1}] = cfg
      BY <3>1 DEF w, X1, X2, X3
    <3> QED
      BY <1>5, <2>5, <3>1, <3>2 DEF w, X3, X2, X1, seq
  <2> QED
    BY <2>2, <2>3, <2>4, <2>5
<1>8. it = [s \in S |-> Body(it, s)]
  BY <1>7
<1>9. it[{}] = cfg
  BY <1>8 DEF Body
<1>10. it[{1}] = ApplyOverride(cfg, a)
  <2>1. {1} \ {Max({1})} = {} /\ seq[Max({1})] = a
    BY <1>4 DEF seq
  <2> QED
    BY <1>5, <1>8, <1>9, <2>1
<1>11. it[{1, 2}] = ApplyOverride(it[{1}], b)
  <2>1. {1, 2} \ {Max({1, 2})} = {1} /\ seq[Max({1, 2})] = b
    BY <1>3 DEF seq
  <2> QED
    BY <1>5, <1>8, <2>1
<1>12. it[{1, 2, 3}] = ApplyOverride(it[{1, 2}], c)
  <2>1. {1, 2, 3} \ {Max({1, 2, 3})} = {1, 2} /\ seq[Max({1, 2, 3})] = c
    BY <1>2 DEF seq
  <2> QED
    BY <1>5, <1>8, <2>1
<1> QED
  BY <1>1, <1>10, <1>11, <1>12

\* GetTLSVersion accepts exactly the labels of the policy's version table and
\* returns its (non-zero) tls id.
LEMMA GetTLSVersionSpec ==
  ASSUME NEW x
  PROVE  /\ GetTLSVersion(x).ok \in BOOLEAN
         /\ GetTLSVersion(x).ok <=> x \in DOMAIN SpecVersion
         /\ x \in DOMAIN SpecVersion =>
               /\ GetTLSVersion(x).v = SpecVersion[x]
               /\ SpecVersion[x] \in {VersionTLS12, VersionTLS13}
<1>1. DOMAIN SpecVersion = {TLSVersion12, TLSVersion13}
      /\ SpecVersion[TLSVersion12] = VersionTLS12
      /\ SpecVersion[TLSVersion13] = VersionTLS13
  BY DEF SpecVersion, TLSVersion12, TLSVersion13
<1> QED
  BY <1>1 DEF GetTLSVersion, TLSVersion12, TLSVersion13, VersionTLS12, VersionTLS13

\* What GetTLSOptionOverrideFuncs returns for any flags: it succeeds exactly
\* under the policy's conditions, and its overrides and warnings are those of
\* the branch without and with a used cipher list.
LEMMA BuildOutcome ==
  ASSUME NEW o
  PROVE  LET r  == GetTLSOptionOverrideFuncs(o)
             lo == SpecVersion[o.TLSMinVersion]
             hi == SpecVersion[o.TLSMaxVersion]
         IN  /\ r.err = NoError <=>
                  ValidVersionRange(o) /\ (CiphersRequested(o) => AllNamesKnown(o))
             /\ r.err = NoError /\ ~CiphersRequested(o) =>
                  r = TLSResult(NoError, VersionOverrides(lo, hi),
                                IF BothTLS13(o) /\ o.TLSCipherSuites # <<>>
                                THEN {Warning("ciphersIgnored", <<>>)} ELSE {})
             /\ r.err = NoError /\ CiphersRequested(o) =>
                  r = TLSResult(NoError,
                                Append(VersionOverrides(lo, hi),
                                       Override("CipherSuites",
                                                CipherSuiteIDs(RequestedNames(o)))),
                                InsecureWarnings(RequestedNames(o)))
<1> DEFINE r  == GetTLSOptionOverrideFuncs(o)
           lo == SpecVersion[o.TLSMinVersion]
           hi == SpecVersion[o.TLSMaxVersion]
           min    == GetTLSVersion(o.TLSMinVersion)
           max    == GetTLSVersion(o.TLSMaxVersion)
           ignore == IgnoreCipherSuites(o)
           suites == IF ignore THEN <<>> ELSE o.TLSCipherSuites
           names  == SplitComma(suites)
           unknown == \E i \in DOMAIN names : names[i] \notin DOMAIN CipherIDs
           okResult ==
             TLSResult(NoError, VersionOverrides(min.v, max.v),
                       IF ignore THEN {Warning("ciphersIgnored", <<>>)} ELSE {})
           cipherResult ==
             TLSResult(NoError,
                       Append(VersionOverrides(min.v, max.v),
                              Override("CipherSuites", CipherSuiteIDs(names))),
                       InsecureWarnings(names))
<1>1. r = IF ~min.ok \/ ~max.ok THEN Failed(InvalidTLSVersion)
          ELSE IF VersionRangeInverted(min.v, max.v) THEN Failed(TLSRangeInverted)
          ELSE IF suites = <<>> THEN okResult
          ELSE IF unknown THEN Failed(UnknownCipherSuite)
          ELSE cipherResult
  BY DEF GetTLSOptionOverrideFuncs
<1>2. suites = <<>> <=> ~CiphersRequested(o)
  BY DEF IgnoreCipherSuites, CiphersRequested, BothTLS13
<1>3. ignore <=> BothTLS13(o) /\ o.TLSCipherSuites # <<>>
  BY DEF IgnoreCipherSuites, BothTLS13
<1>4. CiphersRequested(o) => names = RequestedNames(o)
  BY <1>2 DEF RequestedNames, CiphersRequested, IgnoreCipherSuites, BothTLS13
<1>5. CiphersRequested(o) => (unknown <=> ~AllNamesKnown(o))
  BY <1>4 DEF AllNamesKnown
<1>6. min.ok /\ max.ok /\ ~VersionRangeInverted(min.v, max.v) <=> ValidVersionRange(o)
  BY GetTLSVersionSpec DEF VersionRangeInverted, ValidVersionRange,
     VersionTLS12, VersionTLS13
<1>7. min.ok /\ max.ok => min.v = lo /\ max.v = hi
  BY GetTLSVersionSpec
<1>8. /\ Failed(InvalidTLSVersion).err # NoError
      /\ Failed(TLSRangeInverted).err # NoError
      /\ Failed(UnknownCipherSuite).err # NoError
      /\ okResult.err = NoError /\ cipherResult.err = NoError
  BY DEF Failed, TLSResult, NoError, InvalidTLSVersion, TLSRangeInverted,
     UnknownCipherSuite
<1>9. r.err = NoError <=>
        ValidVersionRange(o) /\ (CiphersRequested(o) => AllNamesKnown(o))
  BY <1>1, <1>2, <1>5, <1>6, <1>8
<1>10. r.err = NoError /\ ~CiphersRequested(o) =>
         r = TLSResult(NoError, VersionOverrides(lo, hi),
                       IF BothTLS13(o) /\ o.TLSCipherSuites # <<>>
                       THEN {Warning("ciphersIgnored", <<>>)} ELSE {})
  BY <1>1, <1>2, <1>3, <1>6, <1>7, <1>8
<1>11. r.err = NoError /\ CiphersRequested(o) =>
         r = TLSResult(NoError,
                       Append(VersionOverrides(lo, hi),
                              Override("CipherSuites",
                                       CipherSuiteIDs(RequestedNames(o)))),
                       InsecureWarnings(RequestedNames(o)))
  BY <1>1, <1>2, <1>4, <1>5, <1>6, <1>7, <1>8
<1> QED
  BY <1>9, <1>10, <1>11

\* The insecure-cipher warnings, one per index of an insecure name, are the
\* warnings for the insecure names given.
LEMMA InsecureWarningsByName ==
  ASSUME NEW names
  PROVE  InsecureWarnings(names) =
           {Warning("insecureCipher", n) :
              n \in {names[i] : i \in DOMAIN names} \cap InsecureCipherNames}
BY DEF InsecureWarnings

\* Running the two version overrides on the zero tls.Config.
LEMMA AppliedVersions ==
  ASSUME NEW lo, NEW hi
  PROVE  ApplyOverrides(DefaultTLSConfig, VersionOverrides(lo, hi)) =
           [MinVersion |-> lo, MaxVersion |-> hi, CipherSuites |-> <<>>]
<1>1. ApplyOverrides(DefaultTLSConfig, VersionOverrides(lo, hi)) =
        ApplyOverride(ApplyOverride(DefaultTLSConfig, Override("MinVersion", lo)),
                      Override("MaxVersion", hi))
  BY ApplyTwo DEF VersionOverrides
<1> QED
  BY <1>1 DEF ApplyOverride, Override, DefaultTLSConfig

\* Running the two version overrides and the cipher override on the zero
\* tls.Config.
LEMMA AppliedVersionsAndCiphers ==
  ASSUME NEW lo, NEW hi, NEW ids
  PROVE  ApplyOverrides(DefaultTLSConfig,
                        Append(VersionOverrides(lo, hi), Override("CipherSuites", ids))) =
           [MinVersion |-> lo, MaxVersion |-> hi, CipherSuites |-> ids]
<1> DEFINE X == Override("MinVersion", lo)
           Y == Override("MaxVersion", hi)
           Z == Override("CipherSuites", ids)
<1>a. VersionOverrides(lo, hi) = <<X, Y>>
  BY DEF VersionOverrides
<1>b. Append(<<X, Y>>, Z) = <<X, Y, Z>>
  <2>1. Len(Append(<<X, Y>>, Z)) = 3 /\ Len(<<X, Y, Z>>) = 3
    OBVIOUS
  <2>2. \A i \in 1..3 : Append(<<X, Y>>, Z)[i] = <<X, Y, Z>>[i]
    OBVIOUS
  <2>3. Append(<<X, Y>>, Z) \in Seq({X, Y, Z}) /\ <<X, Y, Z>> \in Seq({X, Y, Z})
    OBVIOUS
  <2> QED
    BY <2>1, <2>2, <2>3, SeqEqual
<1>1. Append(VersionOverrides(lo, hi), Override("CipherSuites", ids)) =
        << Override("MinVersion", lo), Override("MaxVersion", hi),
           Override("CipherSuites", ids) >>
  BY <1>a, <1>b
<1>c. ApplyOverrides(DefaultTLSConfig, <<X, Y, Z>>) =
        ApplyOverride(ApplyOverride(ApplyOverride(DefaultTLSConfig, X), Y), Z)
  BY ApplyThree
<1>2. ApplyOverrides(DefaultTLSConfig,
                     Append(VersionOverrides(lo, hi), Override("CipherSuites", ids))) =
        ApplyOverride(ApplyOverride(ApplyOverride(DefaultTLSConfig,
                                                  Override("MinVersion", lo)),
                                    Override("MaxVersion", hi)),
                      Override("CipherSuites", ids))
  BY <1>1, <1>c
<1> QED
  BY <1>2 DEF ApplyOverride, Override, DefaultTLSConfig

-----------------------------------------------------------------------------
(* The inductive invariant: the flags keep a value they can hold, a built  *)
(* result is what the builder returns for them, and a started server's     *)
(* tls.Config is the result of running that successful result's overrides. *)
TLSInv ==
  /\ tlsOptions \in TLSFlagValues
  /\ Built => tlsOptionOverrides = GetTLSOptionOverrideFuncs(tlsOptions)
  /\ webhookTLSConfig # NoConfig =>
       /\ Succeeded
       /\ webhookTLSConfig =
            ApplyOverrides(DefaultTLSConfig, tlsOptionOverrides.overrides)

\* Before the build nothing is built and the server has not started.
LEMMA InitTLSInv == Init => TLSInv
BY DEF Init, TLSInv, Built, Succeeded

\* The build records the builder's result for the unchanged flags, and the
\* server starts only on a successful result, with its overrides applied.
LEMMA NextTLSInv == TLSInv /\ [Next]_vars => TLSInv'
<1> SUFFICES ASSUME TLSInv, [Next]_vars PROVE TLSInv'
  OBVIOUS
<1>1. CASE BuildTLSOverrides
  <2>1. webhookTLSConfig = NoConfig
    BY <1>1 DEF TLSInv, BuildTLSOverrides, Succeeded, Built
  <2> QED
    BY <1>1, <2>1 DEF TLSInv, BuildTLSOverrides, Built
<1>2. CASE StartWebhookServer
  BY <1>2 DEF TLSInv, StartWebhookServer, Built, Succeeded
<1>3. CASE UNCHANGED vars
  BY <1>3 DEF TLSInv, vars, Built, Succeeded
<1> QED
  BY <1>1, <1>2, <1>3 DEF Next

(* For every value of the constants, main's builder succeeds exactly when  *)
(* both version labels are known, the minimum does not exceed the maximum  *)
(* and every name of a cipher list that is used is known                   *)
(* (GetTLSOptionOverrideFuncs and its early returns).                      *)
THEOREM BuildSucceedsIffThm == Spec => []BuildSucceedsIff
<1>1. TLSInv => BuildSucceedsIff
  BY BuildOutcome DEF TLSInv, BuildSucceedsIff, Succeeded
<1> QED
  BY <1>1, InitTLSInv, NextTLSInv, PTL DEF Spec

(* For every value of the constants, a successful build logs the "ciphers  *)
(* ignored" warning exactly when both bounds are TLS13 and a list was      *)
(* given, and one "insecure cipher" warning per insecure name of a list    *)
(* that is used (GetTLSOptionOverrideFuncs' logging).                      *)
THEOREM CipherWarningsFaithfulThm == Spec => []CipherWarningsFaithful
<1>1. TLSInv => CipherWarningsFaithful
  <2> SUFFICES ASSUME TLSInv, Succeeded
               PROVE  CipherWarningsFaithful
    BY DEF CipherWarningsFaithful
  <2> DEFINE o == tlsOptions
             r == GetTLSOptionOverrideFuncs(o)
  <2>1. tlsOptionOverrides = r /\ r.err = NoError
    BY DEF TLSInv, Succeeded, Built
  <2>2. CASE ~CiphersRequested(o)
    BY <2>1, <2>2, BuildOutcome DEF CipherWarningsFaithful, TLSResult
  <2>3. CASE CiphersRequested(o)
    <3>1. ~(BothTLS13(o) /\ o.TLSCipherSuites # <<>>)
      BY <2>3 DEF CiphersRequested
    <3>2. r.warnings = InsecureWarnings(RequestedNames(o))
      BY <2>1, <2>3, BuildOutcome DEF TLSResult
    <3> QED
      BY <2>1, <2>3, <3>1, <3>2, InsecureWarningsByName DEF CipherWarningsFaithful
  <2> QED
    BY <2>2, <2>3
<1> QED
  BY <1>1, InitTLSInv, NextTLSInv, PTL DEF Spec

(* For every value of the constants, the tls.Config the webhook server     *)
(* ends up with after running the overrides in order has exactly the       *)
(* versions of the flags and the ids of the cipher names given, or no      *)
(* cipher list when none applies (the override closures and their loop).   *)
THEOREM AppliedConfigHonoursFlagsThm == Spec => []AppliedConfigHonoursFlags
<1>1. TLSInv => AppliedConfigHonoursFlags
  <2> SUFFICES ASSUME TLSInv, webhookTLSConfig # NoConfig
               PROVE  AppliedConfigHonoursFlags
    BY DEF AppliedConfigHonoursFlags
  <2> DEFINE o  == tlsOptions
             r  == GetTLSOptionOverrideFuncs(o)
             lo == SpecVersion[o.TLSMinVersion]
             hi == SpecVersion[o.TLSMaxVersion]
  <2>1. tlsOptionOverrides = r /\ r.err = NoError
        /\ webhookTLSConfig = ApplyOverrides(DefaultTLSConfig, r.overrides)
    BY DEF TLSInv, Succeeded, Built
  <2>2. CASE ~CiphersRequested(o)
    <3>1. r.overrides = VersionOverrides(lo, hi)
      BY <2>1, <2>2, BuildOutcome DEF TLSResult
    <3> QED
      BY <2>1, <2>2, <3>1, AppliedVersions DEF AppliedConfigHonoursFlags
  <2>3. CASE CiphersRequested(o)
    <3>1. r.overrides = Append(VersionOverrides(lo, hi),
                               Override("CipherSuites",
                                        CipherSuiteIDs(RequestedNames(o))))
      BY <2>1, <2>3, BuildOutcome DEF TLSResult
    <3> QED
      BY <2>1, <2>3, <3>1, AppliedVersionsAndCiphers
      DEF AppliedConfigHonoursFlags, CipherSuiteIDs
  <2> QED
    BY <2>2, <2>3
<1> QED
  BY <1>1, InitTLSInv, NextTLSInv, PTL DEF Spec
=============================================================================
