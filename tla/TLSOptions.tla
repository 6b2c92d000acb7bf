----------------------------- MODULE TLSOptions -----------------------------
(***************************************************************************)
(* The webhook transport-security policy of main.go.                        *)
(*                                                                         *)
(* GetTLSVersion and GetTLSOptionOverrideFuncs turn the three TLS flags    *)
(* into an ordered list of overrides of a tls.Config; the webhook server   *)
(* of the manager applies them, in order, to the configuration it builds   *)
(* when it starts.  An override (a Go closure) is represented by the field *)
(* of tls.Config it sets and the value it sets it to.                      *)
(*                                                                         *)
(* The --tls-cipher-suites flag is kept as a string: a sequence of         *)
(* characters over a small alphabet that contains the separator Comma, so  *)
(* that strings.Split is modelled by what it does (empty fields, trailing  *)
(* separators).  A cipher name is such a sequence without Comma.           *)
(***************************************************************************)
EXTENDS Naturals, Sequences, SequencesExt

CONSTANTS
  Comma,                \* the character ","
  CipherIDs,            \* cliflag's registry: cipher name -> uint16 cipher id
  InsecureCipherNames   \* cliflag.InsecureTLSCipherNames()

ASSUME TLSOptionsAssumption ==
  /\ InsecureCipherNames \subseteq DOMAIN CipherIDs
  /\ \A n \in DOMAIN CipherIDs : \A i \in DOMAIN n : n[i] # Comma
  /\ <<>> \notin DOMAIN CipherIDs

\* The two accepted flag labels (type TLSVersion) and the tls package ids.
TLSVersion12 == "TLS12"
TLSVersion13 == "TLS13"
tlsSupportedVersions == {TLSVersion12, TLSVersion13}
VersionTLS12 == 771   \* tls.VersionTLS12 = 0x0303
VersionTLS13 == 772   \* tls.VersionTLS13 = 0x0304

\* Errors returned by the builder and warnings it logs.
NoError            == "none"
InvalidTLSVersion  == "InvalidTLSVersion"
TLSRangeInverted   == "TLSRangeInverted"
UnknownCipherSuite == "UnknownCipherSuite"
Warning(kind, cipher) == [kind |-> kind, cipher |-> cipher]

-----------------------------------------------------------------------------
\* GetTLSVersion: the tls id of a version label, or an error and 0.
GetTLSVersion(version) ==
  CASE version = TLSVersion12 -> [ok |-> TRUE,  v |-> VersionTLS12]
    [] version = TLSVersion13 -> [ok |-> TRUE,  v |-> VersionTLS13]
    [] OTHER                  -> [ok |-> FALSE, v |-> 0]

\* Mutant: empty fields are dropped, as strings.FieldsFunc would do.
SplitCommaSkipEmpty(s) ==
  LET cuts == SelectSeq([i \in 1..Len(s) + 2 |-> i - 1],
                        LAMBDA p : p = 0 \/ p = Len(s) + 1 \/ s[p] = Comma)
  IN  SelectSeq([k \in 1..Len(cuts) - 1 |-> SubSeq(s, cuts[k] + 1, cuts[k + 1] - 1)],
                LAMBDA f : f # <<>>)

\* strings.Split(s, ","): the fields between consecutive separators.
SplitComma(s) ==
  LET cuts == SelectSeq([i \in 1..Len(s) + 2 |-> i - 1],
                        LAMBDA p : p = 0 \/ p = Len(s) + 1 \/ s[p] = Comma)
  IN  [k \in 1..Len(cuts) - 1 |-> SubSeq(s, cuts[k] + 1, cuts[k + 1] - 1)]

\* A closure func(cfg *tls.Config) { cfg.<field> = value }.
Override(field, value) == [field |-> field, value |-> value]

TLSResult(err, overrides, warnings) ==
  [err |-> err, overrides |-> overrides, warnings |-> warnings]

Failed(err) == TLSResult(err, <<>>, {})

\* Mutant: the range check rejects equal bounds.
VersionRangeInvertedGE(min, max) == max # 0 /\ min >= max

\* The range check: a max of 0 would mean "no upper bound".
VersionRangeInverted(min, max) == max # 0 /\ min > max

\* Mutant: the list is dropped when either bound is TLS13.
IgnoreCipherSuitesEither(options) ==
  /\ \/ options.TLSMinVersion = TLSVersion13
     \/ options.TLSMaxVersion = TLSVersion13
  /\ options.TLSCipherSuites # <<>>

\* Both bounds TLS13 and a cipher list given: the list is ignored.
IgnoreCipherSuites(options) ==
  /\ options.TLSMinVersion = TLSVersion13
  /\ options.TLSMaxVersion = TLSVersion13
  /\ options.TLSCipherSuites # <<>>

\* Mutant: the second closure sets MaxVersion to the minimum.
VersionOverridesMinTwice(min, max) ==
  << Override("MinVersion", min), Override("MaxVersion", min) >>

\* The first two overrides, setting cfg.MinVersion and cfg.MaxVersion.
VersionOverrides(min, max) ==
  << Override("MinVersion", min), Override("MaxVersion", max) >>

\* cliflag.TLSCipherSuites on names that are all in the registry.
CipherSuiteIDs(names) == [i \in DOMAIN names |-> CipherIDs[names[i]]]

\* The "use of insecure cipher" warnings, one per insecure name given.
InsecureWarnings(names) ==
  {Warning("insecureCipher", names[i]) :
     i \in {j \in DOMAIN names : names[j] \in InsecureCipherNames}}

\* GetTLSOptionOverrideFuncs: the overrides for the webhook server, or an
\* error.  The checks happen in the order of the code's early returns, so
\* the first one that fails decides the error (an IF chain: the guards
\* overlap, and a CASE would leave the choice between them open).
GetTLSOptionOverrideFuncs(options) ==
  LET min    == GetTLSVersion(options.TLSMinVersion)
      max    == GetTLSVersion(options.TLSMaxVersion)
      ignore == IgnoreCipherSuites(options)
      suites == IF ignore THEN <<>> ELSE options.TLSCipherSuites
      names  == SplitComma(suites)
  IN  IF ~min.ok \/ ~max.ok THEN Failed(InvalidTLSVersion)
      ELSE IF VersionRangeInverted(min.v, max.v) THEN Failed(TLSRangeInverted)
      ELSE IF suites = <<>>
           THEN TLSResult(NoError, VersionOverrides(min.v, max.v),
                          IF ignore THEN {Warning("ciphersIgnored", <<>>)} ELSE {})
      ELSE IF \E i \in DOMAIN names : names[i] \notin DOMAIN CipherIDs
           THEN Failed(UnknownCipherSuite)
      ELSE TLSResult(NoError,
                     Append(VersionOverrides(min.v, max.v),
                            Override("CipherSuites", CipherSuiteIDs(names))),
                     InsecureWarnings(names))

-----------------------------------------------------------------------------
\* The webhook server's tls.Config before the overrides (zero values) and
\* the loop `for _, op := range TLSOpts { op(cfg) }` that applies them.
DefaultTLSConfig == [MinVersion |-> 0, MaxVersion |-> 0, CipherSuites |-> <<>>]

ApplyOverride(cfg, o) == [cfg EXCEPT ![o.field] = o.value]

ApplyOverrides(cfg, overrides) == FoldLeft(ApplyOverride, cfg, overrides)
=============================================================================
