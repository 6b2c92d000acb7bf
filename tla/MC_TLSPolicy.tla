---------------------------- MODULE MC_TLSPolicy ----------------------------
(* TLSPolicy over every flag combination of a small alphabet: four version *)
(* labels (the two accepted ones, an old one and the empty string) and     *)
(* every --tls-cipher-suites string of at most three characters over       *)
(* {a, b, ","}, where "a" is a secure and "b" an insecure registered name. *)
EXTENDS TLSPolicy

MCComma == ","
MCCipherIDs == (<<"a">> :> 49199) @@ (<<"b">> :> 5)
MCInsecureCipherNames == {<<"b">>}
MCLabels == {"TLS12", "TLS13", "TLS11", ""}
MCTLSFlagValues ==
  [TLSMinVersion : MCLabels, TLSMaxVersion : MCLabels,
   TLSCipherSuites : SeqOf({"a", "b", ","}, 3)]
=============================================================================
