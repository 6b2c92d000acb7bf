---------------------------- MODULE MC_Bootstrap ----------------------------
(* Bootstrap with the default concurrency flags and three TLS flag values: *)
(* the defaults, TLS13-only with a cipher list, and an inverted range.     *)
EXTENDS Bootstrap

MCComma == ","
MCCipherIDs == (<<"a">> :> 49199) @@ (<<"b">> :> 5)
MCInsecureCipherNames == {<<"b">>}
MCTLSFlagValues ==
  { [TLSMinVersion |-> "TLS12", TLSMaxVersion |-> "TLS13", TLSCipherSuites |-> <<>>],
    [TLSMinVersion |-> "TLS13", TLSMaxVersion |-> "TLS13", TLSCipherSuites |-> <<"a">>],
    [TLSMinVersion |-> "TLS13", TLSMaxVersion |-> "TLS12", TLSCipherSuites |-> <<>>] }
\* initFlags defaults: metal3machine 1, every other kind 10.
MCConcurrencyFlags ==
  [k \in ReconcilerKinds |-> IF k = "Metal3Machine" THEN 1 ELSE 10]
=============================================================================
