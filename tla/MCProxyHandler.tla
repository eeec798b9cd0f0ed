--------------------------- MODULE MCProxyHandler ---------------------------
(* Instances of ProxyHandler for TLC. *)
EXTENDS ProxyHandler, TLC

RequestSymmetry == Permutations(Request)

OneHost == [k \in Key |-> CHOOSE d \in Domain : TRUE]

\* Every domain is the host of some key; one of them, of one key only, is
\* blacklisted.
ManyHosts == CHOOSE f \in [Key -> Domain] : \A d \in Domain : \E k \in Key : f[k] = d
OneBlacklisted ==
    {CHOOSE d \in Domain : Cardinality({k \in Key : ManyHosts[k] = d}) = 1}

\* Requests without ?debug and ?fallback.
OrdinaryAsks == [key: Key, debug: {FALSE}, fallback: {FALSE}]
\* Requests of every kind.
AllAsks == [key: Key, debug: BOOLEAN, fallback: BOOLEAN]
\* Requests with and without ?debug.
DebugAsks == [key: Key, debug: BOOLEAN, fallback: {FALSE}]
=============================================================================
