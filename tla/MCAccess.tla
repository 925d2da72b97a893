------------------------------ MODULE MCAccess ------------------------------
(* Instances of Access for TLC.                                            *)
EXTENDS Access, TLC

CONSTANTS e1, k1, s1, s2

TwoAccounts == {1, 2}
OneAddress == {e1}
OneNonce == {k1}
TwoSessions == {s1, s2}

NobodySuspended == {}
AllFaults == {"redis", "killed"}
DeletionsWired == {"deletions"}

(* Bound: an address is hashed twice at most.                              *)
HashedTwice == \A a \in Account : Exists(a) => account[a].email.hashes <= 2

(* Bound: a state with more than one entry on the blacklists is not        *)
(* followed any further.                                                   *)
FewEntries ==
  Cardinality(blacklist) + Cardinality(UNION {memory[s] : s \in Session}) <= 1

Symmetric == Permutations(Session)
=============================================================================
