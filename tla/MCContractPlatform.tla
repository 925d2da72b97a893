------------------------- MODULE MCContractPlatform -------------------------
(* Instances of ContractPlatform for TLC.                                  *)
EXTENDS ContractPlatform, TLC

CONSTANTS c1, c2, c3, s1, s2, s3, d1, d2, d3

(* Everything the services offer is called: by tests, or by a future       *)
(* scheduler and administrator.                                            *)
AllWired == {"auto_complete", "object", "auto_resolve", "resolve"}

OneContract == {c1}
TwoContracts == {c1, c2}
ThreeContracts == {c1, c2, c3}
OneSession == {s1}
TwoSessions == {s1, s2}
OneDispute == {d1}
ThreeDisputes == {d1, d2, d3}

StatusWired == {"auto_complete", "resolve"}
DisputesWired == {"object", "auto_resolve", "resolve"}

(* Bound of the runs where no sweep is called: only AutoComplete reads the *)
(* age of confirmations and of classes, so those clocks may stand still. *)
ClocksStill == \A c \in Contract : ~over[c] /\ aged[c] = {}

(* Bound: without messages, no report of a no-show and no rejection fails. *)
NoChat == \A c \in Contract : ~chatted[c]

(* Where deciding disputes starts: the studio has reported a no-show of    *)
(* the instructor on each contract, which cancelled it.                    *)
ReportedContract == (d1 :> c1) @@ (d2 :> c2) @@ (d3 :> c3)

ReportedInit ==
  /\ row = [c \in Contract |->
       [status |-> "CANCELLED", signed |-> {}, hashed |-> FALSE,
        confirmed |-> {}, reason |-> TRUE, logged |-> "CANCELLED"]]
  /\ disputes = [d \in Dispute |->
       NewDispute(ReportedContract[d], "no_show", "studio")]
  /\ users = [u \in Party |->
       [noShows |-> 0, suspended |-> FALSE, active |-> TRUE]]
  /\ chatted = [c \in Contract |-> FALSE]
  /\ over = [c \in Contract |-> FALSE]
  /\ aged = [c \in Contract |-> {}]
  /\ session = [s \in Session |-> Idle]

ReportedSpec == ReportedInit /\ [][Next]_vars

Symmetric == Permutations(Session) \cup Permutations(Dispute)
               \cup Permutations(Contract)
=============================================================================
