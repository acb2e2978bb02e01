----------------------------- MODULE MCAccounts -----------------------------
(* Instances of Accounts for TLC. *)
EXTENDS Accounts, TLC

CONSTANTS l1, l2, a1, a2, t1, t2

RequestSymmetry == Permutations({a1, a2}) \cup Permutations({t1, t2})
                     \cup Permutations({l1, l2})

Root == [n \in {"root"} |-> "admin"]
RootAndAlice == [n \in {"root", "alice"} |-> "admin"]

NoLDAP == {[enabled |-> FALSE, defaultGroups |-> {"users"}]}
NoIMAP == {[enabled |-> FALSE, defaultGroups |-> {"users"},
            autoProvision |-> FALSE, allowed |-> {}]}

SomeLDAP == {[enabled |-> TRUE, defaultGroups |-> {"users"}]}

\* autoProvision is switched on and off.
SomeIMAP == {[enabled |-> TRUE, defaultGroups |-> {"users"},
              autoProvision |-> b, allowed |-> {"alice"}] : b \in BOOLEAN}
=============================================================================
