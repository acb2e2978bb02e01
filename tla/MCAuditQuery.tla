---------------------------- MODULE MCAuditQuery ----------------------------
(* Instances of AuditQuery for TLC. *)
EXTENDS AuditQuery

At(sec, frac) == [sec |-> sec, frac |-> frac]

\* A fraction of one second, the next second itself, and a fraction of that.
FewInstants == {At(1, <<5>>), At(2, <<>>), At(2, <<1>>)}

\* UTC and one second east of it.
FewOffsets == {0, 1}

\* "ann" occurs in "joanna".
Names == {<<"ann", "ann">>, <<"ann", "joanna">>, <<"joanna", "joanna">>}
Ann   == {<<"ann", "ann">>}

\* Everything, or one action.
TwoFilters == {[user |-> "all", action |-> "all"],
               [user |-> "all", action |-> "login_success"]}
OneFilter  == {[user |-> "all", action |-> "all"]}
=============================================================================
