---------------------------- MODULE MCBruteforce ----------------------------
(* Instances of Bruteforce for TLC. *)
EXTENDS Bruteforce, TLC

CONSTANTS ip1, ip2, u1, u2, r1, r2

Body(a, w, b, m) == [MaxAttempts |-> a, WindowMinutes |-> w,
                     BackoffBase |-> b, BackoffMaxMinutes |-> m]

SmallCfg == Body(2, 1, 1, 2)

\* The panel's own request (snake_case keys, all decoded to zero) and a wider
\* window.
HarmlessUpdates == {Body(0, 0, 0, 0), Body(0, 2, 0, 0)}

\* Changes of threshold, base and cap while trackers exist.
AnyUpdates == {Body(1, 0, 0, 1), Body(3, 0, 2, 4)}

RequestSymmetry == Permutations({r1, r2})
=============================================================================
