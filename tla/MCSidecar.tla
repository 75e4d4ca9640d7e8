----------------------------- MODULE MCSidecar -----------------------------
(***************************************************************************)
(* Instances of Sidecar for TLC: small casts of actors, so that each kind  *)
(* of interplay is explored in full and their product is not.              *)
(***************************************************************************)
EXTENDS Sidecar

Target(mode, ready, proxy) == [mode |-> mode, ready |-> ready, proxy |-> proxy]
Resident == Target("persistent", TRUE, "p")
Moved == Target("persistent", TRUE, "q")
Unprovisioned == Target("persistent", FALSE, "p")
Warm == Target("warm", TRUE, "p")

Scene(targets, kept, gated, relogged, n) ==
    [targets |-> [a \in Accounts |-> IF a = 1 THEN targets ELSE {Resident}],
     kept |-> kept, gated |-> gated, relogged |-> relogged, faults |-> n]

\* One account, and everybody at it.
Crowd == Scene({Resident}, {1}, {1}, {1}, 1)
\* The daemon against a re-login, with two faults.
Relogin == Scene({Resident}, {1}, {}, {1}, 2)
\* Two accounts in one loop.
Pair == Scene({Resident}, {1, 2}, {}, {}, 1)
\* Rows of every kind, and a proxy that changes.
Moves == Scene({Resident, Moved, Unprovisioned, Warm}, {1}, {}, {}, 1)

AllScenes == {Crowd, Relogin, Pair, Moves}
SlowDisk == {Scene({Resident}, {1}, {}, {}, 1)}
=============================================================================
