--------------------------- MODULE MCCaptchaPool ---------------------------
(***************************************************************************)
(* Instances of CaptchaPool for TLC: small pools and casts.                *)
(***************************************************************************)
EXTENDS CaptchaPool

CONSTANTS c1, c2

Scene(max, min, ops, k, events, n) ==
    [max |-> max, min |-> min, ops |-> ops, calls |-> k, events |-> events, upsets |-> n]

\* Requests that outlive the browser, with what it costs them to notice.
Deaths ==
    {Scene(1, 0, {"token"}, 2, {"crash"}, 1), Scene(2, 0, {"token"}, 2, {"crash"}, 1),
     Scene(1, 0, {"submit", "session"}, 2, {"crash", "age"}, 1)}

\* Slots removed under the requests that hold them.
Removals ==
    {Scene(2, 1, {"token"}, 3, {"reap"}, 2), Scene(2, 0, {"token", "submit"}, 2, {"stop"}, 1),
     Scene(1, 0, {"token"}, 2, {"stop", "cancel"}, 2)}

\* What the upstream thinks of the tokens.
Verdicts == {Scene(1, 0, {"token", "error", "success"}, 5, {"forget"}, 1)}

AllScenes == Deaths \cup Removals \cup Verdicts

=============================================================================
