-------------------------- MODULE AccountLifecycle --------------------------
(***************************************************************************)
(* The pure lifecycle policy of an account (src/core/account_lifecycle.py, *)
(* src/core/token_states.py) and the rule by which one verified            *)
(* observation of the account moves its row in and out of the business     *)
(* pool (_resolve_pool_state of the lifecycle repository).                 *)
(*                                                                         *)
(* The membership status is debounced: it flips only after two consecutive *)
(* known observations of the class opposing it.  The pool rule decides     *)
(* what such a flip does to a row, which several owners may have disabled. *)
(***************************************************************************)
EXTENDS Naturals

NoBan == "none"

AuthReasons == {"ST_REVOKED", "GRANT_EXPIRED"}

\* Disable reasons that belong to an operator or to the business counters.
ProtectedReasons ==
    {"manual_disabled", "429_rate_limit", "consecutive_errors", "onboarding_pending"}

BanReasons == AuthReasons \cup ProtectedReasons \cup {"membership_expired"}

(***************************************************************************)
(* Paygate tiers as Google reports them; "missing" stands for an absent or *)
(* unrecognised value.                                                     *)
(***************************************************************************)
Tiers == {"NOT_PAID", "TIER_ONE", "TIER_TWO", "missing"}

Classes == {"free", "paid"}

ClassifyTier(tier) ==
    CASE tier = "NOT_PAID" -> "free"
      [] tier \in {"TIER_ONE", "TIER_TWO"} -> "paid"
      [] OTHER -> "unknown"

RequiredConsecutiveObservations == 2

\* The class that argues against a confirmed status.
OpposingClass(status) == IF status = "active" THEN "free" ELSE "paid"

StatusOf(class) == IF class = "free" THEN "retired" ELSE "active"

Fresh(status) == [status |-> status, candidate |-> "unknown", count |-> 0]

(***************************************************************************)
(* The states the constructor of AccountLifecycleState accepts: it raises  *)
(* ValueError on any other combination of the three fields.                *)
(***************************************************************************)
MembershipStates ==
    {m \in [status : {"active", "retired"},
            candidate : Classes \cup {"unknown"},
            count : 0..1] :
        IF m.candidate = "unknown"
        THEN m.count = 0
        ELSE m.count = 1 /\ m.candidate = OpposingClass(m.status)}

\* Mutation: an observation of the confirmed class leaves the candidate pending.
TransitionForgetsReset(m, observation) ==
    CASE observation # OpposingClass(m.status) -> m
      [] observation = OpposingClass(m.status) /\ m.count + 1 < RequiredConsecutiveObservations ->
            [status |-> m.status, candidate |-> observation, count |-> m.count + 1]
      [] OTHER -> Fresh(StatusOf(observation))

\* Mutation: one observation too many is awaited.
TransitionOffByOne(m, observation) ==
    CASE observation = "unknown" -> m
      [] observation # "unknown" /\ observation # OpposingClass(m.status) -> Fresh(m.status)
      [] observation = OpposingClass(m.status) /\ m.count < RequiredConsecutiveObservations ->
            [status |-> m.status, candidate |-> observation, count |-> m.count + 1]
      [] OTHER -> Fresh(StatusOf(observation))

TransitionLifecycle(m, observation) ==
    LET seen == IF m.candidate = observation THEN m.count + 1 ELSE 1
    IN CASE observation = "unknown" -> m
         [] observation # "unknown" /\ observation # OpposingClass(m.status) ->
                Fresh(m.status)
         [] observation = OpposingClass(m.status)
              /\ seen < RequiredConsecutiveObservations ->
                [status |-> m.status, candidate |-> observation, count |-> seen]
         [] OTHER -> Fresh(StatusOf(observation))

(***************************************************************************)
(* What one verified observation does to the business row.  `before` and   *)
(* `after` are the membership states around the observation.               *)
(***************************************************************************)
AuthRecovered(r, allow) ==
    IF allow /\ r.ban \in AuthReasons
    THEN [r EXCEPT !.active = TRUE, !.ban = NoBan, !.bannedAt = "never"]
    ELSE r

\* Mutation: the flip back to active does not restore the row.
ResolveWithoutRestore(row, before, after, allow) ==
    LET r == AuthRecovered(row, allow)
    IN IF before.status = "active" /\ after.status = "retired" /\ r.active /\ r.ban = NoBan
       THEN [r EXCEPT !.active = FALSE, !.ban = "membership_expired", !.bannedAt = "recent"]
       ELSE r

ResolvePoolState(row, before, after, allow) ==
    LET r == AuthRecovered(row, allow)
    IN CASE before.status = "active" /\ after.status = "retired"
              /\ r.active /\ r.ban = NoBan ->
                [r EXCEPT !.active = FALSE, !.ban = "membership_expired",
                          !.bannedAt = "recent"]
         [] before.status = "retired" /\ after.status = "active"
              /\ ~r.active /\ r.ban = "membership_expired" ->
                [r EXCEPT !.active = TRUE, !.ban = NoBan, !.bannedAt = "never"]
         [] OTHER -> r

=============================================================================
