------------------------------ MODULE TokenPool ------------------------------
(***************************************************************************)
(* The account rows of data/flow.db and everything that writes them: the   *)
(* coroutines of the API service (TokenManager behind the admin API and    *)
(* the generation handler), its hourly auto-unban task, the keepalive      *)
(* sidecar and the account CLI.  Each write below is one SQLite            *)
(* transaction, hence one step; a coroutine may be overtaken by any other  *)
(* writer between two of its transactions, which is where the hazards are. *)
(*                                                                         *)
(* `op[p]` is what process p is in the middle of.  Processes of Service    *)
(* are coroutines of the API service and die together with it; those of    *)
(* Tools are the CLI's.  Operations that keep no local state between an    *)
(* external answer and the single write it leads to (the sidecar, `tokens  *)
(* reauth`, the admin update, the import and the browser plugin) are one   *)
(* action: Observe.                                                        *)
(***************************************************************************)
EXTENDS AccountLifecycle

CONSTANTS
    Tokens,              \* account ids
    Service,             \* coroutines of the API service
    Tools,               \* processes of the account CLI
    ErrorBanThreshold,   \* admin_config.error_ban_threshold
    StBrowserRefresh,    \* config.st_browser_refresh_enabled
    Operations,          \* the operations of this deployment (a subset of AllOperations)
    MaxErrors,           \* bound on the consecutive error counter
    MaxCrashes           \* bound on restarts of the API service

AllOperations ==
    {"enable", "disable", "record_error", "record_success", "refresh", "sweep",
     "observe", "publish", "unban", "ban_429", "delete", "import", "at_expiry"}

ASSUME TokensAssumption == Tokens # {}
ASSUME ProcessesAssumption == Service \cap Tools = {}
ASSUME ThresholdAssumption == ErrorBanThreshold \in Nat \ {0}
ASSUME ConfigAssumption ==
    /\ StBrowserRefresh \in BOOLEAN
    /\ Operations \subseteq AllOperations
ASSUME BoundsAssumption == MaxErrors \in Nat /\ MaxCrashes \in Nat

Procs == Service \cup Tools

VARIABLES
    life,      \* account -> "unborn" | "live" | "deleted": whether the row exists
    row,       \* account -> is_active, ban_reason, banned_at, consecutive_error_count,
               \* and fresh: at_expires is NULL or still in the future
    member,    \* account -> the debounced membership state of token_lifecycle
    heard,     \* history: the last two known observations applied to the account
    op,        \* process -> the operation it is executing
    unban,     \* the auto-unban task: pc, tokens left of its snapshot, current token
    crashes    \* restarts of the API service so far

vars == <<life, row, member, heard, op, unban, crashes>>

Ages == {"never", "recent", "old"}  \* banned_at: NULL, less than 12 hours ago, older

Rows == [active : BOOLEAN, ban : BanReasons \cup {NoBan}, bannedAt : Ages,
         errors : 0..MaxErrors, fresh : BOOLEAN]

RefreshPcs == {"inspect", "retry", "inspect_again", "handle", "alert"}

Pcs == {"idle", "enable_clear", "enable_reset", "error_read", "error_disable",
        "publish"} \cup RefreshPcs

Idle == [pc |-> "idle", tok |-> CHOOSE t \in Tokens : TRUE,
         wasRevoked |-> FALSE, locked |-> FALSE]

Ops == [pc : Pcs, tok : Tokens, wasRevoked : BOOLEAN, locked : BOOLEAN]

NoScan == [pc |-> "sleep", todo |-> {}]

Scans == [pc : {"sleep", "scan", "activate", "clear", "reset"}, todo : SUBSET Tokens]

Histories == [older : Classes \cup {"nothing"}, newer : Classes \cup {"nothing"}]

Silence == [older |-> "nothing", newer |-> "nothing"]

NewRow(reason) ==
    [active |-> reason = NoBan, ban |-> reason,
     bannedAt |-> IF reason \in {NoBan, "onboarding_pending"} THEN "never" ELSE "recent",
     errors |-> 0, fresh |-> TRUE]

(***************************************************************************)
(* Statements.  An UPDATE of a deleted row changes nothing.                *)
(***************************************************************************)
Update(t, newRow) ==
    row' = IF life[t] = "live" THEN [row EXCEPT ![t] = newRow] ELSE row

Activate(t) == Update(t, [row[t] EXCEPT !.active = TRUE])

\* Mutation: the reason is cleared through update_token, which skips None values.
ClearBanSkipsNone(t) == Update(t, row[t])

ClearBan(t) == Update(t, [row[t] EXCEPT !.ban = NoBan, !.bannedAt = "never"])

ResetErrors(t) == Update(t, [row[t] EXCEPT !.errors = 0])

Disable(t, reason) ==
    Update(t, [row[t] EXCEPT !.active = FALSE, !.ban = reason, !.bannedAt = "recent"])

\* update_token(token_id, ban_reason=...): is_active and banned_at stay as they are.
MarkBan(t, reason) == Update(t, [row[t] EXCEPT !.ban = reason])

(***************************************************************************)
(* apply_verified_snapshot: one transaction that reads the row, debounces  *)
(* the tier and writes both tables.  It stores the access token that was   *)
(* just verified with its expiry, whether or not the account is active; an *)
(* answer without an expiry leaves the stored one (COALESCE).              *)
(***************************************************************************)
Hear(h, class) ==
    IF class = "unknown" THEN h ELSE [older |-> h.newer, newer |-> class]

LastHeard(t) == heard[t].newer

ApplySnapshot(t, tier, allow) ==
    LET class == ClassifyTier(tier)
        after == TransitionLifecycle(member[t], class)
    IN /\ \E fresh \in {row[t].fresh, TRUE} :
             row' = [row EXCEPT ![t] = [ResolvePoolState(@, member[t], after, allow)
                                          EXCEPT !.fresh = fresh]]
       /\ member' = [member EXCEPT ![t] = after]
       /\ heard' = [heard EXCEPT ![t] = Hear(@, class)]

-----------------------------------------------------------------------------
Busy(p, pc) == op[p].pc = pc

Goto(p, pc) == op' = [op EXCEPT ![p].pc = pc]

Done(p) == op' = [op EXCEPT ![p] = Idle]

Start(p, t, pc) ==
    /\ op[p] = Idle
    /\ op' = [op EXCEPT ![p] = [Idle EXCEPT !.pc = pc, !.tok = t]]

\* Read-only answers and local decisions write no row.
NoWrite == UNCHANGED <<row, member, heard>>

RowOnly == UNCHANGED <<member, heard>>

ElsewhereSame == UNCHANGED <<life, unban, crashes>>

(***************************************************************************)
(* Accounts enter the pool: added by the admin API or the plugin (active)  *)
(* or, where accounts are imported and onboarded, imported as inactive or  *)
(* inserted by `tokens onboard` as a placeholder.                          *)
(***************************************************************************)
InsertReasons ==
    {NoBan} \cup (IF "import" \in Operations
                  THEN {"manual_disabled", "onboarding_pending"} ELSE {})

AddToken(t) ==
    /\ life[t] = "unborn"
    /\ \E reason \in InsertReasons : row' = [row EXCEPT ![t] = NewRow(reason)]
    /\ life' = [life EXCEPT ![t] = "live"]
    /\ RowOnly /\ UNCHANGED <<op, unban, crashes>>

(***************************************************************************)
(* delete_token: the row goes (`row` and `member` return to their values   *)
(* before the insert) and the running refresh of the account is cancelled; *)
(* other operations on it find no row.                                     *)
(***************************************************************************)
DeleteToken(t) ==
    /\ "delete" \in Operations
    /\ life[t] = "live"
    /\ life' = [life EXCEPT ![t] = "deleted"]
    /\ op' = [p \in Procs |->
                IF op[p].pc \in RefreshPcs /\ op[p].locked /\ op[p].tok = t
                THEN Idle ELSE op[p]]
    /\ row' = [row EXCEPT ![t] = NewRow(NoBan)]
    /\ member' = [member EXCEPT ![t] = Fresh("active")]
    /\ heard' = [heard EXCEPT ![t] = Silence]
    /\ UNCHANGED <<unban, crashes>>

(***************************************************************************)
(* enable_token: three transactions.                                       *)
(***************************************************************************)
EnableStart(p, t) ==
    /\ "enable" \in Operations
    /\ life[t] = "live"
    /\ Start(p, t, "enable_clear")
    /\ Activate(t)
    /\ RowOnly /\ ElsewhereSame

EnableClear(p) ==
    /\ Busy(p, "enable_clear")
    /\ ClearBan(op[p].tok)
    /\ Goto(p, "enable_reset")
    /\ RowOnly /\ ElsewhereSame

EnableReset(p) ==
    /\ Busy(p, "enable_reset")
    /\ ResetErrors(op[p].tok)
    /\ Done(p)
    /\ RowOnly /\ ElsewhereSame

\* disable_token called by an operator: a single transaction.
DisableToken(t) ==
    /\ "disable" \in Operations
    /\ life[t] = "live"
    /\ Disable(t, "manual_disabled")
    /\ RowOnly /\ UNCHANGED op /\ ElsewhereSame

\* ban_token_for_429.  No caller remains in the service: the action stands for the
\* rows that an earlier release left banned.
BanFor429(t) ==
    /\ "ban_429" \in Operations
    /\ life[t] = "live"
    /\ Disable(t, "429_rate_limit")
    /\ RowOnly /\ UNCHANGED op /\ ElsewhereSame

(***************************************************************************)
(* record_error: count the error, read the count back, and disable the     *)
(* account when the count that was read has reached the threshold.         *)
(***************************************************************************)
ErrorCount(p, t) ==
    /\ "record_error" \in Operations
    /\ life[t] = "live"
    /\ row[t].errors < MaxErrors
    /\ Start(p, t, "error_read")
    /\ Update(t, [row[t] EXCEPT !.errors = @ + 1])
    /\ RowOnly /\ ElsewhereSame

ErrorRead(p) ==
    /\ Busy(p, "error_read")
    /\ LET t == op[p].tok
       IN IF life[t] = "live" /\ row[t].errors >= ErrorBanThreshold
          THEN Goto(p, "error_disable")
          ELSE Done(p)
    /\ NoWrite /\ ElsewhereSame

ErrorDisable(p) ==
    /\ Busy(p, "error_disable")
    /\ Disable(op[p].tok, "consecutive_errors")
    /\ Done(p)
    /\ RowOnly /\ ElsewhereSame

\* record_success resets the count (the quota mark is the load balancer's).
RecordSuccess(t) ==
    /\ "record_success" \in Operations
    /\ life[t] = "live"
    /\ ResetErrors(t)
    /\ RowOnly /\ UNCHANGED op /\ ElsewhereSame

-----------------------------------------------------------------------------
(***************************************************************************)
(* Access-token refresh.  _refresh_at coalesces callers and holds the      *)
(* account's lock, so one locked refresh runs per account; the daily       *)
(* keepalive_rotate_st runs without the lock, one account at a time, on    *)
(* accounts that are active when it reads them.  wasRevoked is the         *)
(* was_revoked_before both read first and use last.                        *)
(***************************************************************************)
Refreshing(t) == \E q \in Procs : op[q].locked /\ op[q].tok = t

Sweeping == \E q \in Procs : op[q].pc \in RefreshPcs /\ ~op[q].locked

BeginRefresh(p, t, lock) ==
    /\ op[p] = Idle
    /\ op' = [op EXCEPT ![p] = [Idle EXCEPT !.pc = "inspect", !.tok = t,
                                   !.wasRevoked = row[t].ban = "ST_REVOKED",
                                   !.locked = lock]]
    /\ NoWrite /\ ElsewhereSame

RefreshStart(p, t) ==
    /\ "refresh" \in Operations
    /\ life[t] = "live"
    /\ ~Refreshing(t)
    /\ BeginRefresh(p, t, TRUE)

SweepStart(p, t) ==
    /\ "sweep" \in Operations
    /\ life[t] = "live" /\ row[t].active
    /\ ~Sweeping
    /\ BeginRefresh(p, t, FALSE)

Inspecting(p) == op[p].pc \in {"inspect", "inspect_again"}

\* The account was verified (after a silent reauthorisation or at once).
RefreshVerified(p) ==
    /\ Inspecting(p)
    /\ life[op[p].tok] = "live"
    /\ \E tier \in Tiers : ApplySnapshot(op[p].tok, tier, TRUE)
    /\ Done(p)
    /\ ElsewhereSame

(***************************************************************************)
(* The account was not verified: Google rejected the session (401), the    *)
(* grant has expired, or anything else failed, which marks nothing.        *)
(***************************************************************************)
Verdicts == {"ST_REVOKED", "GRANT_EXPIRED", "transient"}

AfterFailure(p) ==
    IF op[p].pc = "inspect" /\ op[p].locked /\ StBrowserRefresh
    THEN "retry" ELSE "handle"

RefreshFailed(p) ==
    /\ Inspecting(p)
    /\ \E verdict \in Verdicts :
         /\ IF verdict = "transient" THEN UNCHANGED row
            ELSE MarkBan(op[p].tok, verdict)
    /\ Goto(p, AfterFailure(p))
    /\ RowOnly /\ ElsewhereSame

(***************************************************************************)
(* _try_refresh_st, when the browser refresh is configured: a new session  *)
(* token is verified and applied before the second attempt, or there is    *)
(* none and the failure is handled.                                        *)
(***************************************************************************)
TryRefreshSt(p) ==
    /\ Busy(p, "retry")
    /\ \/ /\ life[op[p].tok] = "live"
          /\ \E tier \in Tiers : ApplySnapshot(op[p].tok, tier, TRUE)
          /\ Goto(p, "inspect_again")
       \/ /\ Goto(p, "handle")
          /\ NoWrite
    /\ ElsewhereSame

NewlyRevoked(p) ==
    /\ life[op[p].tok] = "live"
    /\ row[op[p].tok].ban = "ST_REVOKED"
    /\ ~op[p].wasRevoked

\* _handle_refresh_failure: re-read the row; alert only for a new revocation.
HandleFailure(p) ==
    /\ Busy(p, "handle")
    /\ IF NewlyRevoked(p) THEN Goto(p, "alert") ELSE Done(p)
    /\ NoWrite /\ ElsewhereSame

\* The alert has been posted; only now is the account taken out of the pool.
DisableRevoked(p) ==
    /\ Busy(p, "alert")
    /\ Disable(op[p].tok, "ST_REVOKED")
    /\ Done(p)
    /\ RowOnly /\ ElsewhereSame

(***************************************************************************)
(* A verified observation applied in one transaction: by the sidecar, the  *)
(* CLI's reauth, the admin update (allow) or the import and the plugin     *)
(* (which may not reactivate).                                             *)
(***************************************************************************)
Observe(t, allow) ==
    /\ "observe" \in Operations
    /\ life[t] = "live"
    /\ \E tier \in Tiers : ApplySnapshot(t, tier, allow)
    /\ UNCHANGED op /\ ElsewhereSame

\* An observation by the sidecar's runner, which observes the accounts whose
\* keepalive is enabled, in the pool or not, that learns a plan and an expiry.
KnownTiers == {tier \in Tiers : ClassifyTier(tier) # "unknown"}

SidecarObserves(t) ==
    /\ "observe" \in Operations
    /\ life[t] = "live"
    /\ \E tier \in KnownTiers : ApplySnapshot(t, tier, TRUE)
    /\ row'[t].fresh
    /\ UNCHANGED op /\ ElsewhereSame

(***************************************************************************)
(* publish_verified_account: the snapshot, then in a second transaction    *)
(* the desired state of an account no protected owner holds.               *)
(***************************************************************************)
PublishSnapshot(p, t) ==
    /\ "publish" \in Operations
    /\ life[t] = "live"
    /\ \E tier \in Tiers : ApplySnapshot(t, tier, TRUE)
    /\ Start(p, t, "publish")
    /\ ElsewhereSame

\* Mutation: the desired state is applied whoever owns the row.
PublishedOverOwner(r, businessEnabled) ==
    [r EXCEPT !.active = businessEnabled,
              !.ban = IF businessEnabled THEN r.ban ELSE "manual_disabled"]

Published(r, businessEnabled) ==
    LET ban == IF r.ban = "onboarding_pending" THEN NoBan ELSE r.ban
    IN CASE ban # NoBan -> r
         [] ban = NoBan /\ businessEnabled ->
                [r EXCEPT !.active = TRUE, !.ban = NoBan, !.bannedAt = "never"]
         [] OTHER -> [r EXCEPT !.active = FALSE, !.ban = "manual_disabled"]

PublishDesiredState(p) ==
    /\ Busy(p, "publish")
    /\ \E businessEnabled \in BOOLEAN :
         Update(op[p].tok, Published(row[op[p].tok], businessEnabled))
    /\ Done(p)
    /\ RowOnly /\ ElsewhereSame

-----------------------------------------------------------------------------
(***************************************************************************)
(* auto_unban_429_tokens: one read of all rows, then three transactions    *)
(* per account that qualified in that read.                                *)
(***************************************************************************)
\* Mutation: the age of the ban is compared the wrong way round.
UnbannableTooYoung ==
    {t \in Tokens : /\ life[t] = "live" /\ ~row[t].active
                    /\ row[t].ban = "429_rate_limit" /\ row[t].bannedAt = "recent"
                    /\ row[t].fresh}

Unbannable ==
    {t \in Tokens : /\ life[t] = "live" /\ ~row[t].active
                    /\ row[t].ban = "429_rate_limit" /\ row[t].bannedAt = "old"
                    /\ row[t].fresh}

Current(todo) == CHOOSE t \in todo : TRUE

UnbanScan ==
    /\ "unban" \in Operations
    /\ unban.pc = "sleep"
    /\ Unbannable # {}
    /\ unban' = [pc |-> "activate", todo |-> Unbannable]
    /\ NoWrite /\ UNCHANGED <<life, op, crashes>>

UnbanActivate ==
    /\ unban.pc = "activate"
    /\ Activate(Current(unban.todo))
    /\ unban' = [unban EXCEPT !.pc = "clear"]
    /\ RowOnly /\ UNCHANGED <<life, op, crashes>>

UnbanClear ==
    /\ unban.pc = "clear"
    /\ ClearBan(Current(unban.todo))
    /\ unban' = [unban EXCEPT !.pc = "reset"]
    /\ RowOnly /\ UNCHANGED <<life, op, crashes>>

UnbanReset ==
    /\ unban.pc = "reset"
    /\ ResetErrors(Current(unban.todo))
    /\ LET rest == unban.todo \ {Current(unban.todo)}
       IN unban' = IF rest = {} THEN NoScan ELSE [pc |-> "activate", todo |-> rest]
    /\ RowOnly /\ UNCHANGED <<life, op, crashes>>

\* Twelve hours pass.
BanAges(t) ==
    /\ life[t] = "live" /\ row[t].bannedAt = "recent"
    /\ row' = [row EXCEPT ![t].bannedAt = "old"]
    /\ RowOnly /\ UNCHANGED op /\ ElsewhereSame

\* The stored access token expires (one without an expiry never does).
AtExpires(t) ==
    /\ "at_expiry" \in Operations
    /\ life[t] = "live" /\ row[t].fresh
    /\ row' = [row EXCEPT ![t].fresh = FALSE]
    /\ RowOnly /\ UNCHANGED op /\ ElsewhereSame

(***************************************************************************)
(* The API service dies and starts again: its coroutines are gone, and the *)
(* migration it runs at start gives ownerless inactive rows to the         *)
(* operator (backfill_legacy).                                             *)
(***************************************************************************)
Backfilled(r) ==
    IF ~r.active /\ r.ban = NoBan THEN [r EXCEPT !.ban = "manual_disabled"] ELSE r

RestartService ==
    /\ crashes < MaxCrashes
    /\ crashes' = crashes + 1
    /\ op' = [p \in Procs |-> IF p \in Service THEN Idle ELSE op[p]]
    /\ unban' = NoScan
    /\ row' = [t \in Tokens |-> IF life[t] = "live" THEN Backfilled(row[t]) ELSE row[t]]
    /\ RowOnly /\ UNCHANGED life

\* A CLI invocation is killed between two of its transactions.
ToolDies(p) ==
    /\ crashes < MaxCrashes
    /\ op[p] # Idle
    /\ crashes' = crashes + 1
    /\ Done(p)
    /\ NoWrite /\ UNCHANGED <<life, unban>>

-----------------------------------------------------------------------------
Init ==
    /\ life = [t \in Tokens |-> "unborn"]
    /\ row = [t \in Tokens |-> NewRow(NoBan)]
    /\ member = [t \in Tokens |-> Fresh("active")]
    /\ heard = [t \in Tokens |-> Silence]
    /\ op = [p \in Procs |-> Idle]
    /\ unban = NoScan
    /\ crashes = 0

ServiceStep(p) ==
    \/ \E t \in Tokens : ErrorCount(p, t) \/ RefreshStart(p, t) \/ SweepStart(p, t)
    \/ ErrorRead(p) \/ ErrorDisable(p)
    \/ RefreshVerified(p) \/ RefreshFailed(p) \/ TryRefreshSt(p)
    \/ HandleFailure(p) \/ DisableRevoked(p)

EitherStep(p) ==
    \/ \E t \in Tokens : EnableStart(p, t)
    \/ EnableClear(p) \/ EnableReset(p)

ToolStep(p) ==
    \/ \E t \in Tokens : PublishSnapshot(p, t)
    \/ PublishDesiredState(p)
    \/ ToolDies(p)

AccountStep(t) ==
    \/ AddToken(t) \/ DeleteToken(t) \/ DisableToken(t) \/ BanFor429(t)
    \/ RecordSuccess(t) \/ BanAges(t) \/ AtExpires(t)
    \/ \E allow \in BOOLEAN : Observe(t, allow)

UnbanStep == UnbanScan \/ UnbanActivate \/ UnbanClear \/ UnbanReset

Next ==
    \/ \E p \in Service : ServiceStep(p)
    \/ \E p \in Procs : EitherStep(p)
    \/ \E p \in Tools : ToolStep(p)
    \/ \E t \in Tokens : AccountStep(t)
    \/ UnbanStep
    \/ RestartService

Spec == Init /\ [][Next]_vars

(***************************************************************************)
(* Fairness.  The auto-unban task scans every hour as long as the service  *)
(* is up.  The sidecar keeps observing the account: its keepalive is       *)
(* enabled and its session is good.  An access token that was just stored  *)
(* outlives the hour between two scans, so a scan meets it unexpired: that *)
(* is the strong fairness of the scan.  Nothing else renews the access     *)
(* token of an account out of the pool.                                    *)
(***************************************************************************)
UnbanFairness ==
    /\ \A t \in Tokens : SF_vars(UnbanScan /\ t \in Unbannable)
    /\ WF_vars(UnbanActivate) /\ WF_vars(UnbanClear) /\ WF_vars(UnbanReset)

ObserverFairness == \A t \in Tokens : WF_vars(SidecarObserves(t))

FairSpec == Spec /\ UnbanFairness /\ ObserverFairness

-----------------------------------------------------------------------------
(***************************************************************************)
(* Properties.                                                             *)
(***************************************************************************)

\* Every variable keeps its type; in particular the membership fields stay in
\* the combinations that the constructor of AccountLifecycleState accepts, so
\* reading the row back (_membership_state_from_row) never raises.
TypeOK ==
    /\ life \in [Tokens -> {"unborn", "live", "deleted"}]
    /\ row \in [Tokens -> Rows]
    /\ member \in [Tokens -> MembershipStates]
    /\ heard \in [Tokens -> Histories]
    /\ op \in [Procs -> Ops]
    /\ unban \in Scans
    /\ (unban.pc = "sleep") <=> (unban.todo = {})
    /\ crashes \in 0..MaxCrashes

Expired(r) == ~r.active /\ r.ban = "membership_expired"

\* An account is out of the pool for an expired membership only while its
\* confirmed status is retired: whatever enables, disables, marks, restarts and
\* observations interleave, no account is left out for an expiry that has been
\* revoked, which no later observation would ever undo (only the flip from
\* retired to active restores a row).
ExpiredImpliesRetired == \A t \in Tokens : Expired(row[t]) => member[t].status = "retired"

\* A pending candidate is the class heard last, so the observation that confirms
\* it is the second in a row (only known classes count).
CandidateIsLastHeard ==
    \A t \in Tokens : member[t].candidate # "unknown" => LastHeard(t) = member[t].candidate

\* A confirmed status flips only on the second of two consecutive known
\* observations of the new class, whoever made them: the sidecar, a refresh in the
\* service, the CLI, in any interleaving and across restarts.
FlipNeedsTwoInARow ==
    [][\A t \in Tokens : life'[t] = "live" /\ member'[t].status # member[t].status =>
            /\ heard'[t].older = heard'[t].newer
            /\ heard'[t].newer \in Classes
            /\ member'[t].status = StatusOf(heard'[t].newer)]_vars

HalfEnabled(r) == r.active /\ r.ban \notin AuthReasons \cup {NoBan}

InFlightClear(t) ==
    \/ \E p \in Procs : op[p].pc = "enable_clear" /\ op[p].tok = t
    \/ unban.pc = "clear" /\ Current(unban.todo) = t

\* As long as nothing was killed, an account that is in the pool while its row
\* still names a non-auth owner of its absence is one whose enable or unban has
\* written is_active and is about to clear the reason; no interleaving leaves such
\* a half-enabled row behind (it would be routable, and never retired again).
HalfEnabledInFlight ==
    crashes = 0 => \A t \in Tokens : HalfEnabled(row[t]) => InFlightClear(t)

\* A member whose plan is paid again returns to the pool: as long as the sidecar
\* keeps observing it, an account can stay out for an expired membership for ever
\* only if free observations keep coming.
RenewedMemberReturns ==
    \A t \in Tokens :
        []<>~(life[t] = "live" /\ Expired(row[t])) \/ []<>(LastHeard(t) = "free")

RateLimited(t) ==
    life[t] = "live" /\ ~row[t].active /\ row[t].ban = "429_rate_limit"
        /\ row[t].bannedAt = "old"

\* A rate limit that is twelve hours old does not keep an account out for ever, as
\* long as the sidecar keeps observing it: the auto-unban passes over an expired
\* access token, and the account's token expires again and again while it is out.
\* (Without the sidecar the statement is false: an account without keepalive stays
\* out once its access token has expired.)
RateLimitEnds == \A t \in Tokens : RateLimited(t) ~> ~RateLimited(t)

(***************************************************************************)
(* What the documentation and docstrings say and the code does not keep.   *)
(***************************************************************************)

\* src/services/token_manager.py:874: only accounts disabled for a 429 are
\* released.  The decision is taken on a snapshot of the rows.
OnlyRateLimitReleased ==
    [][unban.pc = "activate" /\ unban'.pc = "clear"
          => LET t == Current(unban.todo)
             IN life[t] = "live" => row[t].ban = "429_rate_limit"]_vars

\* docs/architecture.md:128: a retired member returns to the pool only after two
\* paid observations.  A refresh that Google rejects marks the auth reason over
\* membership_expired, and then the next verified snapshot, whatever its tier,
\* recovers the account as if it had only lost its session.
RetiredStaysOut ==
    [][\A t \in Tokens :
          life'[t] = "live" /\ member[t].status = "retired"
            /\ ~row[t].active /\ row[t].ban \in AuthReasons
            /\ row'[t].active /\ row'[t].ban = NoBan
          => member'[t].status = "active"]_vars

=============================================================================
