------------------------------ MODULE Dispatch ------------------------------
(***************************************************************************)
(* How a generation request gets an account and gives its slot back:       *)
(* LoadBalancer.select_token, the pending counters, the limits of the      *)
(* ConcurrencyManager and the skeleton of GenerationHandler                *)
(* .handle_generation around them.                                         *)
(*                                                                         *)
(* The service is one asyncio loop: code between two awaits that suspend   *)
(* is one step.  The locks of the counters are never held across such an   *)
(* await, so from the read of the active accounts to the pending count     *)
(* select_token is one step, unless every candidate needs its access token *)
(* refreshed: then it suspends with the order it had already computed.     *)
(*                                                                         *)
(* The service never reserves (reserve=False everywhere), so the inflight  *)
(* counters of the ConcurrencyManager stay 0 and only its limits count.    *)
(***************************************************************************)
EXTENDS Integers, FiniteSets, Sequences

CONSTANTS
    Tokens,          \* account ids
    Requests,        \* concurrent client requests
    Deployments,     \* the initial accounts, limits and call-logic modes to consider
    Limits,          \* values that the admin API sets a limit to, 0 for no limit
    Demands,         \* the models that clients ask for
    Changes,         \* what happens to accounts meanwhile (a subset of AllChanges)
    PreferHigher,    \* config.prefer_higher_tier_accounts
    MinCredits,      \* config.min_credits_to_select
    MaxLeaks         \* bound on disconnects between selection and the try block

Kinds == {"image", "video"}
Ranks == 0..2        \* Free, Pro, Ult
Credits == 0..2

Accounts ==
    [live : BOOLEAN, active : BOOLEAN, enabled : SUBSET Kinds, rank : Ranks,
     credits : Credits, mark : {"none", "recent", "cooled"}, snapshot : Credits,
     fresh : BOOLEAN]

\* A model makes images or videos, may edit a video, and needs a tier.
Models == {m \in [kind : Kinds, edit : BOOLEAN, needs : Ranks] : m.edit => m.kind = "video"}

AllChanges == {"expire", "renew", "toggle", "recharge", "cool", "limit", "remove", "mode"}

ASSUME TokensAssumption == Tokens \subseteq Nat \ {0} /\ Tokens # {} /\ IsFiniteSet(Tokens)
ASSUME RequestsAssumption == IsFiniteSet(Requests)
ASSUME DeploymentsAssumption ==
    Deployments \subseteq [acct : [Tokens -> Accounts], limit : [Kinds -> [Tokens -> Nat]],
                           polling : BOOLEAN]
ASSUME LimitsAssumption == Limits \subseteq Nat
ASSUME DemandsAssumption == Demands \subseteq Models /\ Changes \subseteq AllChanges
ASSUME ConfigAssumption ==
    PreferHigher \in BOOLEAN /\ MinCredits \in Credits
ASSUME BoundAssumption == MaxLeaks \in Nat

VARIABLES
    acct,       \* account -> the columns of its row that selection reads
    limit,      \* kind -> account -> concurrency limit
    polling,    \* config.call_logic_mode = "polling"
    pending,    \* kind -> account -> requests counted on the account
    last,       \* scenario -> the account the round robin served last, 0 for none
    req,        \* request -> what it is doing
    lap,        \* history: per scenario, whom the round robin chose since when
    leaked      \* history: pending counts whose request is gone

vars == <<acct, limit, polling, pending, last, req, lap, leaked>>

Pcs == {"idle", "select", "refreshing", "probing", "selected", "checking", "running",
        "marking", "finally"}

\* The steps during which the request is counted in `pending`.
HoldingPcs == {"selected", "checking", "running", "marking", "finally"}

NoRequest ==
    [pc |-> "idle", kind |-> "image", edit |-> FALSE, needs |-> 0,
     tok |-> CHOOSE t \in Tokens : TRUE, order |-> <<>>, read |-> 0]

RequestStates ==
    [pc : Pcs, kind : Kinds, edit : BOOLEAN, needs : Ranks, tok : Tokens,
     order : Seq(Tokens), read : Credits]

\* The candidates of a lap of the round robin and those of them it has chosen.
Laps == [of : SUBSET Tokens, served : SUBSET Tokens]

NoLap == [of |-> {}, served |-> {}]

\* What an action that only moves a request leaves alone.
OnlyRequests == UNCHANGED <<acct, limit, polling, pending, last, lap, leaked>>

\* What an action of the operator, of time or of a background task leaves alone.
OnlyAccounts == UNCHANGED <<limit, polling, pending, last, req, lap, leaked>>

-----------------------------------------------------------------------------
(***************************************************************************)
(* Selection.                                                              *)
(***************************************************************************)
Larger(a, b) == IF a >= b THEN a ELSE b

QuotaMarkExcludes(a) ==
    a.mark = "recent" /\ a.credits <= Larger(a.snapshot, MinCredits)

Eligible(kind, needs) ==
    {t \in Tokens :
        /\ acct[t].active
        /\ acct[t].rank >= needs
        /\ acct[t].credits > MinCredits
        /\ ~QuotaMarkExcludes(acct[t])
        /\ kind \in acct[t].enabled}

Remaining(kind, t) == Larger(0, limit[kind][t] - pending[kind][t])

Saturated(kind, t) == limit[kind][t] # 0 /\ Remaining(kind, t) = 0

Flag(b) == IF b THEN 1 ELSE 0

\* Lower is better; 2K images prefer the lowest tier that can make them.
TierKey(kind, needs, t) ==
    CASE ~PreferHigher -> 0
      [] PreferHigher /\ kind = "image" /\ needs = 1 -> acct[t].rank
      [] OTHER -> -acct[t].rank

\* Mutation: the tier comes before the saturation, as it once did.
SortKeyTierFirst(kind, needs, t) ==
    <<Flag(~acct[t].fresh), TierKey(kind, needs, t), Flag(Saturated(kind, t)),
      pending[kind][t], Flag(limit[kind][t] # 0), 0>>

SortKey(kind, needs, t) ==
    <<Flag(~acct[t].fresh), Flag(Saturated(kind, t)), TierKey(kind, needs, t),
      pending[kind][t], Flag(limit[kind][t] # 0),
      IF limit[kind][t] = 0 THEN 0 ELSE -Remaining(kind, t)>>

Precedes(k, l) ==
    \E i \in 1..6 : k[i] < l[i] /\ \A j \in 1..(i - 1) : k[j] = l[j]

Enumerations(S) ==
    {s \in [1..Cardinality(S) -> S] : \A t \in S : \E i \in DOMAIN s : s[i] = t}

\* Ties are broken at random: any order that no later element should precede.
LoadOrders(kind, needs, S) ==
    {s \in Enumerations(S) :
        \A i, j \in DOMAIN s :
            i < j => ~Precedes(SortKey(kind, needs, s[j]), SortKey(kind, needs, s[i]))}

Least(S) == {t \in S : \A u \in S : t <= u}

\* Mutation: every choice starts from the first account again.
RoundRobinFromStart(S, previous) == Least(S)

\* The account after the one chosen last, by id, or the first one (as a singleton).
RoundRobin(S, previous) ==
    LET after == {t \in S : t > previous}
    IN IF previous \in S /\ after # {} THEN Least(after) ELSE Least(S)

\* The round robin's choice, then the others by id; ready accounts come first.
PollingOrders(S, first) ==
    {s \in Enumerations(S) :
        \A i, j \in DOMAIN s :
            i < j => \/ acct[s[i]].fresh /\ ~acct[s[j]].fresh
                     \/ /\ acct[s[i]].fresh = acct[s[j]].fresh
                        /\ s[j] # first
                        /\ s[i] = first \/ s[i] < s[j]}

-----------------------------------------------------------------------------
(***************************************************************************)
(* The counters.  release_pending pops the entry at 1 or below.            *)
(***************************************************************************)
\* An UPDATE of a deleted row changes nothing.
Write(t, account) == acct' = IF acct[t].live THEN [acct EXCEPT ![t] = account] ELSE acct

AddPending(kind, t) == pending' = [pending EXCEPT ![kind][t] = @ + 1]

ReleasePending(kind, t) ==
    pending' = [pending EXCEPT ![kind][t] = IF @ <= 1 THEN 0 ELSE @ - 1]

Goto(r, pc) == req' = [req EXCEPT ![r].pc = pc]

Chosen(r, t) == req' = [req EXCEPT ![r].pc = "selected", ![r].tok = t, ![r].order = <<>>]

End(r) == req' = [req EXCEPT ![r] = NoRequest]

\* A request for a model arrives.
Arrive(r) ==
    /\ req[r].pc = "idle"
    /\ \E m \in Demands :
         req' = [req EXCEPT ![r] = [NoRequest EXCEPT !.pc = "select", !.kind = m.kind,
                                       !.edit = m.edit, !.needs = m.needs]]
    /\ OnlyRequests

(***************************************************************************)
(* select_token(track_pending=True).                                       *)
(***************************************************************************)
AllReady(S) == \A t \in S : acct[t].fresh

\* The lap of a scenario after the round robin has chosen t from S.
LapAfter(l, S, t) ==
    CASE ~AllReady(S) -> NoLap
      [] AllReady(S) /\ (S # l.of \/ t \in l.served) -> [of |-> S, served |-> {t}]
      [] OTHER -> [l EXCEPT !.served = @ \cup {t}]

\* In polling mode the round robin advances whoever is served in the end.
OrderCandidates(kind, needs, S, order) ==
    \/ /\ polling
       /\ \E first \in RoundRobin(S, last[kind]) :
            /\ order \in PollingOrders(S, first)
            /\ last' = [last EXCEPT ![kind] = first]
            /\ lap' = [lap EXCEPT ![kind] = LapAfter(@, S, first)]
    \/ /\ ~polling
       /\ order \in LoadOrders(kind, needs, S)
       /\ UNCHANGED <<last, lap>>

\* No candidate: the request is refused with a reason.
SelectNone(r) ==
    /\ req[r].pc = "select" /\ ~req[r].edit
    /\ Eligible(req[r].kind, req[r].needs) = {}
    /\ End(r)
    /\ OnlyRequests

\* The first candidate in order is taken when its access token is valid, and its
\* refresh is awaited when it is not (then no candidate's is).
Select(r) ==
    LET S == Eligible(req[r].kind, req[r].needs)
    IN /\ req[r].pc = "select" /\ ~req[r].edit
       /\ S # {}
       /\ \E order \in Enumerations(S) :
            /\ OrderCandidates(req[r].kind, req[r].needs, S, order)
            /\ IF acct[order[1]].fresh
               THEN Chosen(r, order[1]) /\ AddPending(req[r].kind, order[1])
               ELSE /\ req' = [req EXCEPT ![r].pc = "refreshing", ![r].order = order]
                    /\ UNCHANGED pending
       /\ UNCHANGED <<acct, limit, polling, leaked>>

\* ensure_valid_token of the first candidate: refreshed, and counted on it.
RefreshAnswered(r) ==
    LET t == Head(req[r].order)
    IN /\ req[r].pc = "refreshing"
       /\ acct[t].live
       /\ acct' = [acct EXCEPT ![t].fresh = TRUE]
       /\ Chosen(r, t)
       /\ AddPending(req[r].kind, t)
       /\ UNCHANGED <<limit, polling, last, lap, leaked>>

\* Mutation: the last refusal does not end the selection.
RefusedWithoutEnd(r) ==
    /\ req[r].pc = "refreshing"
    /\ req' = [req EXCEPT ![r].order = Tail(@)]
    /\ OnlyRequests

\* The refresh failed: the next candidate, or an error response.
RefreshRefused(r) ==
    /\ req[r].pc = "refreshing"
    /\ IF Len(req[r].order) = 1 THEN End(r)
       ELSE req' = [req EXCEPT ![r].order = Tail(@)]
    /\ OnlyRequests

(***************************************************************************)
(* _select_edit_source_token: the accounts are read once and probed one by *)
(* one for the source video; its owner is counted like a selected account. *)
(***************************************************************************)
ProbeStart(r) ==
    LET S == Eligible("video", req[r].needs)
    IN /\ req[r].pc = "select" /\ req[r].edit
       /\ \/ End(r)
          \/ \E owner \in S :
                req' = [req EXCEPT ![r].pc = "probing", ![r].tok = owner]
       /\ OnlyRequests

\* Mutation: the owner of the source video is not counted.
ProbedUncounted(r) ==
    /\ req[r].pc = "probing"
    /\ Chosen(r, req[r].tok) \/ End(r)
    /\ OnlyRequests

ProbeAnswered(r) ==
    /\ req[r].pc = "probing"
    /\ \/ /\ Chosen(r, req[r].tok)
          /\ AddPending("video", req[r].tok)
       \/ /\ End(r)
          /\ UNCHANGED pending
    /\ UNCHANGED <<acct, limit, polling, last, lap, leaked>>

-----------------------------------------------------------------------------
(***************************************************************************)
(* handle_generation after the selection: the progress of the request is   *)
(* logged, then the try block is entered whose finally gives the slot back.*)
(***************************************************************************)
EnterTry(r) ==
    /\ req[r].pc = "selected"
    /\ Goto(r, "checking")
    /\ OnlyRequests

\* The client disconnects while that progress is written: no finally runs.
DisconnectBeforeTry(r) ==
    /\ req[r].pc = "selected"
    /\ leaked[req[r].kind][req[r].tok] < MaxLeaks
    /\ leaked' = [leaked EXCEPT ![req[r].kind][req[r].tok] = @ + 1]
    /\ End(r)
    /\ UNCHANGED <<acct, limit, polling, pending, last, lap>>

\* Mutation: without an account the finally clause has nothing to release.
CheckLosesAccount(r) ==
    /\ req[r].pc = "checking"
    /\ Goto(r, "running") \/ End(r)
    /\ OnlyRequests

\* The access token and the tier are checked again, on the row as the request
\* read it or as a refresh left it, so both answers are possible.
Check(r) ==
    /\ req[r].pc = "checking"
    /\ Goto(r, "running") \/ Goto(r, "finally")
    /\ OnlyRequests

\* record_success clears the quota mark.
Succeed(r) ==
    /\ req[r].pc = "running"
    /\ Write(req[r].tok, [acct[req[r].tok] EXCEPT !.mark = "none", !.snapshot = 0])
    /\ Goto(r, "finally")
    /\ UNCHANGED <<limit, polling, pending, last, lap, leaked>>

\* mark_quota_exhausted reads the credits and then writes the mark.
QuotaRefused(r) ==
    /\ req[r].pc = "running"
    /\ req' = [req EXCEPT ![r].pc = "marking", ![r].read = acct[req[r].tok].credits]
    /\ OnlyRequests

MarkExhausted(r) ==
    /\ req[r].pc = "marking"
    /\ Write(req[r].tok, [acct[req[r].tok] EXCEPT !.mark = "recent",
                                                 !.snapshot = req[r].read])
    /\ Goto(r, "finally")
    /\ UNCHANGED <<limit, polling, pending, last, lap, leaked>>

\* Any other failure, or the client is gone: the error counting is TokenPool's.
Abort(r) ==
    /\ req[r].pc \in {"running", "marking"}
    /\ Goto(r, "finally")
    /\ OnlyRequests

\* A disconnect while an account is being selected.
DisconnectEarly(r) ==
    /\ req[r].pc \in {"select", "refreshing", "probing"}
    /\ End(r)
    /\ OnlyRequests

Release(r) ==
    /\ req[r].pc = "finally"
    /\ ReleasePending(req[r].kind, req[r].tok)
    /\ End(r)
    /\ UNCHANGED <<acct, limit, polling, last, lap, leaked>>

-----------------------------------------------------------------------------
(***************************************************************************)
(* What changes the accounts meanwhile: an expiring access token, the      *)
(* operator and the membership policy, a recharge, the cooldown of a mark. *)
(***************************************************************************)
AtExpires(t) ==
    /\ "expire" \in Changes
    /\ acct[t].live /\ acct[t].fresh
    /\ acct' = [acct EXCEPT ![t].fresh = FALSE]
    /\ OnlyAccounts

\* Another request, a probe or the operator has the access token refreshed.
AtRenewed(t) ==
    /\ "renew" \in Changes
    /\ acct[t].live /\ ~acct[t].fresh
    /\ acct' = [acct EXCEPT ![t].fresh = TRUE]
    /\ OnlyAccounts

Toggle(t) ==
    /\ "toggle" \in Changes
    /\ acct[t].live
    /\ acct' = [acct EXCEPT ![t].active = ~@]
    /\ OnlyAccounts

Recharge(t) ==
    /\ "recharge" \in Changes
    /\ acct[t].live /\ acct[t].credits + 1 \in Credits
    /\ acct' = [acct EXCEPT ![t].credits = @ + 1]
    /\ OnlyAccounts

MarkCools(t) ==
    /\ "cool" \in Changes
    /\ acct[t].live /\ acct[t].mark = "recent"
    /\ acct' = [acct EXCEPT ![t].mark = "cooled"]
    /\ OnlyAccounts

\* The admin API changes a limit (reset_token) or deletes the account
\* (remove_token, which leaves the pending counts to the requests).
ResetToken(t) ==
    /\ "limit" \in Changes
    /\ acct[t].live
    /\ \E images, videos \in Limits :
         limit' = [limit EXCEPT !["image"][t] = images, !["video"][t] = videos]
    /\ UNCHANGED <<acct, polling, pending, last, req, lap, leaked>>

RemoveToken(t) ==
    /\ "remove" \in Changes
    /\ acct[t].live
    /\ acct' = [acct EXCEPT ![t].live = FALSE, ![t].active = FALSE]
    /\ limit' = [kind \in Kinds |-> [limit[kind] EXCEPT ![t] = 0]]
    /\ UNCHANGED <<polling, pending, last, req, lap, leaked>>

\* The admin API changes the call-logic mode of the running service.
SetCallLogicMode ==
    /\ "mode" \in Changes
    /\ polling' = ~polling
    /\ UNCHANGED <<acct, limit, pending, last, req, lap, leaked>>

-----------------------------------------------------------------------------
Zero == [kind \in Kinds |-> [t \in Tokens |-> 0]]

Init ==
    /\ \E d \in Deployments :
         acct = d.acct /\ limit = d.limit /\ polling = d.polling
    /\ pending = Zero
    /\ last = [kind \in Kinds |-> 0]
    /\ req = [r \in Requests |-> NoRequest]
    /\ lap = [kind \in Kinds |-> NoLap]
    /\ leaked = Zero

RequestStep(r) ==
    \/ SelectNone(r) \/ Select(r) \/ RefreshAnswered(r) \/ RefreshRefused(r)
    \/ ProbeStart(r) \/ ProbeAnswered(r)
    \/ EnterTry(r) \/ Check(r) \/ Succeed(r) \/ QuotaRefused(r) \/ MarkExhausted(r)
    \/ Abort(r) \/ Release(r)

ClientStep(r) == Arrive(r) \/ DisconnectEarly(r) \/ DisconnectBeforeTry(r)

AccountStep(t) ==
    \/ AtExpires(t) \/ AtRenewed(t) \/ Toggle(t) \/ Recharge(t) \/ MarkCools(t)
    \/ ResetToken(t) \/ RemoveToken(t)

Next ==
    \/ \E r \in Requests : RequestStep(r) \/ ClientStep(r)
    \/ \E t \in Tokens : AccountStep(t)
    \/ SetCallLogicMode

Spec == Init /\ [][Next]_vars

\* Every await of a request returns: the HTTP client and the polling have timeouts.
FairSpec == Spec /\ \A r \in Requests : WF_vars(RequestStep(r))

-----------------------------------------------------------------------------
\* Every variable keeps its type; a request has candidates left to try exactly while
\* it waits for the access token of one.
TypeOK ==
    /\ acct \in [Tokens -> Accounts]
    /\ limit \in [Kinds -> [Tokens -> Nat]]
    /\ polling \in BOOLEAN
    /\ pending \in [Kinds -> [Tokens -> Nat]]
    /\ last \in [Kinds -> Tokens \cup {0}]
    /\ req \in [Requests -> RequestStates]
    /\ lap \in [Kinds -> Laps]
    /\ leaked \in [Kinds -> [Tokens -> 0..MaxLeaks]]
    /\ \A r \in Requests : (req[r].pc = "refreshing") <=> (req[r].order # <<>>)

Holders(kind, t) ==
    {r \in Requests : req[r].pc \in HoldingPcs /\ req[r].kind = kind /\ req[r].tok = t}

\* The pending count of an account is the number of requests that hold a slot of
\* it, plus what disconnects have leaked: no request, on any path, releases a count
\* that belongs to another one (which the clamp of release_pending would hide).
PendingCountsHolders ==
    \A kind \in Kinds, t \in Tokens :
        pending[kind][t] = Cardinality(Holders(kind, t)) + leaked[kind][t]

Assigned(r, t) ==
    req[r].pc # "selected" /\ req'[r].pc = "selected" /\ req'[r].tok = t

\* A request that finds candidates ready is put on a full account only if all ready
\* candidates are full: a burst overflows to other tiers instead of queueing on the
\* preferred account.
BurstOverflows ==
    [][~polling =>
        \A r \in Requests, t \in Tokens :
            req[r].pc = "select" /\ Assigned(r, t) /\ Saturated(req[r].kind, t) =>
                \A u \in Eligible(req[r].kind, req[r].needs) :
                    acct[u].fresh => Saturated(req[r].kind, u)]_vars

\* As long as the candidates of a scenario stay the same and need no refresh, the
\* round robin chooses every one of them before it comes back to any, whoever asks
\* and however often the mode is switched meanwhile.
FullLaps ==
    [][polling =>
        \A r \in Requests, t \in Tokens :
            LET l == lap[req[r].kind]
                S == Eligible(req[r].kind, req[r].needs)
            IN req[r].pc = "select" /\ Assigned(r, t) /\ AllReady(S) /\ S = l.of
                 => t \notin l.served \/ l.served = S]_vars

\* Once clients stop asking, every slot that no disconnect leaked comes back,
\* whatever refused or failed on the way.
SlotsComeBack ==
    <>[](\A r \in Requests : req[r].pc # "select") => <>[](pending = leaked)

\* src/services/generation_handler.py:317-318: the id of the account is saved so
\* that the finally clause returns the slot, to avoid a slot leak.  A client that
\* disconnects before the try block is entered leaks it for good.
NoSlotLeak ==
    \A kind \in Kinds, t \in Tokens : Holders(kind, t) = {} => pending[kind][t] = 0

=============================================================================
