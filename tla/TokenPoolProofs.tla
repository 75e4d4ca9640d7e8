--------------------------- MODULE TokenPoolProofs ---------------------------
(***************************************************************************)
(* Proofs about TokenPool, for every set of accounts, of coroutines and of *)
(* tools, every threshold and every deployment.                            *)
(***************************************************************************)
EXTENDS TokenPool, TLAPS

(***************************************************************************)
(* What the operators of AccountLifecycle return.                          *)
(***************************************************************************)

\* One observation keeps the membership fields in the combinations that the
\* constructor of AccountLifecycleState accepts.
LEMMA TransitionType ==
    ASSUME NEW m \in MembershipStates, NEW c \in Classes \cup {"unknown"}
    PROVE  TransitionLifecycle(m, c) \in MembershipStates
BY DEF MembershipStates, TransitionLifecycle, Classes, Fresh, StatusOf, OpposingClass,
       RequiredConsecutiveObservations

LEMMA ClassifyType ==
    ASSUME NEW tier \in Tiers
    PROVE  ClassifyTier(tier) \in Classes \cup {"unknown"}
BY DEF ClassifyTier, Classes, Tiers

LEMMA ResolveType ==
    ASSUME NEW r \in Rows, NEW b, NEW a, NEW allow
    PROVE  ResolvePoolState(r, b, a, allow) \in Rows
BY DEF ResolvePoolState, AuthRecovered, Rows, NoBan, BanReasons, ProtectedReasons,
       AuthReasons, Ages

LEMMA HearType ==
    ASSUME NEW h \in Histories, NEW c \in Classes \cup {"unknown"}
    PROVE  Hear(h, c) \in Histories
BY DEF Hear, Histories

LEMMA NewRowType ==
    ASSUME NEW reason \in BanReasons \cup {NoBan}
    PROVE  NewRow(reason) \in Rows
BY BoundsAssumption DEF NewRow, Rows, Ages

LEMMA IdleType == Idle \in Ops
BY TokensAssumption DEF Idle, Ops, Pcs

LEMMA FreshType == Fresh("active") \in MembershipStates
BY DEF Fresh, MembershipStates, Classes

LEMMA PublishedType ==
    ASSUME NEW r \in Rows, NEW enabled \in BOOLEAN
    PROVE  Published(r, enabled) \in Rows
BY DEF Published, Rows, NoBan, BanReasons, ProtectedReasons, AuthReasons, Ages

\* What one observation does to the variables it writes.
LEMMA SnapshotType ==
    ASSUME TypeOK, NEW t \in Tokens, NEW tier \in Tiers, NEW allow,
           ApplySnapshot(t, tier, allow)
    PROVE  /\ row' \in [Tokens -> Rows]
           /\ member' \in [Tokens -> MembershipStates]
           /\ heard' \in [Tokens -> Histories]
<1>1. ClassifyTier(tier) \in Classes \cup {"unknown"}
  BY ClassifyType
<1>2. TransitionLifecycle(member[t], ClassifyTier(tier)) \in MembershipStates
  BY <1>1, TransitionType DEF TypeOK
<1>3. Hear(heard[t], ClassifyTier(tier)) \in Histories
  BY <1>1, HearType DEF TypeOK
<1>4. ResolvePoolState(row[t], member[t],
         TransitionLifecycle(member[t], ClassifyTier(tier)), allow) \in Rows
  BY ResolveType DEF TypeOK
<1>5. \A r \in Rows, fresh \in BOOLEAN : [r EXCEPT !.fresh = fresh] \in Rows
  BY DEF Rows
<1>6. row[t].fresh \in BOOLEAN
  BY DEF TypeOK, Rows
<1>7. row' \in [Tokens -> Rows]
  <2>1. PICK fresh \in {row[t].fresh, TRUE} :
          row' = [row EXCEPT ![t] = [ResolvePoolState(row[t], member[t],
                    TransitionLifecycle(member[t], ClassifyTier(tier)), allow)
                      EXCEPT !.fresh = fresh]]
    BY DEF ApplySnapshot
  <2>2. QED  BY <1>4, <1>5, <1>6, <2>1 DEF TypeOK
<1>8. QED
  BY <1>2, <1>3, <1>7 DEF ApplySnapshot, TypeOK

LEMMA UpdateType ==
    ASSUME TypeOK, NEW t \in Tokens, NEW r \in Rows, Update(t, r)
    PROVE  row' \in [Tokens -> Rows]
BY DEF Update, TypeOK

LEMMA StatementTypes ==
    ASSUME TypeOK, NEW t \in Tokens
    PROVE  /\ Activate(t) => row' \in [Tokens -> Rows]
           /\ ClearBan(t) => row' \in [Tokens -> Rows]
           /\ ResetErrors(t) => row' \in [Tokens -> Rows]
           /\ \A reason \in BanReasons :
                Disable(t, reason) \/ MarkBan(t, reason) => row' \in [Tokens -> Rows]
<1> row[t] \in Rows
  BY DEF TypeOK
<1>1. [row[t] EXCEPT !.active = TRUE] \in Rows
  BY DEF Rows
<1>2. [row[t] EXCEPT !.ban = NoBan, !.bannedAt = "never"] \in Rows
  BY DEF Rows, Ages
<1>3. [row[t] EXCEPT !.errors = 0] \in Rows
  BY BoundsAssumption DEF Rows
<1>4. \A reason \in BanReasons :
        /\ [row[t] EXCEPT !.active = FALSE, !.ban = reason, !.bannedAt = "recent"] \in Rows
        /\ [row[t] EXCEPT !.ban = reason] \in Rows
  BY DEF Rows, Ages
<1>5. QED
  BY <1>1, <1>2, <1>3, <1>4, UpdateType DEF Activate, ClearBan, ResetErrors, Disable, MarkBan

LEMMA OpTypes ==
    ASSUME TypeOK, NEW p \in Procs
    PROVE  /\ \A pc \in Pcs : Goto(p, pc) => op' \in [Procs -> Ops]
           /\ Done(p) => op' \in [Procs -> Ops]
           /\ \A t \in Tokens, pc \in Pcs : Start(p, t, pc) => op' \in [Procs -> Ops]
           /\ \A t \in Tokens, lock \in BOOLEAN :
                 BeginRefresh(p, t, lock) => op' \in [Procs -> Ops]
           /\ op[p].tok \in Tokens
<1>1. op[p] \in Ops /\ Idle \in Ops
  BY IdleType DEF TypeOK
<1>2. \A pc \in Pcs : Goto(p, pc) => op' \in [Procs -> Ops]
  BY <1>1 DEF TypeOK, Goto, Ops
<1>3. Done(p) => op' \in [Procs -> Ops]
  BY <1>1 DEF TypeOK, Done
<1>4. \A t \in Tokens, pc \in Pcs : Start(p, t, pc) => op' \in [Procs -> Ops]
  <2>1. \A t \in Tokens, pc \in Pcs : [Idle EXCEPT !.pc = pc, !.tok = t] \in Ops
    BY <1>1 DEF Ops
  <2>2. QED  BY <2>1 DEF TypeOK, Start
<1>5. ASSUME NEW t \in Tokens, NEW lock \in BOOLEAN, BeginRefresh(p, t, lock)
      PROVE  op' \in [Procs -> Ops]
  <2>1. \A b \in BOOLEAN :
          [Idle EXCEPT !.pc = "inspect", !.tok = t, !.wasRevoked = b, !.locked = lock] \in Ops
    BY <1>1 DEF Ops, Pcs, RefreshPcs
  <2>2. (row[t].ban = "ST_REVOKED") \in BOOLEAN
    OBVIOUS
  <2>3. QED  BY <1>5, <2>1, <2>2, Zenon DEF TypeOK, BeginRefresh
<1>6. op[p].tok \in Tokens
  BY <1>1 DEF Ops
<1>7. QED  BY <1>2, <1>3, <1>4, <1>5, <1>6

\* The scan of the auto-unban task stays a set of accounts, empty iff it sleeps.
LEMMA CurrentType ==
    ASSUME TypeOK, unban.pc # "sleep"
    PROVE  Current(unban.todo) \in Tokens /\ Current(unban.todo) \in unban.todo
<1>1. unban.todo # {} /\ unban.todo \subseteq Tokens
  BY DEF TypeOK, Scans
<1>2. \E t \in unban.todo : TRUE
  BY <1>1
<1>3. Current(unban.todo) \in unban.todo
  BY <1>2 DEF Current
<1>4. QED  BY <1>1, <1>3

(***************************************************************************)
(* Type correctness.                                                       *)
(***************************************************************************)
LEMMA TypeInit == Init => TypeOK
<1> SUFFICES ASSUME Init PROVE TypeOK
  OBVIOUS
<1>1. NewRow(NoBan) \in Rows
  BY NewRowType
<1>2. Silence \in Histories
  BY DEF Silence, Histories
<1>3. QED
  <2>1. 0 \in 0..MaxCrashes
    BY BoundsAssumption
  <2>2. NoScan \in Scans /\ NoScan.pc = "sleep" /\ NoScan.todo = {}
    BY DEF NoScan, Scans
  <2>3. QED
    BY <1>1, <1>2, <2>1, <2>2, IdleType, FreshType DEF Init, TypeOK

LEMMA TypeStep == TypeOK /\ [Next]_vars => TypeOK'
<1> SUFFICES ASSUME TypeOK, [Next]_vars PROVE TypeOK'
  OBVIOUS
<1> USE DEF ElsewhereSame, RowOnly, NoWrite
<1>1. ASSUME NEW p \in Service, ServiceStep(p) PROVE TypeOK'
  <2> p \in Procs
    BY DEF Procs
  <2>1. ASSUME NEW t \in Tokens, ErrorCount(p, t) PROVE TypeOK'
    <3>1. [row[t] EXCEPT !.errors = @ + 1] \in Rows
      BY <2>1, BoundsAssumption DEF ErrorCount, TypeOK, Rows
    <3>2. QED  BY <2>1, <3>1, UpdateType, OpTypes DEF ErrorCount, TypeOK, Pcs
  <2>2. ASSUME NEW t \in Tokens, RefreshStart(p, t) PROVE TypeOK'
    BY <2>2, OpTypes DEF RefreshStart, BeginRefresh, TypeOK
  <2>3. ASSUME NEW t \in Tokens, SweepStart(p, t) PROVE TypeOK'
    BY <2>3, OpTypes DEF SweepStart, BeginRefresh, TypeOK
  <2>4. CASE ErrorRead(p)
    BY <2>4, OpTypes DEF ErrorRead, TypeOK, Pcs
  <2>5. CASE ErrorDisable(p)
    BY <2>5, OpTypes, StatementTypes DEF ErrorDisable, TypeOK, BanReasons, ProtectedReasons
  <2>6. CASE RefreshVerified(p)
    BY <2>6, OpTypes, SnapshotType DEF RefreshVerified, TypeOK
  <2>7. CASE RefreshFailed(p)
    <3>1. PICK verdict \in Verdicts :
            IF verdict = "transient" THEN UNCHANGED row ELSE MarkBan(op[p].tok, verdict)
      BY <2>7 DEF RefreshFailed
    <3>2. op' \in [Procs -> Ops]
      <4>1. AfterFailure(p) \in Pcs
        BY DEF AfterFailure, Pcs, RefreshPcs
      <4>2. QED  BY <2>7, <4>1, OpTypes DEF RefreshFailed
    <3>3. row' \in [Tokens -> Rows]
      BY <3>1, OpTypes, StatementTypes DEF Verdicts, BanReasons, AuthReasons, TypeOK
    <3>4. QED  BY <2>7, <3>2, <3>3 DEF RefreshFailed, TypeOK
  <2>8. CASE TryRefreshSt(p)
    BY <2>8, OpTypes, SnapshotType DEF TryRefreshSt, TypeOK, Pcs, RefreshPcs
  <2>9. CASE HandleFailure(p)
    BY <2>9, OpTypes DEF HandleFailure, TypeOK, Pcs, RefreshPcs
  <2>10. CASE DisableRevoked(p)
    BY <2>10, OpTypes, StatementTypes DEF DisableRevoked, TypeOK, BanReasons, AuthReasons
  <2>11. QED
    BY <1>1, <2>1, <2>2, <2>3, <2>4, <2>5, <2>6, <2>7, <2>8, <2>9, <2>10 DEF ServiceStep
<1>2. ASSUME NEW p \in Procs, EitherStep(p) PROVE TypeOK'
  <2>1. ASSUME NEW t \in Tokens, EnableStart(p, t) PROVE TypeOK'
    BY <2>1, OpTypes, StatementTypes DEF EnableStart, TypeOK, Pcs
  <2>2. CASE EnableClear(p)
    BY <2>2, OpTypes, StatementTypes DEF EnableClear, TypeOK, Pcs
  <2>3. CASE EnableReset(p)
    BY <2>3, OpTypes, StatementTypes DEF EnableReset, TypeOK
  <2>4. QED  BY <1>2, <2>1, <2>2, <2>3 DEF EitherStep
<1>3. ASSUME NEW p \in Tools, ToolStep(p) PROVE TypeOK'
  <2> p \in Procs
    BY DEF Procs
  <2>1. ASSUME NEW t \in Tokens, PublishSnapshot(p, t) PROVE TypeOK'
    BY <2>1, OpTypes, SnapshotType DEF PublishSnapshot, TypeOK, Pcs
  <2>2. CASE PublishDesiredState(p)
    <3>1. \A enabled \in BOOLEAN : Published(row[op[p].tok], enabled) \in Rows
      BY PublishedType, OpTypes DEF TypeOK
    <3>2. QED  BY <2>2, <3>1, OpTypes, UpdateType DEF PublishDesiredState, TypeOK
  <2>3. CASE ToolDies(p)
    BY <2>3, OpTypes, BoundsAssumption DEF ToolDies, TypeOK
  <2>4. QED  BY <1>3, <2>1, <2>2, <2>3 DEF ToolStep
<1>4. ASSUME NEW t \in Tokens, AccountStep(t) PROVE TypeOK'
  <2>1. CASE AddToken(t)
    BY <2>1, NewRowType
       DEF AddToken, TypeOK, InsertReasons, BanReasons, ProtectedReasons
  <2>2. CASE DeleteToken(t)
    BY <2>2, NewRowType, FreshType, IdleType
       DEF DeleteToken, TypeOK, Silence, Histories
  <2>3. CASE DisableToken(t)
    BY <2>3, StatementTypes DEF DisableToken, TypeOK, BanReasons, ProtectedReasons
  <2>4. CASE BanFor429(t)
    BY <2>4, StatementTypes DEF BanFor429, TypeOK, BanReasons, ProtectedReasons
  <2>5. CASE RecordSuccess(t)
    BY <2>5, StatementTypes DEF RecordSuccess, TypeOK
  <2>6. CASE BanAges(t)
    BY <2>6 DEF BanAges, TypeOK, Rows, Ages
  <2>7. ASSUME NEW allow \in BOOLEAN, Observe(t, allow) PROVE TypeOK'
    BY <2>7, SnapshotType DEF Observe, TypeOK
  <2>8. CASE AtExpires(t)
    BY <2>8 DEF AtExpires, TypeOK, Rows
  <2>9. QED
    BY <1>4, <2>1, <2>2, <2>3, <2>4, <2>5, <2>6, <2>7, <2>8 DEF AccountStep
<1>5. CASE UnbanStep
  <2>1. CASE UnbanScan
    BY <2>1 DEF UnbanScan, Unbannable, TypeOK, Scans
  <2>2. CASE UnbanActivate
    BY <2>2, CurrentType, StatementTypes DEF UnbanActivate, TypeOK, Scans
  <2>3. CASE UnbanClear
    BY <2>3, CurrentType, StatementTypes DEF UnbanClear, TypeOK, Scans
  <2>4. CASE UnbanReset
    <3>1. row' \in [Tokens -> Rows]
      BY <2>4, CurrentType, StatementTypes DEF UnbanReset
    <3>2. unban' \in Scans /\ (unban'.pc = "sleep" <=> unban'.todo = {})
      BY <2>4 DEF UnbanReset, NoScan, Scans, TypeOK
    <3>3. QED  BY <2>4, <3>1, <3>2 DEF UnbanReset, TypeOK
  <2>5. QED  BY <1>5, <2>1, <2>2, <2>3, <2>4 DEF UnbanStep
<1>6. CASE RestartService
  <2>1. \A t \in Tokens : Backfilled(row[t]) \in Rows
    BY DEF Backfilled, TypeOK, Rows, BanReasons, ProtectedReasons
  <2>2. row' \in [Tokens -> Rows]
    BY <1>6, <2>1 DEF RestartService, TypeOK
  <2>3. op' \in [Procs -> Ops]
    BY <1>6, IdleType DEF RestartService, TypeOK
  <2>4. crashes' \in 0..MaxCrashes
    BY <1>6, BoundsAssumption DEF RestartService, TypeOK
  <2>5. QED
    BY <1>6, <2>2, <2>3, <2>4 DEF RestartService, TypeOK, NoScan, Scans
<1>7. CASE UNCHANGED vars
  BY <1>7 DEF vars, TypeOK
<1>8. QED
  BY <1>1, <1>2, <1>3, <1>4, <1>5, <1>6, <1>7 DEF Next

\* Every reachable state is well typed: in particular the stored membership
\* fields always form a state the lifecycle code can read back.
THEOREM TypeCorrect == Spec => []TypeOK
BY TypeInit, TypeStep, PTL DEF Spec
-----------------------------------------------------------------------------
(***************************************************************************)
(* Membership.  Whatever the action, a row, its membership state and its   *)
(* history make one of four moves; the membership theorems follow from     *)
(* that and from what the pure operators do.                               *)
(***************************************************************************)
Observed(t) ==
    \E tier \in Tiers, allow \in BOOLEAN :
        LET after == TransitionLifecycle(member[t], ClassifyTier(tier))
        IN /\ \E fresh \in {row[t].fresh, TRUE} :
                row'[t] = [ResolvePoolState(row[t], member[t], after, allow)
                             EXCEPT !.fresh = fresh]
           /\ member'[t] = after
           /\ heard'[t] = Hear(heard[t], ClassifyTier(tier))

Same(t) == row'[t] = row[t] /\ member'[t] = member[t] /\ heard'[t] = heard[t]

Written(t) ==
    /\ member'[t] = member[t] /\ heard'[t] = heard[t]
    /\ Expired(row'[t]) => Expired(row[t])

Removed(t) ==
    /\ life'[t] = "deleted" /\ row'[t] = NewRow(NoBan)
    /\ member'[t] = Fresh("active") /\ heard'[t] = Silence

Move(t) == Same(t) \/ Observed(t) \/ Written(t) \/ Removed(t)

LEMMA SnapshotMove ==
    ASSUME TypeOK, NEW u \in Tokens, NEW tier \in Tiers, NEW allow \in BOOLEAN,
           ApplySnapshot(u, tier, allow), NEW t \in Tokens
    PROVE  Move(t)
<1>1. CASE t = u
  BY <1>1 DEF ApplySnapshot, TypeOK, Move, Observed
<1>2. CASE t # u
  BY <1>2 DEF ApplySnapshot, TypeOK, Move, Same
<1>3. QED  BY <1>1, <1>2

LEMMA UpdateMove ==
    ASSUME TypeOK, NEW u \in Tokens, NEW r, Update(u, r), RowOnly,
           Expired(r) => Expired(row[u]), NEW t \in Tokens
    PROVE  Move(t)
BY DEF Update, RowOnly, TypeOK, Move, Same, Written

LEMMA StatementMoves ==
    ASSUME TypeOK, NEW u \in Tokens, RowOnly, NEW t \in Tokens
    PROVE  /\ Activate(u) => Move(t)
           /\ ClearBan(u) => Move(t)
           /\ ResetErrors(u) => Move(t)
           /\ \A reason \in AuthReasons \cup ProtectedReasons :
                Disable(u, reason) \/ MarkBan(u, reason) => Move(t)
<1> row[u] \in Rows
  BY DEF TypeOK
<1>1. ~Expired([row[u] EXCEPT !.active = TRUE])
  BY DEF Rows, Expired
<1>2. ~Expired([row[u] EXCEPT !.ban = NoBan, !.bannedAt = "never"])
  BY DEF Rows, Expired, NoBan
<1>3. Expired([row[u] EXCEPT !.errors = 0]) => Expired(row[u])
  BY DEF Rows, Expired
<1>4. \A reason \in AuthReasons \cup ProtectedReasons :
        /\ ~Expired([row[u] EXCEPT !.active = FALSE, !.ban = reason, !.bannedAt = "recent"])
        /\ ~Expired([row[u] EXCEPT !.ban = reason])
  BY DEF Rows, Expired, AuthReasons, ProtectedReasons
<1>5. QED
  BY <1>1, <1>2, <1>3, <1>4, UpdateMove
     DEF Activate, ClearBan, ResetErrors, Disable, MarkBan

LEMMA EveryMove ==
    ASSUME TypeOK, [Next]_vars, NEW t \in Tokens
    PROVE  Move(t)
<1>1. ASSUME NEW p \in Service, ServiceStep(p) PROVE Move(t)
  <2> p \in Procs
    BY DEF Procs
  <2>1. ASSUME NEW u \in Tokens, ErrorCount(p, u) PROVE Move(t)
    <3>1. Expired([row[u] EXCEPT !.errors = @ + 1]) => Expired(row[u])
      BY DEF Expired, TypeOK, Rows
    <3>2. QED  BY <2>1, <3>1, UpdateMove DEF ErrorCount
  <2>2. ASSUME NEW u \in Tokens, RefreshStart(p, u) \/ SweepStart(p, u) PROVE Move(t)
    BY <2>2 DEF RefreshStart, SweepStart, BeginRefresh, NoWrite, Move, Same
  <2>3. CASE ErrorRead(p) \/ HandleFailure(p)
    BY <2>3 DEF ErrorRead, HandleFailure, NoWrite, Move, Same
  <2>4. CASE ErrorDisable(p)
    BY <2>4, OpTypes, StatementMoves DEF ErrorDisable, ProtectedReasons
  <2>5. CASE RefreshVerified(p)
    BY <2>5, OpTypes, SnapshotMove DEF RefreshVerified
  <2>6. CASE RefreshFailed(p)
    BY <2>6, OpTypes, StatementMoves
       DEF RefreshFailed, Verdicts, AuthReasons, RowOnly, Move, Same
  <2>7. CASE TryRefreshSt(p)
    BY <2>7, OpTypes, SnapshotMove DEF TryRefreshSt, NoWrite, Move, Same
  <2>8. CASE DisableRevoked(p)
    BY <2>8, OpTypes, StatementMoves DEF DisableRevoked, AuthReasons
  <2>9. QED
    BY <1>1, <2>1, <2>2, <2>3, <2>4, <2>5, <2>6, <2>7, <2>8 DEF ServiceStep
<1>2. ASSUME NEW p \in Procs, EitherStep(p) PROVE Move(t)
  BY <1>2, OpTypes, StatementMoves DEF EitherStep, EnableStart, EnableClear, EnableReset
<1>3. ASSUME NEW p \in Tools, ToolStep(p) PROVE Move(t)
  <2> p \in Procs
    BY DEF Procs
  <2>1. ASSUME NEW u \in Tokens, PublishSnapshot(p, u) PROVE Move(t)
    BY <2>1, SnapshotMove DEF PublishSnapshot
  <2>2. CASE PublishDesiredState(p)
    <3>1. \A r \in Rows, enabled \in BOOLEAN :
            Expired(Published(r, enabled)) => Expired(r)
      BY DEF Published, Expired, Rows, NoBan
    <3>2. row[op[p].tok] \in Rows
      BY OpTypes DEF TypeOK
    <3>3. QED  BY <2>2, <3>1, <3>2, OpTypes, UpdateMove DEF PublishDesiredState
  <2>3. CASE ToolDies(p)
    BY <2>3 DEF ToolDies, NoWrite, Move, Same
  <2>4. QED  BY <1>3, <2>1, <2>2, <2>3 DEF ToolStep
<1>4. ASSUME NEW u \in Tokens, AccountStep(u) PROVE Move(t)
  <2>1. CASE AddToken(u)
    <3>1. \A reason \in InsertReasons : ~Expired(NewRow(reason))
      BY DEF InsertReasons, Expired, NewRow, NoBan
    <3>2. QED  BY <2>1, <3>1 DEF AddToken, RowOnly, TypeOK, Move, Same, Written
  <2>2. CASE DeleteToken(u)
    BY <2>2 DEF DeleteToken, TypeOK, Move, Same, Removed
  <2>3. CASE DisableToken(u) \/ BanFor429(u) \/ RecordSuccess(u)
    BY <2>3, StatementMoves DEF DisableToken, BanFor429, RecordSuccess, ProtectedReasons
  <2>4. CASE BanAges(u)
    BY <2>4 DEF BanAges, RowOnly, TypeOK, Rows, Expired, Move, Same, Written
  <2>5. ASSUME NEW allow \in BOOLEAN, Observe(u, allow) PROVE Move(t)
    BY <2>5, SnapshotMove DEF Observe
  <2>6. CASE AtExpires(u)
    BY <2>6 DEF AtExpires, RowOnly, TypeOK, Rows, Expired, Move, Same, Written
  <2>7. QED  BY <1>4, <2>1, <2>2, <2>3, <2>4, <2>5, <2>6 DEF AccountStep
<1>5. CASE UnbanStep
  <2>1. CASE UnbanScan
    BY <2>1 DEF UnbanScan, NoWrite, Move, Same
  <2>2. CASE UnbanActivate \/ UnbanClear \/ UnbanReset
    BY <2>2, CurrentType, StatementMoves DEF UnbanActivate, UnbanClear, UnbanReset
  <2>3. QED  BY <1>5, <2>1, <2>2 DEF UnbanStep
<1>6. CASE RestartService
  <2>1. \A r \in Rows : Expired(Backfilled(r)) => Expired(r)
    BY DEF Backfilled, Expired, Rows
  <2>2. QED  BY <1>6, <2>1 DEF RestartService, RowOnly, TypeOK, Move, Written
<1>7. CASE UNCHANGED vars
  BY <1>7 DEF vars, Move, Same
<1>8. QED
  BY <1>1, <1>2, <1>3, <1>4, <1>5, <1>6, <1>7 DEF Next
\* A row is out of the pool for an expired membership after an observation only
\* if the observation leaves, or has just made, the member retired.
LEMMA ResolveExpired ==
    ASSUME NEW r \in Rows, NEW b \in MembershipStates, NEW a \in MembershipStates,
           NEW allow \in BOOLEAN,
           Expired(r) => b.status = "retired",
           Expired(ResolvePoolState(r, b, a, allow))
    PROVE  a.status = "retired"
<1>1. b.status \in {"active", "retired"} /\ a.status \in {"active", "retired"}
  BY DEF MembershipStates
<1>2. Expired(AuthRecovered(r, allow)) <=> Expired(r)
  BY DEF AuthRecovered, Expired, Rows, AuthReasons, NoBan
<1>3. AuthRecovered(r, allow) \in Rows
  BY DEF AuthRecovered, Rows, Ages, NoBan
<1>4. QED
  BY <1>1, <1>2, <1>3 DEF ResolvePoolState, Expired, Rows, NoBan

LEMMA ExpiredInit == Init => ExpiredImpliesRetired
BY DEF Init, ExpiredImpliesRetired, Expired, NewRow, NoBan

LEMMA ExpiredStep ==
    TypeOK /\ ExpiredImpliesRetired /\ [Next]_vars => ExpiredImpliesRetired'
<1> SUFFICES ASSUME TypeOK, ExpiredImpliesRetired, [Next]_vars,
                    NEW t \in Tokens, Expired(row'[t])
             PROVE  member'[t].status = "retired"
  BY DEF ExpiredImpliesRetired, Expired
<1>1. Move(t)
  BY EveryMove
<1>2. Expired(row[t]) => member[t].status = "retired"
  BY DEF ExpiredImpliesRetired
<1>3. CASE Same(t) \/ Written(t)
  BY <1>2, <1>3 DEF Same, Written
<1>4. CASE Observed(t)
  <2>1. PICK tier \in Tiers, allow \in BOOLEAN :
          /\ \E fresh \in {row[t].fresh, TRUE} :
               row'[t] = [ResolvePoolState(row[t], member[t],
                            TransitionLifecycle(member[t], ClassifyTier(tier)), allow)
                              EXCEPT !.fresh = fresh]
          /\ member'[t] = TransitionLifecycle(member[t], ClassifyTier(tier))
    BY <1>4 DEF Observed
  <2>2. member[t] \in MembershipStates /\ member'[t] \in MembershipStates /\ row[t] \in Rows
    BY <2>1, ClassifyType, TransitionType DEF TypeOK
  <2>3. ResolvePoolState(row[t], member[t], member'[t], allow) \in Rows
    BY <2>2, ResolveType
  <2>4. Expired(ResolvePoolState(row[t], member[t], member'[t], allow))
    BY <2>1, <2>3 DEF Expired, Rows
  <2>5. QED  BY <1>2, <2>2, <2>4, ResolveExpired
<1>5. CASE Removed(t)
  BY <1>5 DEF Removed, Expired, NewRow, NoBan
<1>6. QED  BY <1>1, <1>3, <1>4, <1>5 DEF Move

\* ExpiredImpliesRetired in every reachable state: no interleaving of operators,
\* error counting, refreshes, the auto-unban task, restarts and observations
\* strands an account out of the pool for an expiry that no longer holds.
THEOREM ExpiredOnlyWhileRetired == Spec => []ExpiredImpliesRetired
BY TypeInit, TypeStep, ExpiredInit, ExpiredStep, PTL DEF Spec

LEMMA CandidateInit == Init => CandidateIsLastHeard
BY DEF Init, CandidateIsLastHeard, Fresh

\* A pending candidate is what was heard; a flip needs the candidate and one more.
LEMMA TransitionCandidate ==
    ASSUME NEW m \in MembershipStates, NEW c \in Classes \cup {"unknown"}
    PROVE  LET after == TransitionLifecycle(m, c)
           IN /\ after.candidate # "unknown" =>
                    \/ c = "unknown" /\ after = m
                    \/ after.candidate = c
              /\ after.status # m.status =>
                    c # "unknown" /\ m.candidate = c /\ after.status = StatusOf(c)
BY DEF MembershipStates, TransitionLifecycle, Classes, Fresh, StatusOf, OpposingClass,
       RequiredConsecutiveObservations

LEMMA CandidateStep ==
    TypeOK /\ CandidateIsLastHeard /\ [Next]_vars => CandidateIsLastHeard'
<1> SUFFICES ASSUME TypeOK, CandidateIsLastHeard, [Next]_vars,
                    NEW t \in Tokens, member'[t].candidate # "unknown"
             PROVE  heard'[t].newer = member'[t].candidate
  BY DEF CandidateIsLastHeard, LastHeard
<1>1. Move(t)
  BY EveryMove
<1>2. member[t].candidate # "unknown" => heard[t].newer = member[t].candidate
  BY DEF CandidateIsLastHeard, LastHeard
<1>3. CASE Same(t) \/ Written(t)
  BY <1>2, <1>3 DEF Same, Written
<1>4. CASE Observed(t)
  <2>1. PICK tier \in Tiers :
          /\ member'[t] = TransitionLifecycle(member[t], ClassifyTier(tier))
          /\ heard'[t] = Hear(heard[t], ClassifyTier(tier))
    BY <1>4 DEF Observed
  <2>2. ClassifyTier(tier) \in Classes \cup {"unknown"} /\ member[t] \in MembershipStates
    BY ClassifyType DEF TypeOK
  <2>3. QED  BY <1>2, <2>1, <2>2, TransitionCandidate DEF Hear
<1>5. CASE Removed(t)
  BY <1>5 DEF Removed, Fresh
<1>6. QED  BY <1>1, <1>3, <1>4, <1>5 DEF Move

LEMMA FlipStep ==
    ASSUME TypeOK, CandidateIsLastHeard, [Next]_vars, NEW t \in Tokens,
           life'[t] = "live", member'[t].status # member[t].status
    PROVE  /\ heard'[t].older = heard'[t].newer
           /\ heard'[t].newer \in Classes
           /\ member'[t].status = StatusOf(heard'[t].newer)
<1>1. Move(t)
  BY EveryMove
<1>2. Observed(t)
  BY <1>1 DEF Move, Same, Written, Removed
<1>3. PICK tier \in Tiers :
        /\ member'[t] = TransitionLifecycle(member[t], ClassifyTier(tier))
        /\ heard'[t] = Hear(heard[t], ClassifyTier(tier))
  BY <1>2 DEF Observed
<1>4. ClassifyTier(tier) \in Classes \cup {"unknown"} /\ member[t] \in MembershipStates
  BY ClassifyType DEF TypeOK
<1>5. member[t].candidate # "unknown" => heard[t].newer = member[t].candidate
  BY DEF CandidateIsLastHeard, LastHeard
<1>6. QED  BY <1>3, <1>4, <1>5, TransitionCandidate DEF Hear

\* FlipNeedsTwoInARow for every behaviour: one answer from Google, however the
\* writers interleave, never moves an account across the membership boundary.
THEOREM FlipsAreDebounced == Spec => FlipNeedsTwoInARow
<1>1. TypeOK /\ CandidateIsLastHeard /\ [Next]_vars =>
        [\A t \in Tokens : life'[t] = "live" /\ member'[t].status # member[t].status =>
            /\ heard'[t].older = heard'[t].newer
            /\ heard'[t].newer \in Classes
            /\ member'[t].status = StatusOf(heard'[t].newer)]_vars
  BY FlipStep
<1>2. QED
  BY <1>1, TypeInit, TypeStep, CandidateInit, CandidateStep, PTL
     DEF Spec, FlipNeedsTwoInARow

\* CandidateIsLastHeard in every reachable state.
THEOREM CandidatesAreHeard == Spec => []CandidateIsLastHeard
BY TypeInit, TypeStep, CandidateInit, CandidateStep, PTL DEF Spec
-----------------------------------------------------------------------------
(***************************************************************************)
(* Half-enabled rows.  The strengthening: a row that does not exist is the *)
(* empty row, so a pending ClearBan on a deleted account has nothing left  *)
(* to clear.  A step is Quiet for t if it neither half-enables the row nor *)
(* ends the enable or unban that is about to clear it.                     *)
(***************************************************************************)
AbsentRowsEmpty == \A t \in Tokens : life[t] # "live" => row[t] = NewRow(NoBan)

NoNewHalf(t) == HalfEnabled(row'[t]) => HalfEnabled(row[t])

Quiet(t) == NoNewHalf(t) /\ (InFlightClear(t) => InFlightClear(t)')

LEMMA UpdateKeepsHalf ==
    ASSUME TypeOK, NEW u \in Tokens, NEW r, Update(u, r),
           HalfEnabled(r) => HalfEnabled(row[u]), NEW t \in Tokens
    PROVE  NoNewHalf(t)
BY DEF Update, TypeOK, NoNewHalf

\* Of the statements, only setting is_active can half-enable a row.
LEMMA StatementsKeepHalf ==
    ASSUME TypeOK, NEW u \in Tokens, NEW t \in Tokens
    PROVE  /\ ClearBan(u) => NoNewHalf(t)
           /\ ResetErrors(u) => NoNewHalf(t)
           /\ \A reason \in BanReasons : Disable(u, reason) => NoNewHalf(t)
           /\ \A reason \in AuthReasons : MarkBan(u, reason) => NoNewHalf(t)
<1> row[u] \in Rows
  BY DEF TypeOK
<1>1. ~HalfEnabled([row[u] EXCEPT !.ban = NoBan, !.bannedAt = "never"])
  BY DEF Rows, HalfEnabled
<1>2. HalfEnabled([row[u] EXCEPT !.errors = 0]) => HalfEnabled(row[u])
  BY DEF Rows, HalfEnabled
<1>3. \A reason \in BanReasons :
        ~HalfEnabled([row[u] EXCEPT !.active = FALSE, !.ban = reason, !.bannedAt = "recent"])
  BY DEF Rows, HalfEnabled
<1>4. \A reason \in AuthReasons : ~HalfEnabled([row[u] EXCEPT !.ban = reason])
  BY DEF Rows, HalfEnabled
<1>5. QED
  BY <1>1, <1>2, <1>3, <1>4, UpdateKeepsHalf DEF ClearBan, ResetErrors, Disable, MarkBan

LEMMA SnapshotKeepsHalf ==
    ASSUME TypeOK, NEW u \in Tokens, NEW tier \in Tiers, NEW allow \in BOOLEAN,
           ApplySnapshot(u, tier, allow), NEW t \in Tokens
    PROVE  NoNewHalf(t)
<1>1. \A r \in Rows : \A b, a :
        HalfEnabled(ResolvePoolState(r, b, a, allow)) => HalfEnabled(r)
  BY DEF HalfEnabled, ResolvePoolState, AuthRecovered, Rows, NoBan, AuthReasons
<1>2. \A r \in Rows, fresh \in BOOLEAN :
        HalfEnabled([r EXCEPT !.fresh = fresh]) <=> HalfEnabled(r)
  BY DEF HalfEnabled, Rows
<1> DEFINE a == TransitionLifecycle(member[u], ClassifyTier(tier))
<1>3. PICK fresh \in {row[u].fresh, TRUE} :
        row' = [row EXCEPT ![u] = [ResolvePoolState(row[u], member[u], a, allow)
                                     EXCEPT !.fresh = fresh]]
  BY DEF ApplySnapshot
<1>4. row[u] \in Rows /\ row[u].fresh \in BOOLEAN
      /\ ResolvePoolState(row[u], member[u], a, allow) \in Rows
  BY ResolveType DEF TypeOK, Rows
<1> HIDE DEF a
<1>5. QED
  BY <1>1, <1>2, <1>3, <1>4 DEF TypeOK, NoNewHalf

\* A process that is not about to clear may move without disturbing the others.
LEMMA OthersInFlight ==
    ASSUME NEW p \in Procs, op[p].pc # "enable_clear", UNCHANGED unban,
           \A q \in Procs \ {p} : op'[q] = op[q], NEW t \in Tokens
    PROVE  InFlightClear(t) => InFlightClear(t)'
BY DEF InFlightClear

LEMMA OpMoves ==
    ASSUME TypeOK, NEW p \in Procs
    PROVE  /\ \A pc : Goto(p, pc) => \A q \in Procs \ {p} : op'[q] = op[q]
           /\ Done(p) => \A q \in Procs \ {p} : op'[q] = op[q]
           /\ \A t, pc : Start(p, t, pc) =>
                 op[p].pc = "idle" /\ \A q \in Procs \ {p} : op'[q] = op[q]
           /\ \A t, lock : BeginRefresh(p, t, lock) =>
                 op[p].pc = "idle" /\ \A q \in Procs \ {p} : op'[q] = op[q]
<1>1. \A pc : Goto(p, pc) => \A q \in Procs \ {p} : op'[q] = op[q]
  BY DEF TypeOK, Goto
<1>2. Done(p) => \A q \in Procs \ {p} : op'[q] = op[q]
  BY DEF TypeOK, Done
<1>3. Idle.pc = "idle"
  BY DEF Idle
<1>4. ASSUME NEW t, NEW pc, Start(p, t, pc)
      PROVE  op[p].pc = "idle" /\ \A q \in Procs \ {p} : op'[q] = op[q]
  BY <1>3, <1>4 DEF TypeOK, Start
<1>5. ASSUME NEW t, NEW lock, BeginRefresh(p, t, lock)
      PROVE  op[p].pc = "idle" /\ \A q \in Procs \ {p} : op'[q] = op[q]
  BY <1>3, <1>5 DEF TypeOK, BeginRefresh
<1>6. QED  BY <1>1, <1>2, <1>4, <1>5

LEMMA HalfStep ==
    ASSUME TypeOK, AbsentRowsEmpty, HalfEnabledInFlight, [Next]_vars, crashes' = 0
    PROVE  HalfEnabledInFlight'
<1> SUFFICES ASSUME NEW t \in Tokens, HalfEnabled(row'[t]) PROVE InFlightClear(t)'
  BY DEF HalfEnabledInFlight, HalfEnabled
<1>1. crashes = 0 \/ RestartService
  <2>1. crashes \in Nat
    BY BoundsAssumption DEF TypeOK
  <2>2. CASE crashes' = crashes
    BY <2>2
  <2>3. CASE \E p \in Procs : ToolDies(p)
    BY <2>1, <2>3 DEF ToolDies
  <2>4. QED
    BY <2>2, <2>3 DEF Next, vars, ServiceStep, EitherStep, ToolStep, AccountStep, UnbanStep,
         ErrorCount, RefreshStart, SweepStart, BeginRefresh, ErrorRead, ErrorDisable,
         RefreshVerified, RefreshFailed, TryRefreshSt, HandleFailure, DisableRevoked,
         EnableStart, EnableClear, EnableReset, PublishSnapshot, PublishDesiredState,
         AddToken, DeleteToken, DisableToken, BanFor429, RecordSuccess, BanAges, Observe,
         UnbanScan, UnbanActivate, UnbanClear, UnbanReset, ElsewhereSame, Procs,
         AtExpires
<1>2. CASE RestartService
  BY <1>2, BoundsAssumption DEF RestartService, TypeOK
<1>3. SUFFICES ASSUME crashes = 0, ~RestartService PROVE InFlightClear(t)'
  BY <1>1, <1>2
<1>4. HalfEnabled(row[t]) => InFlightClear(t)
  BY <1>3 DEF HalfEnabledInFlight
<1>5. Quiet(t) => InFlightClear(t)'
  BY <1>4 DEF Quiet, NoNewHalf
<1> USE DEF ElsewhereSame, RowOnly, NoWrite
<1>6. ASSUME NEW p \in Service, ServiceStep(p) PROVE Quiet(t)
  <2> p \in Procs
    BY DEF Procs
  <2>1. ASSUME op[p].pc # "enable_clear", UNCHANGED unban,
               \A q \in Procs \ {p} : op'[q] = op[q], NoNewHalf(t)
        PROVE  Quiet(t)
    BY <2>1, OthersInFlight DEF Quiet
  <2>2. ASSUME NEW u \in Tokens, ErrorCount(p, u) PROVE Quiet(t)
    <3>1. HalfEnabled([row[u] EXCEPT !.errors = @ + 1]) => HalfEnabled(row[u])
      BY DEF HalfEnabled, TypeOK, Rows
    <3>2. QED  BY <2>1, <2>2, <3>1, UpdateKeepsHalf, OpMoves DEF ErrorCount
  <2>3. ASSUME NEW u \in Tokens, RefreshStart(p, u) \/ SweepStart(p, u) PROVE Quiet(t)
    <3>1. UNCHANGED <<row, unban>>
      BY <2>3 DEF RefreshStart, SweepStart, BeginRefresh
    <3>2. op[p].pc = "idle" /\ \A q \in Procs \ {p} : op'[q] = op[q]
      BY <2>3, OpMoves DEF RefreshStart, SweepStart
    <3>3. QED  BY <2>1, <3>1, <3>2 DEF NoNewHalf
  <2>4. CASE ErrorRead(p)
    <3>1. UNCHANGED <<row, unban>> /\ op[p].pc # "enable_clear"
      BY <2>4 DEF ErrorRead, Busy
    <3>2. \A q \in Procs \ {p} : op'[q] = op[q]
      BY <2>4, OpMoves DEF ErrorRead
    <3>3. QED  BY <2>1, <3>1, <3>2 DEF NoNewHalf
  <2>5. CASE ErrorDisable(p)
    BY <2>1, <2>5, OpTypes, OpMoves, StatementsKeepHalf
       DEF ErrorDisable, Busy, BanReasons, ProtectedReasons
  <2>6. CASE RefreshVerified(p)
    BY <2>1, <2>6, OpTypes, OpMoves, SnapshotKeepsHalf DEF RefreshVerified, Inspecting
  <2>7. CASE RefreshFailed(p)
    <3>1. UNCHANGED unban /\ op[p].pc # "enable_clear"
      BY <2>7 DEF RefreshFailed, Inspecting
    <3>2. \A q \in Procs \ {p} : op'[q] = op[q]
      BY <2>7, OpMoves DEF RefreshFailed
    <3>3. NoNewHalf(t)
      BY <2>7, OpTypes, StatementsKeepHalf DEF RefreshFailed, Verdicts, AuthReasons, NoNewHalf
    <3>4. QED  BY <2>1, <3>1, <3>2, <3>3
  <2>8. CASE TryRefreshSt(p)
    <3>1. NoNewHalf(t)
      BY <2>8, OpTypes, SnapshotKeepsHalf DEF TryRefreshSt, NoNewHalf
    <3>2. QED  BY <2>1, <2>8, <3>1, OpMoves DEF TryRefreshSt, Busy
  <2>9. CASE HandleFailure(p)
    <3>1. UNCHANGED <<row, unban>> /\ op[p].pc # "enable_clear"
      BY <2>9 DEF HandleFailure, Busy
    <3>2. \A q \in Procs \ {p} : op'[q] = op[q]
      BY <2>9, OpMoves DEF HandleFailure
    <3>3. QED  BY <2>1, <3>1, <3>2 DEF NoNewHalf
  <2>10. CASE DisableRevoked(p)
    BY <2>1, <2>10, OpTypes, OpMoves, StatementsKeepHalf
       DEF DisableRevoked, Busy, BanReasons, AuthReasons
  <2>11. QED
    BY <1>6, <2>2, <2>3, <2>4, <2>5, <2>6, <2>7, <2>8, <2>9, <2>10 DEF ServiceStep
<1>7. ASSUME NEW p \in Procs, EitherStep(p) PROVE InFlightClear(t)'
  <2>1. ASSUME NEW u \in Tokens, EnableStart(p, u) PROVE InFlightClear(t)'
    <3>1. CASE t = u
      BY <2>1, <3>1 DEF EnableStart, Start, InFlightClear, TypeOK
    <3>2. CASE t # u
      <4>1. row'[t] = row[t]
        BY <2>1, <3>2 DEF EnableStart, Activate, Update, TypeOK
      <4>2. op[p].pc # "enable_clear" /\ \A q \in Procs \ {p} : op'[q] = op[q]
        BY <2>1, OpMoves DEF EnableStart
      <4>3. QED  BY <1>5, <2>1, <4>1, <4>2, OthersInFlight DEF EnableStart, Quiet, NoNewHalf
    <3>3. QED  BY <3>1, <3>2
  <2>2. CASE EnableClear(p)
    <3>1. op[p].tok \in Tokens
      BY OpTypes
    <3>2. CASE t = op[p].tok
      <4>1. ~HalfEnabled(row'[t])
        BY <2>2, <3>2 DEF EnableClear, ClearBan, Update, AbsentRowsEmpty, HalfEnabled,
              NewRow, TypeOK, Rows
      <4>2. QED  BY <4>1
    <3>3. CASE t # op[p].tok
      <4>1. row'[t] = row[t]
        BY <2>2, <3>1, <3>3 DEF EnableClear, ClearBan, Update, TypeOK
      <4>2. InFlightClear(t) => InFlightClear(t)'
        BY <2>2, <3>3, OpMoves DEF EnableClear, InFlightClear
      <4>3. QED  BY <1>5, <4>1, <4>2 DEF Quiet, NoNewHalf
    <3>4. QED  BY <3>2, <3>3
  <2>3. CASE EnableReset(p)
    <3>1. NoNewHalf(t)
      BY <2>3, OpTypes, StatementsKeepHalf DEF EnableReset
    <3>2. QED
      BY <1>5, <2>3, <3>1, OpMoves, OthersInFlight DEF EnableReset, Busy, Quiet
  <2>4. QED  BY <1>7, <2>1, <2>2, <2>3 DEF EitherStep
<1>8. ASSUME NEW p \in Tools, ToolStep(p) PROVE Quiet(t)
  <2> p \in Procs
    BY DEF Procs
  <2>1. ASSUME NEW u \in Tokens, PublishSnapshot(p, u) PROVE Quiet(t)
    BY <2>1, OpMoves, SnapshotKeepsHalf, OthersInFlight DEF PublishSnapshot, Quiet
  <2>2. CASE PublishDesiredState(p)
    <3>1. \A r \in Rows, enabled \in BOOLEAN :
            HalfEnabled(Published(r, enabled)) => HalfEnabled(r)
      BY DEF Published, HalfEnabled, Rows, NoBan, AuthReasons
    <3>2. row[op[p].tok] \in Rows /\ op[p].tok \in Tokens
      BY OpTypes DEF TypeOK
    <3>3. NoNewHalf(t)
      BY <2>2, <3>1, <3>2, UpdateKeepsHalf DEF PublishDesiredState
    <3>4. QED
      BY <2>2, <3>3, OpMoves, OthersInFlight DEF PublishDesiredState, Busy, Quiet
  <2>3. CASE ToolDies(p)
    BY <2>3, <1>3 DEF ToolDies
  <2>4. QED  BY <1>8, <2>1, <2>2, <2>3 DEF ToolStep
<1>9. ASSUME NEW u \in Tokens, AccountStep(u) PROVE Quiet(t)
  <2>1. CASE AddToken(u)
    <3>1. \A reason \in InsertReasons : ~HalfEnabled(NewRow(reason))
      BY DEF InsertReasons, HalfEnabled, NewRow, NoBan
    <3>2. QED  BY <2>1, <3>1 DEF AddToken, TypeOK, Quiet, NoNewHalf, InFlightClear
  <2>2. CASE DeleteToken(u)
    <3>1. NoNewHalf(t)
      BY <2>2 DEF DeleteToken, TypeOK, NoNewHalf, HalfEnabled, NewRow, NoBan
    <3>2. \A q \in Procs : op[q].pc = "enable_clear" => op'[q] = op[q]
      BY <2>2 DEF DeleteToken, RefreshPcs
    <3>3. QED  BY <2>2, <3>1, <3>2 DEF DeleteToken, Quiet, InFlightClear
  <2>3. CASE DisableToken(u) \/ BanFor429(u) \/ RecordSuccess(u)
    <3>1. NoNewHalf(t)
      BY <2>3, StatementsKeepHalf
         DEF DisableToken, BanFor429, RecordSuccess, BanReasons, ProtectedReasons
    <3>2. QED
      BY <2>3, <3>1 DEF DisableToken, BanFor429, RecordSuccess, Quiet, InFlightClear
  <2>4. CASE BanAges(u)
    BY <2>4 DEF BanAges, TypeOK, Rows, Quiet, NoNewHalf, HalfEnabled, InFlightClear
  <2>5. ASSUME NEW allow \in BOOLEAN, Observe(u, allow) PROVE Quiet(t)
    BY <2>5, SnapshotKeepsHalf DEF Observe, Quiet, InFlightClear
  <2>6. CASE AtExpires(u)
    BY <2>6 DEF AtExpires, TypeOK, Rows, Quiet, NoNewHalf, HalfEnabled, InFlightClear
  <2>7. QED  BY <1>9, <2>1, <2>2, <2>3, <2>4, <2>5, <2>6 DEF AccountStep
<1>10. CASE UnbanStep
  <2>1. CASE UnbanScan
    BY <1>5, <2>1 DEF UnbanScan, Quiet, NoNewHalf, InFlightClear
  <2>2. CASE UnbanActivate
    <3>1. CASE t = Current(unban.todo)
      BY <2>2, <3>1 DEF UnbanActivate, InFlightClear, TypeOK, Scans
    <3>2. CASE t # Current(unban.todo)
      <4>1. row'[t] = row[t]
        BY <2>2, <3>2, CurrentType DEF UnbanActivate, Activate, Update, TypeOK
      <4>2. InFlightClear(t) => InFlightClear(t)'
        BY <2>2 DEF UnbanActivate, InFlightClear
      <4>3. QED  BY <1>5, <4>1, <4>2 DEF Quiet, NoNewHalf
    <3>3. QED  BY <3>1, <3>2
  <2>3. CASE UnbanClear
    <3>1. CASE t = Current(unban.todo)
      <4>1. ~HalfEnabled(row'[t])
        BY <2>3, <3>1 DEF UnbanClear, ClearBan, Update, AbsentRowsEmpty, HalfEnabled,
              NewRow, TypeOK, Rows
      <4>2. QED  BY <4>1
    <3>2. CASE t # Current(unban.todo)
      <4>1. row'[t] = row[t]
        BY <2>3, <3>2, CurrentType DEF UnbanClear, ClearBan, Update, TypeOK
      <4>2. InFlightClear(t) => InFlightClear(t)'
        BY <2>3, <3>2 DEF UnbanClear, InFlightClear
      <4>3. QED  BY <1>5, <4>1, <4>2 DEF Quiet, NoNewHalf
    <3>3. QED  BY <3>1, <3>2
  <2>4. CASE UnbanReset
    <3>1. NoNewHalf(t)
      BY <2>4, CurrentType, StatementsKeepHalf DEF UnbanReset
    <3>2. InFlightClear(t) => InFlightClear(t)'
      BY <2>4 DEF UnbanReset, InFlightClear
    <3>3. QED  BY <1>5, <3>1, <3>2 DEF Quiet
  <2>5. QED  BY <1>10, <2>1, <2>2, <2>3, <2>4 DEF UnbanStep
<1>11. CASE UNCHANGED vars
  BY <1>5, <1>11 DEF vars, Quiet, NoNewHalf, InFlightClear
<1>12. QED
  BY <1>3, <1>5, <1>6, <1>7, <1>8, <1>9, <1>10, <1>11 DEF Next
LEMMA AbsentInit == Init => AbsentRowsEmpty /\ HalfEnabledInFlight
BY DEF Init, AbsentRowsEmpty, HalfEnabledInFlight, HalfEnabled, NewRow, NoBan

LEMMA AbsentStep ==
    ASSUME TypeOK, AbsentRowsEmpty, [Next]_vars
    PROVE  AbsentRowsEmpty'
<1> SUFFICES ASSUME NEW t \in Tokens, life'[t] # "live" PROVE row'[t] = NewRow(NoBan)
  BY DEF AbsentRowsEmpty
<1>1. ASSUME life'[t] = life[t], row'[t] = row[t] PROVE row'[t] = NewRow(NoBan)
  BY <1>1 DEF AbsentRowsEmpty
<1>2. ASSUME NEW u \in Tokens, NEW r, Update(u, r), UNCHANGED life
      PROVE  row'[t] = NewRow(NoBan)
  BY <1>2, <1>1 DEF Update, TypeOK
<1>3. ASSUME NEW u \in Tokens, NEW tier, NEW allow, life[u] = "live",
             ApplySnapshot(u, tier, allow), UNCHANGED life
      PROVE  row'[t] = NewRow(NoBan)
  BY <1>3, <1>1 DEF ApplySnapshot, TypeOK
<1> USE DEF ElsewhereSame, RowOnly, NoWrite, Activate, ClearBan, ResetErrors, Disable, MarkBan
<1>4. ASSUME NEW p \in Service, ServiceStep(p) PROVE row'[t] = NewRow(NoBan)
  <2> op[p].tok \in Tokens
    BY OpTypes DEF Procs
  <2>1. ASSUME NEW u \in Tokens, ErrorCount(p, u) PROVE row'[t] = NewRow(NoBan)
    BY <1>2, <2>1 DEF ErrorCount
  <2>2. ASSUME NEW u \in Tokens, RefreshStart(p, u) \/ SweepStart(p, u)
        PROVE  row'[t] = NewRow(NoBan)
    BY <1>1, <2>2 DEF RefreshStart, SweepStart, BeginRefresh
  <2>3. CASE ErrorRead(p) \/ HandleFailure(p)
    BY <1>1, <2>3 DEF ErrorRead, HandleFailure
  <2>4. CASE ErrorDisable(p) \/ DisableRevoked(p)
    BY <1>2, <2>4 DEF ErrorDisable, DisableRevoked
  <2>5. CASE RefreshVerified(p)
    BY <1>3, <2>5 DEF RefreshVerified
  <2>6. CASE RefreshFailed(p)
    BY <1>1, <1>2, <2>6 DEF RefreshFailed
  <2>7. CASE TryRefreshSt(p)
    BY <1>1, <1>3, <2>7 DEF TryRefreshSt
  <2>8. QED  BY <1>4, <2>1, <2>2, <2>3, <2>4, <2>5, <2>6, <2>7 DEF ServiceStep
<1>5. ASSUME NEW p \in Procs, EitherStep(p) PROVE row'[t] = NewRow(NoBan)
  BY <1>2, <1>5, OpTypes DEF EitherStep, EnableStart, EnableClear, EnableReset
<1>6. ASSUME NEW p \in Tools, ToolStep(p) PROVE row'[t] = NewRow(NoBan)
  <2> op[p].tok \in Tokens
    BY OpTypes DEF Procs
  <2>1. QED
    BY <1>1, <1>2, <1>3, <1>6 DEF ToolStep, PublishSnapshot, PublishDesiredState, ToolDies
<1>7. ASSUME NEW u \in Tokens, AccountStep(u) PROVE row'[t] = NewRow(NoBan)
  <2>1. CASE AddToken(u)
    BY <1>1, <2>1 DEF AddToken, TypeOK
  <2>2. CASE DeleteToken(u)
    BY <1>1, <2>2 DEF DeleteToken, TypeOK
  <2>3. CASE DisableToken(u) \/ BanFor429(u) \/ RecordSuccess(u)
    BY <1>2, <2>3 DEF DisableToken, BanFor429, RecordSuccess
  <2>4. CASE BanAges(u)
    BY <1>1, <2>4 DEF BanAges, TypeOK
  <2>5. CASE \E allow \in BOOLEAN : Observe(u, allow)
    BY <1>3, <2>5 DEF Observe
  <2>6. CASE AtExpires(u)
    BY <1>1, <2>6 DEF AtExpires, TypeOK
  <2>7. QED  BY <1>7, <2>1, <2>2, <2>3, <2>4, <2>5, <2>6 DEF AccountStep
<1>8. CASE UnbanStep
  BY <1>1, <1>2, <1>8, CurrentType
     DEF UnbanStep, UnbanScan, UnbanActivate, UnbanClear, UnbanReset
<1>9. CASE RestartService
  BY <1>1, <1>9 DEF RestartService, TypeOK
<1>10. CASE UNCHANGED vars
  BY <1>1, <1>10 DEF vars
<1>11. QED  BY <1>4, <1>5, <1>6, <1>7, <1>8, <1>9, <1>10 DEF Next

\* HalfEnabledInFlight in every reachable state: as long as nothing was killed, a
\* row that is in the pool under a disable reason is being enabled right now.
THEOREM NoHalfEnabledRows == Spec => []HalfEnabledInFlight
<1>1. /\ TypeOK /\ AbsentRowsEmpty /\ HalfEnabledInFlight
      /\ [Next]_vars
      => HalfEnabledInFlight'
  BY HalfStep DEF HalfEnabledInFlight
<1>2. TypeOK /\ AbsentRowsEmpty /\ [Next]_vars => AbsentRowsEmpty'
  BY AbsentStep
<1>3. QED
  BY <1>1, <1>2, TypeInit, TypeStep, AbsentInit, PTL DEF Spec
=============================================================================
