---------------------------- MODULE DispatchProofs ----------------------------
(***************************************************************************)
(* Proofs about Dispatch, for every finite set of accounts and requests,   *)
(* every fleet, limit, demand and configuration.                           *)
(***************************************************************************)
EXTENDS Dispatch, FiniteSetTheorems, SequenceTheorems, TLAPS

(***************************************************************************)
(* Selection returns one of the eligible accounts.                         *)
(***************************************************************************)
LEMMA RoundRobinType ==
    ASSUME NEW S, NEW previous
    PROVE  RoundRobin(S, previous) \subseteq S
BY DEF RoundRobin, Least

LEMMA EligibleType ==
    ASSUME NEW kind, NEW needs
    PROVE  Eligible(kind, needs) \subseteq Tokens
BY DEF Eligible

\* Every order of candidates is a nonempty sequence of all of them.
LEMMA OrderType ==
    ASSUME NEW S, S \subseteq Tokens, S # {}, NEW order \in Enumerations(S)
    PROVE  /\ order \in Seq(Tokens) /\ order # <<>> /\ order[1] \in S
           /\ \A u \in S : \E i \in DOMAIN order : order[i] = u
           /\ 1 \in DOMAIN order
           /\ \A i \in DOMAIN order : i \in Nat /\ 1 <= i
<1> DEFINE n == Cardinality(S)
<1>1. IsFiniteSet(S)
  BY FS_Subset, TokensAssumption
<1>2. n \in Nat /\ n # 0
  BY <1>1, FS_CardinalityType, FS_EmptySet
<1>3. order \in [1..n -> S] /\ \A u \in S : \E i \in DOMAIN order : order[i] = u
  BY DEF Enumerations
<1> HIDE DEF n
<1>4. order \in Seq(Tokens) /\ Len(order) = n
  BY <1>2, <1>3
<1>5. QED  BY <1>2, <1>3, <1>4

\* The bookkeeping of the round robin keeps its types.
LEMMA OrderCandidatesType ==
    ASSUME TypeOK, NEW kind \in Kinds, NEW needs, NEW S, S \subseteq Tokens, NEW order,
           OrderCandidates(kind, needs, S, order)
    PROVE  last' \in [Kinds -> Tokens \cup {0}] /\ lap' \in [Kinds -> Laps]
<1>1. CASE polling
  <2>1. PICK first \in RoundRobin(S, last[kind]) :
            /\ last' = [last EXCEPT ![kind] = first]
            /\ lap' = [lap EXCEPT ![kind] = LapAfter(@, S, first)]
    BY <1>1 DEF OrderCandidates
  <2>2. first \in Tokens
    BY RoundRobinType
  <2>3. LapAfter(lap[kind], S, first) \in Laps
    BY <2>2 DEF LapAfter, Laps, NoLap, TypeOK
  <2>4. QED  BY <2>1, <2>2, <2>3 DEF TypeOK
<1>2. CASE ~polling
  BY <1>2 DEF OrderCandidates, TypeOK
<1>3. QED  BY <1>1, <1>2 DEF TypeOK

(***************************************************************************)
(* Requests.                                                               *)
(***************************************************************************)
LEMMA NoRequestType == NoRequest \in RequestStates /\ NoRequest.order = <<>>
BY TokensAssumption DEF NoRequest, RequestStates, Pcs, Kinds, Ranks, Credits

RequestsOK(f) ==
    /\ f \in [Requests -> RequestStates]
    /\ \A r \in Requests : (f[r].pc = "refreshing") <=> (f[r].order # <<>>)

LEMMA TailType ==
    ASSUME NEW s \in Seq(Tokens), s # <<>>, Len(s) # 1
    PROVE  Tail(s) \in Seq(Tokens) /\ Tail(s) # <<>>
<1>1. Len(s) \in Nat \ {0, 1}
  BY EmptySeq
<1>2. Tail(s) \in Seq(Tokens) /\ Len(Tail(s)) = Len(s) - 1
  BY HeadTailProperties
<1>3. Len(<<>>) = 0
  BY EmptySeq
<1>4. Len(Tail(s)) # 0
  BY <1>1, <1>2
<1>5. QED  BY <1>2, <1>3, <1>4

LEMMA RequestTypes ==
    ASSUME TypeOK, NEW r \in Requests
    PROVE  /\ req[r].kind \in Kinds /\ req[r].tok \in Tokens
           /\ req[r].read \in Credits /\ req[r].order \in Seq(Tokens)
           /\ End(r) => RequestsOK(req')
           /\ \A pc \in Pcs \ {"refreshing"} :
                req[r].pc # "refreshing" /\ Goto(r, pc) => RequestsOK(req')
           /\ \A t \in Tokens : Chosen(r, t) => RequestsOK(req')
<1>1. req[r] \in RequestStates /\ req \in [Requests -> RequestStates]
  BY DEF TypeOK
<1>2. req[r].kind \in Kinds /\ req[r].tok \in Tokens /\ req[r].read \in Credits
        /\ req[r].order \in Seq(Tokens)
  BY <1>1 DEF RequestStates
<1>3. End(r) => RequestsOK(req')
  BY <1>1, NoRequestType DEF End, RequestsOK, TypeOK, NoRequest
<1>4. ASSUME NEW pc \in Pcs \ {"refreshing"}, req[r].pc # "refreshing", Goto(r, pc)
      PROVE  RequestsOK(req')
  <2>1. [req[r] EXCEPT !.pc = pc] \in RequestStates
    BY <1>1 DEF RequestStates
  <2>2. req' = [req EXCEPT ![r] = [req[r] EXCEPT !.pc = pc]]
    BY <1>4 DEF Goto
  <2>3. QED  BY <1>1, <1>4, <2>1, <2>2 DEF RequestsOK, TypeOK, RequestStates
<1>5. ASSUME NEW t \in Tokens, Chosen(r, t)
      PROVE  RequestsOK(req')
  <2> DEFINE x == [req[r] EXCEPT !.pc = "selected", !.tok = t, !.order = <<>>]
  <2>1. x \in RequestStates /\ x.order = <<>> /\ x.pc = "selected"
    <3>1. <<>> \in Seq(Tokens) /\ "selected" \in Pcs
      BY DEF Pcs
    <3>2. QED  BY <1>1, <3>1 DEF RequestStates
  <2>2. req' = [req EXCEPT ![r] = x]
    BY <1>5 DEF Chosen
  <2>3. QED  BY <1>1, <2>1, <2>2 DEF RequestsOK, TypeOK
<1>6. QED  BY <1>2, <1>3, <1>4, <1>5

LEMMA CountTypes ==
    ASSUME TypeOK, NEW kind \in Kinds, NEW t \in Tokens
    PROVE  /\ AddPending(kind, t) => pending' \in [Kinds -> [Tokens -> Nat]]
           /\ ReleasePending(kind, t) => pending' \in [Kinds -> [Tokens -> Nat]]
<1>1. pending[kind] \in [Tokens -> Nat] /\ pending[kind][t] \in Nat
  BY DEF TypeOK
<1>2. \A n \in Nat :
        pending' = [pending EXCEPT ![kind] = [pending[kind] EXCEPT ![t] = n]]
          => pending' \in [Kinds -> [Tokens -> Nat]]
  BY <1>1 DEF TypeOK
<1>3. AddPending(kind, t)
        => pending' = [pending EXCEPT ![kind] = [pending[kind] EXCEPT ![t] = pending[kind][t] + 1]]
  BY DEF AddPending
<1>4. ReleasePending(kind, t)
        => pending' = [pending EXCEPT ![kind] = [pending[kind] EXCEPT
              ![t] = IF pending[kind][t] <= 1 THEN 0 ELSE pending[kind][t] - 1]]
  BY DEF ReleasePending
<1>5. (IF pending[kind][t] <= 1 THEN 0 ELSE pending[kind][t] - 1) \in Nat
        /\ pending[kind][t] + 1 \in Nat
  BY <1>1
<1>6. QED  BY <1>2, <1>3, <1>4, <1>5

LEMMA WriteType ==
    ASSUME TypeOK, NEW t \in Tokens, NEW a \in Accounts, Write(t, a)
    PROVE  acct' \in [Tokens -> Accounts]
BY DEF Write, TypeOK

(***************************************************************************)
(* Type correctness.                                                       *)
(***************************************************************************)
LEMMA InitType == Init => TypeOK
<1> SUFFICES ASSUME Init PROVE TypeOK
  OBVIOUS
<1>1. /\ acct \in [Tokens -> Accounts]
      /\ limit \in [Kinds -> [Tokens -> Nat]]
      /\ polling \in BOOLEAN
  BY DeploymentsAssumption DEF Init
<1>2. RequestsOK(req)
  BY NoRequestType DEF Init, RequestsOK, NoRequest
<1>3. /\ pending \in [Kinds -> [Tokens -> Nat]]
      /\ leaked \in [Kinds -> [Tokens -> 0..MaxLeaks]]
  BY BoundAssumption DEF Init, Zero
<1>4. last \in [Kinds -> Tokens \cup {0}] /\ lap \in [Kinds -> Laps]
  BY DEF Init, Laps, NoLap
<1>5. QED  BY <1>1, <1>2, <1>3, <1>4 DEF TypeOK, RequestsOK

\* A request's own steps.
LEMMA RequestStepType ==
    ASSUME TypeOK, NEW r \in Requests, RequestStep(r) \/ ClientStep(r)
    PROVE  TypeOK'
<1> USE DEF OnlyRequests
<1>1. CASE SelectNone(r) \/ DisconnectEarly(r)
  BY <1>1, RequestTypes DEF SelectNone, DisconnectEarly, TypeOK, RequestsOK
<1>2. CASE Select(r)
  <2> DEFINE S == Eligible(req[r].kind, req[r].needs)
  <2>1. S \subseteq Tokens /\ S # {} /\ req[r].kind \in Kinds
    BY <1>2, EligibleType, RequestTypes DEF Select
  <2>2. PICK order \in Enumerations(S) :
            /\ OrderCandidates(req[r].kind, req[r].needs, S, order)
            /\ IF acct[order[1]].fresh
               THEN Chosen(r, order[1]) /\ AddPending(req[r].kind, order[1])
               ELSE /\ req' = [req EXCEPT ![r].pc = "refreshing", ![r].order = order]
                    /\ UNCHANGED pending
    BY <1>2 DEF Select
  <2>3. order \in Seq(Tokens) /\ order # <<>> /\ order[1] \in Tokens
    BY <2>1, OrderType
  <2>4. last' \in [Kinds -> Tokens \cup {0}] /\ lap' \in [Kinds -> Laps]
    BY <2>1, <2>2, OrderCandidatesType
  <2>5. CASE acct[order[1]].fresh
    <3>1. RequestsOK(req') /\ pending' \in [Kinds -> [Tokens -> Nat]]
      BY <2>1, <2>2, <2>3, <2>5, RequestTypes, CountTypes
    <3>2. QED  BY <1>2, <2>4, <3>1 DEF Select, TypeOK, RequestsOK
  <2>6. CASE ~acct[order[1]].fresh
    <3> DEFINE x == [req[r] EXCEPT !.pc = "refreshing", !.order = order]
    <3>1. x \in RequestStates /\ x.pc = "refreshing" /\ x.order = order
      BY <2>3 DEF TypeOK, RequestStates, Pcs
    <3>2. req' = [req EXCEPT ![r] = x] /\ UNCHANGED pending
      BY <2>2, <2>6
    <3>3. RequestsOK(req')
      BY <2>3, <3>1, <3>2 DEF TypeOK, RequestsOK
    <3>4. QED  BY <1>2, <2>4, <3>2, <3>3 DEF Select, TypeOK, RequestsOK
  <2>7. QED  BY <2>5, <2>6
<1>3. CASE RefreshAnswered(r)
  <2> DEFINE t == Head(req[r].order)
  <2>1. t \in Tokens
    BY <1>3, RequestTypes DEF RefreshAnswered, TypeOK
  <2>2. [acct[t] EXCEPT !.fresh = TRUE] \in Accounts
    BY <2>1 DEF TypeOK, Accounts
  <2>3. acct' \in [Tokens -> Accounts]
    BY <1>3, <2>1, <2>2 DEF RefreshAnswered, TypeOK
  <2>4. RequestsOK(req') /\ pending' \in [Kinds -> [Tokens -> Nat]]
    BY <1>3, <2>1, RequestTypes, CountTypes DEF RefreshAnswered
  <2>5. QED  BY <1>3, <2>3, <2>4 DEF RefreshAnswered, TypeOK, RequestsOK
<1>4. CASE RefreshRefused(r)
  <2>1. CASE Len(req[r].order) = 1
    BY <1>4, <2>1, RequestTypes DEF RefreshRefused, TypeOK, RequestsOK
  <2>2. CASE Len(req[r].order) # 1
    <3> DEFINE x == [req[r] EXCEPT !.order = Tail(@)]
    <3>1. req[r].order \in Seq(Tokens) /\ req[r].order # <<>>
      BY <1>4, RequestTypes DEF RefreshRefused, TypeOK
    <3>2. Tail(req[r].order) \in Seq(Tokens) /\ Tail(req[r].order) # <<>>
      BY <2>2, <3>1, TailType
    <3>3. x \in RequestStates /\ x.pc = "refreshing" /\ x.order # <<>>
      BY <1>4, <3>2 DEF RefreshRefused, TypeOK, RequestStates
    <3>4. req' = [req EXCEPT ![r] = x]
      BY <1>4, <2>2 DEF RefreshRefused
    <3>5. QED  BY <1>4, <3>3, <3>4 DEF RefreshRefused, TypeOK
  <2>3. QED  BY <2>1, <2>2
<1>5. CASE ProbeStart(r)
  <2>1. CASE End(r)
    BY <1>5, <2>1, RequestTypes DEF ProbeStart, TypeOK, RequestsOK
  <2>2. CASE \E owner \in Eligible("video", req[r].needs) :
               req' = [req EXCEPT ![r].pc = "probing", ![r].tok = owner]
    <3>1. PICK owner \in Eligible("video", req[r].needs) :
             req' = [req EXCEPT ![r].pc = "probing", ![r].tok = owner]
      BY <2>2
    <3> DEFINE x == [req[r] EXCEPT !.pc = "probing", !.tok = owner]
    <3>2. owner \in Tokens
      BY EligibleType
    <3>3. x \in RequestStates /\ x.pc = "probing" /\ x.order = req[r].order
      BY <3>2 DEF TypeOK, RequestStates, Pcs
    <3>4. req' = [req EXCEPT ![r] = x]
      BY <3>1
    <3>5. QED  BY <1>5, <3>3, <3>4 DEF ProbeStart, TypeOK
  <2>3. QED  BY <1>5, <2>1, <2>2 DEF ProbeStart
<1>6. CASE ProbeAnswered(r)
  <2>1. RequestsOK(req') /\ pending' \in [Kinds -> [Tokens -> Nat]]
    BY <1>6, RequestTypes, CountTypes DEF ProbeAnswered, Kinds, TypeOK
  <2>2. QED  BY <1>6, <2>1 DEF ProbeAnswered, TypeOK, RequestsOK
<1>7. CASE EnterTry(r) \/ Check(r) \/ Abort(r)
  <2>1. RequestsOK(req')
    BY <1>7, RequestTypes DEF EnterTry, Check, Abort, Pcs
  <2>2. QED  BY <1>7, <2>1 DEF EnterTry, Check, Abort, TypeOK, RequestsOK
<1>8. CASE Succeed(r)
  <2>1. RequestsOK(req') /\ req[r].tok \in Tokens
    BY <1>8, RequestTypes DEF Succeed, Pcs
  <2>2. [acct[req[r].tok] EXCEPT !.mark = "none", !.snapshot = 0] \in Accounts
    <3>1. acct[req[r].tok] \in Accounts /\ 0 \in Credits
      BY <2>1 DEF TypeOK, Credits
    <3>2. QED  BY <3>1 DEF Accounts
  <2>3. acct' \in [Tokens -> Accounts]
    BY <1>8, <2>1, <2>2, WriteType DEF Succeed
  <2>4. QED  BY <1>8, <2>1, <2>3 DEF Succeed, TypeOK, RequestsOK
<1>9. CASE QuotaRefused(r)
  <2> DEFINE x == [req[r] EXCEPT !.pc = "marking", !.read = acct[req[r].tok].credits]
  <2>1. acct[req[r].tok].credits \in Credits
    BY RequestTypes DEF TypeOK, Accounts
  <2>2. x \in RequestStates /\ x.pc = "marking" /\ x.order = req[r].order
    BY <2>1 DEF TypeOK, RequestStates, Pcs
  <2>3. req' = [req EXCEPT ![r] = x]
    BY <1>9 DEF QuotaRefused
  <2>4. QED  BY <1>9, <2>2, <2>3 DEF QuotaRefused, TypeOK
<1>10. CASE MarkExhausted(r)
  <2>1. RequestsOK(req') /\ req[r].tok \in Tokens /\ req[r].read \in Credits
    BY <1>10, RequestTypes DEF MarkExhausted, Pcs
  <2>2. [acct[req[r].tok] EXCEPT !.mark = "recent", !.snapshot = req[r].read] \in Accounts
    <3>1. acct[req[r].tok] \in Accounts
      BY <2>1 DEF TypeOK
    <3>2. QED  BY <2>1, <3>1 DEF Accounts
  <2>3. acct' \in [Tokens -> Accounts]
    BY <1>10, <2>1, <2>2, WriteType DEF MarkExhausted
  <2>4. QED  BY <1>10, <2>1, <2>3 DEF MarkExhausted, TypeOK, RequestsOK
<1>11. CASE Release(r)
  <2>1. RequestsOK(req') /\ pending' \in [Kinds -> [Tokens -> Nat]]
    BY <1>11, RequestTypes, CountTypes DEF Release
  <2>2. QED  BY <1>11, <2>1 DEF Release, TypeOK, RequestsOK
<1>12. CASE Arrive(r)
  <2>1. PICK m \in Demands :
           req' = [req EXCEPT ![r] = [NoRequest EXCEPT !.pc = "select", !.kind = m.kind,
                                         !.edit = m.edit, !.needs = m.needs]]
    BY <1>12 DEF Arrive
  <2> DEFINE x == [NoRequest EXCEPT !.pc = "select", !.kind = m.kind,
                                    !.edit = m.edit, !.needs = m.needs]
  <2>2. m \in [kind : Kinds, edit : BOOLEAN, needs : Ranks]
    BY DemandsAssumption DEF Models
  <2>3. x \in RequestStates /\ x.pc = "select" /\ x.order = <<>>
    BY <2>2, NoRequestType DEF RequestStates, Pcs
  <2>4. QED  BY <1>12, <2>1, <2>3 DEF Arrive, TypeOK
<1>13. CASE DisconnectBeforeTry(r)
  <2>1. RequestsOK(req') /\ req[r].tok \in Tokens /\ req[r].kind \in Kinds
    BY <1>13, RequestTypes DEF DisconnectBeforeTry
  <2>2. leaked[req[r].kind][req[r].tok] + 1 \in 0..MaxLeaks
    BY <1>13, <2>1, BoundAssumption DEF DisconnectBeforeTry, TypeOK
  <2>3. leaked' \in [Kinds -> [Tokens -> 0..MaxLeaks]]
    BY <1>13, <2>1, <2>2 DEF DisconnectBeforeTry, TypeOK
  <2>4. QED  BY <1>13, <2>1, <2>3 DEF DisconnectBeforeTry, TypeOK, RequestsOK
<1>14. QED
  BY <1>1, <1>2, <1>3, <1>4, <1>5, <1>6, <1>7, <1>8, <1>9, <1>10, <1>11, <1>12, <1>13
  DEF RequestStep, ClientStep

\* What happens to the accounts meanwhile.
LEMMA AccountStepType ==
    ASSUME TypeOK, NEW t \in Tokens, AccountStep(t)
    PROVE  TypeOK'
<1>1. acct[t] \in Accounts
  BY DEF TypeOK
<1>2. CASE \E a \in Accounts : acct' = [acct EXCEPT ![t] = a] /\ OnlyAccounts
  BY <1>2 DEF OnlyAccounts, TypeOK
<1>3. CASE AtExpires(t)
  <2>1. [acct[t] EXCEPT !.fresh = FALSE] \in Accounts
    BY <1>1 DEF Accounts
  <2>2. QED  BY <1>2, <1>3, <2>1 DEF AtExpires
<1>4. CASE AtRenewed(t)
  <2>1. [acct[t] EXCEPT !.fresh = TRUE] \in Accounts
    BY <1>1 DEF Accounts
  <2>2. QED  BY <1>2, <1>4, <2>1 DEF AtRenewed
<1>5. CASE Toggle(t)
  <2>1. [acct[t] EXCEPT !.active = ~@] \in Accounts
    BY <1>1 DEF Accounts
  <2>2. QED  BY <1>2, <1>5, <2>1 DEF Toggle
<1>6. CASE Recharge(t)
  <2>1. [acct[t] EXCEPT !.credits = @ + 1] \in Accounts
    BY <1>1, <1>6 DEF Accounts, Recharge
  <2>2. QED  BY <1>2, <1>6, <2>1 DEF Recharge
<1>7. CASE MarkCools(t)
  <2>1. [acct[t] EXCEPT !.mark = "cooled"] \in Accounts
    BY <1>1 DEF Accounts
  <2>2. QED  BY <1>2, <1>7, <2>1 DEF MarkCools
<1>8. CASE ResetToken(t)
  <2>1. PICK images \in Limits, videos \in Limits :
           limit' = [limit EXCEPT !["image"][t] = images, !["video"][t] = videos]
    BY <1>8 DEF ResetToken
  <2>2. limit' \in [Kinds -> [Tokens -> Nat]]
    BY <2>1, LimitsAssumption DEF TypeOK, Kinds
  <2>3. QED  BY <1>8, <2>2 DEF ResetToken, TypeOK
<1>9. CASE RemoveToken(t)
  <2>1. [acct[t] EXCEPT !.live = FALSE, !.active = FALSE] \in Accounts
    BY <1>1 DEF Accounts
  <2>2. acct' \in [Tokens -> Accounts]
    BY <1>9, <2>1 DEF RemoveToken, TypeOK
  <2>3. limit' \in [Kinds -> [Tokens -> Nat]]
    BY <1>9 DEF RemoveToken, TypeOK
  <2>4. QED  BY <1>9, <2>2, <2>3 DEF RemoveToken, TypeOK
<1>10. QED
  BY <1>3, <1>4, <1>5, <1>6, <1>7, <1>8, <1>9 DEF AccountStep

LEMMA NextType == TypeOK /\ [Next]_vars => TypeOK'
<1> SUFFICES ASSUME TypeOK, [Next]_vars PROVE TypeOK'
  OBVIOUS
<1>1. CASE \E r \in Requests : RequestStep(r) \/ ClientStep(r)
  BY <1>1, RequestStepType
<1>2. CASE \E t \in Tokens : AccountStep(t)
  BY <1>2, AccountStepType
<1>3. CASE SetCallLogicMode
  BY <1>3 DEF SetCallLogicMode, TypeOK
<1>4. CASE UNCHANGED vars
  BY <1>4 DEF vars, TypeOK
<1>5. QED  BY <1>1, <1>2, <1>3, <1>4 DEF Next

\* Every reachable state has its type, for every fleet and any number of requests: in
\* particular a request waits for a refresh exactly as long as it has candidates left.
THEOREM TypeCorrect == Spec => []TypeOK
BY InitType, NextType, PTL DEF Spec

(***************************************************************************)
(* Accounting.  A step moves one request, so the number of holders of an   *)
(* account changes by that request at most.                                *)
(***************************************************************************)
Holds(x, kind, t) == x.pc \in HoldingPcs /\ x.kind = kind /\ x.tok = t

Weight(x, kind, t) == IF Holds(x, kind, t) THEN 1 ELSE 0

HoldersOf(f, kind, t) == {r \in Requests : Holds(f[r], kind, t)}

LEMMA HoldersFinite ==
    ASSUME NEW f, NEW kind, NEW t
    PROVE  IsFiniteSet(HoldersOf(f, kind, t)) /\ Cardinality(HoldersOf(f, kind, t)) \in Nat
<1>1. HoldersOf(f, kind, t) \subseteq Requests
  BY DEF HoldersOf
<1>2. QED  BY <1>1, FS_Subset, FS_CardinalityType, RequestsAssumption

OnlyMoves(f, g, r) == \A q \in Requests \ {r} : g[q] = f[q]

HoldersFollow(f, g, r, kind, t) ==
    Cardinality(HoldersOf(g, kind, t)) =
        Cardinality(HoldersOf(f, kind, t)) + Weight(g[r], kind, t) - Weight(f[r], kind, t)

LEMMA HoldersStep ==
    ASSUME NEW f, NEW g, NEW r \in Requests, OnlyMoves(f, g, r), NEW kind, NEW t
    PROVE  HoldersFollow(f, g, r, kind, t)
<1> DEFINE H == HoldersOf(f, kind, t)
           n == Cardinality(H)
<1>1. IsFiniteSet(H) /\ n \in Nat
  BY HoldersFinite
<1>2. r \in H <=> Holds(f[r], kind, t)
  BY DEF HoldersOf
<1>3. Weight(f[r], kind, t) = IF r \in H THEN 1 ELSE 0
  BY <1>2 DEF Weight
<1>4. CASE Holds(g[r], kind, t)
  <2>1. HoldersOf(g, kind, t) = H \cup {r}
    BY <1>4 DEF HoldersOf, OnlyMoves
  <2>2. Cardinality(H \cup {r}) = IF r \in H THEN n ELSE n + 1
    BY <1>1, FS_AddElement
  <2>3. Weight(g[r], kind, t) = 1
    BY <1>4 DEF Weight
  <2> HIDE DEF n
  <2>4. QED  BY <1>1, <1>3, <2>1, <2>2, <2>3 DEF n, HoldersFollow
<1>5. CASE ~Holds(g[r], kind, t)
  <2>1. HoldersOf(g, kind, t) = H \ {r}
    BY <1>5 DEF HoldersOf, OnlyMoves
  <2>2. Cardinality(H \ {r}) = IF r \in H THEN n - 1 ELSE n
    BY <1>1, FS_RemoveElement
  <2>3. Weight(g[r], kind, t) = 0
    BY <1>5 DEF Weight
  <2> HIDE DEF n
  <2>4. QED  BY <1>1, <1>3, <2>1, <2>2, <2>3 DEF n, HoldersFollow
<1>6. QED  BY <1>4, <1>5

\* PendingCountsHolders as a fact about the values of three variables.
Accounted(p, f, l) ==
    \A kind \in Kinds, t \in Tokens :
        p[kind][t] = Cardinality(HoldersOf(f, kind, t)) + l[kind][t]

LEMMA AccountedIs == PendingCountsHolders <=> Accounted(pending, req, leaked)
<1>1. \A kind, t : Holders(kind, t) = HoldersOf(req, kind, t)
  BY DEF Holders, HoldersOf, Holds
<1>2. QED  BY <1>1 DEF PendingCountsHolders, Accounted

LEMMA AccountedNext ==
    ASSUME Accounted(pending', req', leaked')
    PROVE  PendingCountsHolders'
<1> SUFFICES ASSUME NEW kind \in Kinds, NEW t \in Tokens
             PROVE  pending'[kind][t] = Cardinality(Holders(kind, t)') + leaked'[kind][t]
  BY DEF PendingCountsHolders
<1>1. Holders(kind, t)' = HoldersOf(req', kind, t)
  BY DEF Holders, HoldersOf, Holds
<1>2. QED  BY <1>1 DEF Accounted

Counts == [Kinds -> [Tokens -> Nat]]

\* What moving request r from f to g, and counts from p to q and from l to m, has to
\* do to keep every account balanced.
Balanced(p, q, f, g, l, m, r) ==
    \A kind \in Kinds, t \in Tokens :
        q[kind][t] - m[kind][t] =
          p[kind][t] - l[kind][t] + Weight(g[r], kind, t) - Weight(f[r], kind, t)

LEMMA AccountedStep ==
    ASSUME NEW f, NEW g, NEW p \in Counts, NEW q \in Counts, NEW l \in Counts,
           NEW m \in Counts, NEW r \in Requests, OnlyMoves(f, g, r),
           Accounted(p, f, l), Balanced(p, q, f, g, l, m, r)
    PROVE  Accounted(q, g, m)
<1> SUFFICES ASSUME NEW kind \in Kinds, NEW t \in Tokens
             PROVE  q[kind][t] = Cardinality(HoldersOf(g, kind, t)) + m[kind][t]
  BY DEF Accounted
<1> DEFINE old == Cardinality(HoldersOf(f, kind, t))
           new == Cardinality(HoldersOf(g, kind, t))
<1>1. new = old + Weight(g[r], kind, t) - Weight(f[r], kind, t)
  BY HoldersStep DEF HoldersFollow
<1>2. p[kind][t] = old + l[kind][t]
  BY DEF Accounted
<1>3. old \in Nat /\ new \in Nat
  BY HoldersFinite
<1>4. /\ p[kind][t] \in Nat /\ q[kind][t] \in Nat
      /\ l[kind][t] \in Nat /\ m[kind][t] \in Nat
  BY DEF Counts
<1>5. Weight(g[r], kind, t) \in Int /\ Weight(f[r], kind, t) \in Int
  BY DEF Weight
<1>6. q[kind][t] - m[kind][t] =
        p[kind][t] - l[kind][t] + Weight(g[r], kind, t) - Weight(f[r], kind, t)
  BY DEF Balanced
<1> HIDE DEF old, new
<1>7. q[kind][t] = new + m[kind][t]
  BY <1>1, <1>2, <1>3, <1>4, <1>5, <1>6
<1>8. QED  BY <1>7 DEF new

LEMMA CountsOK ==
    ASSUME TypeOK
    PROVE  pending \in Counts /\ leaked \in Counts
BY BoundAssumption DEF TypeOK, Counts

\* A step that neither takes nor gives back a slot.
LEMMA SameSlots ==
    ASSUME TypeOK, TypeOK', PendingCountsHolders, UNCHANGED <<pending, leaked>>,
           NEW r \in Requests, OnlyMoves(req, req', r),
           \A kind \in Kinds, t \in Tokens :
              Weight(req'[r], kind, t) = Weight(req[r], kind, t)
    PROVE  PendingCountsHolders'
<1>1. pending \in Counts /\ leaked \in Counts
  BY CountsOK
<1>2. Accounted(pending, req, leaked)
  BY AccountedIs
<1>3. Balanced(pending, pending, req, req', leaked, leaked, r)
  <2> SUFFICES ASSUME NEW kind \in Kinds, NEW t \in Tokens
               PROVE  pending[kind][t] - leaked[kind][t] =
                        pending[kind][t] - leaked[kind][t]
                          + Weight(req'[r], kind, t) - Weight(req[r], kind, t)
    BY DEF Balanced
  <2>1. pending[kind][t] \in Nat /\ leaked[kind][t] \in Nat
    BY <1>1 DEF Counts
  <2>2. Weight(req[r], kind, t) \in Int
    BY DEF Weight
  <2>3. Weight(req'[r], kind, t) = Weight(req[r], kind, t)
    OBVIOUS
  <2>4. QED  BY <2>1, <2>2, <2>3
<1>4. Accounted(pending, req', leaked)
  BY <1>1, <1>2, <1>3, AccountedStep
<1>5. Accounted(pending', req', leaked')
  BY <1>4
<1>6. QED  BY <1>5, AccountedNext

\* A step that counts request r on the account it has just been given.
LEMMA SlotTaken ==
    ASSUME TypeOK, TypeOK', PendingCountsHolders, UNCHANGED leaked,
           NEW r \in Requests, OnlyMoves(req, req', r),
           req[r].pc \notin HoldingPcs, req'[r].pc \in HoldingPcs,
           AddPending(req'[r].kind, req'[r].tok)
    PROVE  PendingCountsHolders'
<1> DEFINE k == req'[r].kind
           u == req'[r].tok
<1>1. pending \in Counts /\ leaked \in Counts /\ pending' \in Counts
  BY CountsOK DEF TypeOK, Counts
<1>2. Accounted(pending, req, leaked)
  BY AccountedIs
<1>3. k \in Kinds /\ u \in Tokens
  BY DEF TypeOK, RequestStates
<1>4. Balanced(pending, pending', req, req', leaked, leaked, r)
  <2> SUFFICES ASSUME NEW kind \in Kinds, NEW t \in Tokens
               PROVE  pending'[kind][t] - leaked[kind][t] =
                        pending[kind][t] - leaked[kind][t]
                          + Weight(req'[r], kind, t) - Weight(req[r], kind, t)
    BY DEF Balanced
  <2>1. pending[kind][t] \in Nat /\ leaked[kind][t] \in Nat
    BY <1>1 DEF Counts
  <2>2. Weight(req[r], kind, t) = 0
    BY DEF Weight, Holds
  <2>3. Weight(req'[r], kind, t) = IF kind = k /\ t = u THEN 1 ELSE 0
    BY DEF Weight, Holds
  <2>4. pending'[kind][t] = IF kind = k /\ t = u THEN pending[kind][t] + 1 ELSE pending[kind][t]
    BY <1>1, <1>3 DEF AddPending, Counts
  <2> HIDE DEF k, u
  <2>5. QED  BY <2>1, <2>2, <2>3, <2>4
<1>5. Accounted(pending', req', leaked')
  BY <1>1, <1>2, <1>4, AccountedStep
<1>6. QED  BY <1>5, AccountedNext

\* The finally clause: the count that is given back is the request's own, so the clamp
\* of release_pending never comes into play.
LEMMA SlotReleased ==
    ASSUME TypeOK, TypeOK', PendingCountsHolders, NEW r \in Requests, Release(r)
    PROVE  PendingCountsHolders'
<1> DEFINE k == req[r].kind
           u == req[r].tok
<1>1. pending \in Counts /\ leaked \in Counts /\ pending' \in Counts
  BY CountsOK DEF TypeOK, Counts
<1>2. Accounted(pending, req, leaked)
  BY AccountedIs
<1>3. k \in Kinds /\ u \in Tokens
  BY RequestTypes
<1>4. OnlyMoves(req, req', r) /\ req'[r] = NoRequest
  BY DEF Release, End, OnlyMoves, TypeOK
<1>5. pending[k][u] \in Nat /\ pending[k][u] >= 1
  <2>1. r \in HoldersOf(req, k, u)
    BY DEF HoldersOf, Holds, Release, HoldingPcs
  <2>2. IsFiniteSet(HoldersOf(req, k, u)) /\ Cardinality(HoldersOf(req, k, u)) \in Nat
    BY HoldersFinite
  <2>3. Cardinality(HoldersOf(req, k, u)) # 0
    BY <2>1, <2>2, FS_EmptySet
  <2>4. pending[k][u] = Cardinality(HoldersOf(req, k, u)) + leaked[k][u]
    BY <1>2, <1>3 DEF Accounted
  <2>5. leaked[k][u] \in Nat
    BY <1>1, <1>3 DEF Counts
  <2> HIDE DEF k, u
  <2>6. QED  BY <2>2, <2>3, <2>4, <2>5
<1>6. Balanced(pending, pending', req, req', leaked, leaked, r)
  <2> SUFFICES ASSUME NEW kind \in Kinds, NEW t \in Tokens
               PROVE  pending'[kind][t] - leaked[kind][t] =
                        pending[kind][t] - leaked[kind][t]
                          + Weight(req'[r], kind, t) - Weight(req[r], kind, t)
    BY DEF Balanced
  <2>1. pending[kind][t] \in Nat /\ leaked[kind][t] \in Nat
    BY <1>1 DEF Counts
  <2>2. Weight(req'[r], kind, t) = 0
    BY <1>4 DEF Weight, Holds, NoRequest, HoldingPcs
  <2>3. Weight(req[r], kind, t) = IF kind = k /\ t = u THEN 1 ELSE 0
    BY DEF Weight, Holds, Release, HoldingPcs
  <2>4. pending'[kind][t] = IF kind = k /\ t = u THEN pending[kind][t] - 1 ELSE pending[kind][t]
    <3>1. pending' = [pending EXCEPT ![k][u] = IF @ <= 1 THEN 0 ELSE @ - 1]
      BY DEF Release, ReleasePending
    <3>2. pending'[kind][t] = IF kind = k /\ t = u
                              THEN IF pending[kind][t] <= 1 THEN 0 ELSE pending[kind][t] - 1
                              ELSE pending[kind][t]
      BY <1>1, <1>3, <3>1 DEF Counts
    <3> HIDE DEF k, u
    <3>3. QED  BY <1>5, <2>1, <3>2
  <2> HIDE DEF k, u
  <2>5. QED  BY <2>1, <2>2, <2>3, <2>4
<1>7. leaked' = leaked
  BY DEF Release
<1>8. Accounted(pending', req', leaked')
  BY <1>1, <1>2, <1>4, <1>6, <1>7, AccountedStep
<1>9. QED  BY <1>8, AccountedNext

\* A disconnect before the try block: the holder goes and its count stays.
LEMMA SlotLeaked ==
    ASSUME TypeOK, TypeOK', PendingCountsHolders, NEW r \in Requests, DisconnectBeforeTry(r)
    PROVE  PendingCountsHolders'
<1> DEFINE k == req[r].kind
           u == req[r].tok
<1>1. pending \in Counts /\ leaked \in Counts /\ leaked' \in Counts
  BY CountsOK, BoundAssumption DEF TypeOK, Counts
<1>2. Accounted(pending, req, leaked)
  BY AccountedIs
<1>3. k \in Kinds /\ u \in Tokens
  BY RequestTypes
<1>4. OnlyMoves(req, req', r) /\ req'[r] = NoRequest
  BY DEF DisconnectBeforeTry, End, OnlyMoves, TypeOK
<1>5. Balanced(pending, pending, req, req', leaked, leaked', r)
  <2> SUFFICES ASSUME NEW kind \in Kinds, NEW t \in Tokens
               PROVE  pending[kind][t] - leaked'[kind][t] =
                        pending[kind][t] - leaked[kind][t]
                          + Weight(req'[r], kind, t) - Weight(req[r], kind, t)
    BY DEF Balanced
  <2>1. pending[kind][t] \in Nat /\ leaked[kind][t] \in Nat
    BY <1>1 DEF Counts
  <2>2. Weight(req'[r], kind, t) = 0
    BY <1>4 DEF Weight, Holds, NoRequest, HoldingPcs
  <2>3. Weight(req[r], kind, t) = IF kind = k /\ t = u THEN 1 ELSE 0
    BY DEF Weight, Holds, DisconnectBeforeTry, HoldingPcs
  <2>4. leaked'[kind][t] = IF kind = k /\ t = u THEN leaked[kind][t] + 1 ELSE leaked[kind][t]
    BY <1>1, <1>3 DEF DisconnectBeforeTry, Counts
  <2> HIDE DEF k, u
  <2>5. QED  BY <2>1, <2>2, <2>3, <2>4
<1>6. pending' = pending
  BY DEF DisconnectBeforeTry
<1>7. Accounted(pending', req', leaked')
  BY <1>1, <1>2, <1>4, <1>5, <1>6, AccountedStep
<1>8. QED  BY <1>7, AccountedNext

LEMMA InitBalanced == Init => PendingCountsHolders
<1> SUFFICES ASSUME Init, NEW kind \in Kinds, NEW t \in Tokens
             PROVE  pending[kind][t] = Cardinality(Holders(kind, t)) + leaked[kind][t]
  BY DEF PendingCountsHolders
<1>1. Holders(kind, t) = {}
  BY DEF Holders, Init, NoRequest, HoldingPcs
<1>2. pending[kind][t] = 0 /\ leaked[kind][t] = 0
  BY DEF Init, Zero
<1>3. QED  BY <1>1, <1>2, FS_EmptySet

\* A request that neither held a slot before the step nor holds one after it.
LEMMA NeverHeld ==
    ASSUME NEW x, NEW y, x.pc \notin HoldingPcs, y.pc \notin HoldingPcs
    PROVE  \A kind \in Kinds, t \in Tokens : Weight(y, kind, t) = Weight(x, kind, t)
BY DEF Weight, Holds

\* A request that keeps the slot it holds.
LEMMA KeepsSlot ==
    ASSUME NEW x, NEW y, x.pc \in HoldingPcs, y.pc \in HoldingPcs,
           y.kind = x.kind, y.tok = x.tok
    PROVE  \A kind \in Kinds, t \in Tokens : Weight(y, kind, t) = Weight(x, kind, t)
BY DEF Weight, Holds

\* Only requests that edit a video are probed for, and they are video requests: the
\* slot that the probe takes is of the kind that the finally clause gives back.
EditsAreVideos ==
    \A r \in Requests :
        /\ req[r].edit => req[r].kind = "video"
        /\ req[r].pc = "probing" => req[r].edit

LEMMA EditsStep == TypeOK /\ EditsAreVideos /\ [Next]_vars => EditsAreVideos'
<1> SUFFICES ASSUME TypeOK, EditsAreVideos, [Next]_vars, NEW r \in Requests
             PROVE  /\ req'[r].edit => req'[r].kind = "video"
                    /\ req'[r].pc = "probing" => req'[r].edit
  BY DEF EditsAreVideos
<1>1. req \in [Requests -> RequestStates]
  BY DEF TypeOK
<1>2. CASE \E q \in Requests : Arrive(q)
  <2>1. PICK q \in Requests, m \in Demands :
           req' = [req EXCEPT ![q] = [NoRequest EXCEPT !.pc = "select", !.kind = m.kind,
                                        !.edit = m.edit, !.needs = m.needs]]
    BY <1>2 DEF Arrive
  <2>2. m.edit => m.kind = "video"
    BY DemandsAssumption DEF Models
  <2>3. CASE q = r
    BY <1>1, <2>1, <2>2, <2>3 DEF NoRequest
  <2>4. CASE q # r
    BY <1>1, <2>1, <2>4 DEF EditsAreVideos
  <2>5. QED  BY <2>3, <2>4
<1>3. CASE req'[r] = req[r]
  BY <1>3 DEF EditsAreVideos
<1>4. CASE \E q \in Requests : End(q)
  BY <1>1, <1>4 DEF End, NoRequest, EditsAreVideos
<1>5. CASE \E q \in Requests, pc \in Pcs \ {"probing"} : Goto(q, pc)
  <2>1. PICK q \in Requests, pc \in Pcs \ {"probing"} : req' = [req EXCEPT ![q].pc = pc]
    BY <1>5 DEF Goto
  <2>2. /\ req'[r].edit = req[r].edit /\ req'[r].kind = req[r].kind
        /\ req'[r].pc = req[r].pc \/ req'[r].pc # "probing"
    BY <1>1, <2>1 DEF RequestStates
  <2>3. QED  BY <2>2 DEF EditsAreVideos
<1>6. CASE \E q \in Requests : \E t : Chosen(q, t)
  <2>1. PICK q \in Requests : \E t :
           req' = [req EXCEPT ![q].pc = "selected", ![q].tok = t, ![q].order = <<>>]
    BY <1>6 DEF Chosen
  <2>2. /\ req'[r].edit = req[r].edit /\ req'[r].kind = req[r].kind
        /\ req'[r].pc = req[r].pc \/ req'[r].pc # "probing"
    BY <1>1, <2>1 DEF RequestStates
  <2>3. QED  BY <2>2 DEF EditsAreVideos
<1>7. CASE \E q \in Requests : Select(q)
  <2>1. PICK q \in Requests : \E order :
           IF acct[order[1]].fresh
           THEN Chosen(q, order[1]) /\ AddPending(req[q].kind, order[1])
           ELSE /\ req' = [req EXCEPT ![q].pc = "refreshing", ![q].order = order]
                /\ UNCHANGED pending
    BY <1>7 DEF Select
  <2>2. PICK order :
           IF acct[order[1]].fresh
           THEN Chosen(q, order[1]) /\ AddPending(req[q].kind, order[1])
           ELSE /\ req' = [req EXCEPT ![q].pc = "refreshing", ![q].order = order]
                /\ UNCHANGED pending
    BY <2>1
  <2>3. CASE acct[order[1]].fresh
    BY <1>6, <2>2, <2>3
  <2>4. CASE ~acct[order[1]].fresh
    <3>1. req' = [req EXCEPT ![q].pc = "refreshing", ![q].order = order]
      BY <2>2, <2>4
    <3>2. /\ req'[r].edit = req[r].edit /\ req'[r].kind = req[r].kind
          /\ req'[r].pc = req[r].pc \/ req'[r].pc # "probing"
      BY <1>1, <3>1 DEF RequestStates
    <3>3. QED  BY <3>2 DEF EditsAreVideos
  <2>5. QED  BY <2>3, <2>4
<1>8. CASE \E q \in Requests : ProbeStart(q)
  <2>1. PICK q \in Requests : ProbeStart(q)
    BY <1>8
  <2>2. CASE End(q)
    BY <1>4, <2>2
  <2>3. CASE \E owner \in Tokens : req' = [req EXCEPT ![q].pc = "probing", ![q].tok = owner]
    <3>1. PICK owner \in Tokens : req' = [req EXCEPT ![q].pc = "probing", ![q].tok = owner]
      BY <2>3
    <3>2. req[q].edit
      BY <2>1 DEF ProbeStart
    <3>3. /\ req'[r].edit = req[r].edit /\ req'[r].kind = req[r].kind
          /\ req'[r].pc = req[r].pc \/ r = q
      BY <1>1, <3>1 DEF RequestStates
    <3>4. QED  BY <3>2, <3>3 DEF EditsAreVideos
  <2>4. QED  BY <2>1, <2>2, <2>3 DEF ProbeStart, Eligible
<1>9. CASE \E q \in Requests : RefreshRefused(q) \/ QuotaRefused(q)
  <2>1. PICK q \in Requests : RefreshRefused(q) \/ QuotaRefused(q)
    BY <1>9
  <2>2. CASE End(q)
    BY <1>4, <2>2
  <2>3. CASE req' = [req EXCEPT ![q].order = Tail(@)]
    <3>1. /\ req'[r].edit = req[r].edit /\ req'[r].kind = req[r].kind
          /\ req'[r].pc = req[r].pc
      BY <1>1, <2>3 DEF RequestStates
    <3>2. QED  BY <3>1 DEF EditsAreVideos
  <2>4. CASE QuotaRefused(q)
    <3>1. req' = [req EXCEPT ![q].pc = "marking", ![q].read = acct[req[q].tok].credits]
      BY <2>4 DEF QuotaRefused
    <3>2. /\ req'[r].edit = req[r].edit /\ req'[r].kind = req[r].kind
          /\ req'[r].pc = req[r].pc \/ req'[r].pc # "probing"
      BY <1>1, <3>1 DEF RequestStates
    <3>3. QED  BY <3>2 DEF EditsAreVideos
  <2>5. QED  BY <2>1, <2>2, <2>3, <2>4 DEF RefreshRefused
<1>10. CASE \E q \in Requests : RequestStep(q) \/ ClientStep(q)
  <2>1. PICK q \in Requests : RequestStep(q) \/ ClientStep(q)
    BY <1>10
  <2>2. CASE SelectNone(q) \/ DisconnectEarly(q) \/ DisconnectBeforeTry(q) \/ Release(q)
    BY <1>4, <2>2 DEF SelectNone, DisconnectEarly, DisconnectBeforeTry, Release
  <2>3. CASE RefreshAnswered(q) \/ ProbeAnswered(q)
    BY <1>4, <1>6, <2>3 DEF RefreshAnswered, ProbeAnswered
  <2>4. CASE EnterTry(q) \/ Check(q) \/ Succeed(q) \/ MarkExhausted(q) \/ Abort(q)
    BY <1>5, <2>4 DEF EnterTry, Check, Succeed, MarkExhausted, Abort, Pcs
  <2>5. QED
    BY <1>2, <1>7, <1>8, <1>9, <2>1, <2>2, <2>3, <2>4 DEF RequestStep, ClientStep
<1>11. CASE \E t \in Tokens : AccountStep(t)
  <2>1. UNCHANGED req
    BY <1>11 DEF AccountStep, AtExpires, AtRenewed, Toggle, Recharge, MarkCools,
                 ResetToken, RemoveToken, OnlyAccounts
  <2>2. QED  BY <1>3, <2>1
<1>12. CASE SetCallLogicMode \/ UNCHANGED vars
  BY <1>3, <1>12 DEF SetCallLogicMode, vars
<1>13. QED  BY <1>10, <1>11, <1>12 DEF Next

LEMMA EditsInit == Init => EditsAreVideos
BY DEF Init, EditsAreVideos, NoRequest

\* A step of a request or of its client.
LEMMA RequestStepBalanced ==
    ASSUME TypeOK, TypeOK', EditsAreVideos, PendingCountsHolders, NEW r \in Requests,
           RequestStep(r) \/ ClientStep(r)
    PROVE  PendingCountsHolders'
<1>1. req[r] \in RequestStates /\ req \in [Requests -> RequestStates]
  BY DEF TypeOK
<1>2. CASE Arrive(r)
  <2>1. OnlyMoves(req, req', r) /\ req'[r].pc = "select" /\ UNCHANGED <<pending, leaked>>
    BY <1>1, <1>2 DEF Arrive, OnlyMoves, NoRequest, OnlyRequests
  <2>2. req[r].pc \notin HoldingPcs /\ req'[r].pc \notin HoldingPcs
    BY <1>2, <2>1 DEF Arrive, HoldingPcs
  <2>3. \A kind \in Kinds, t \in Tokens : Weight(req'[r], kind, t) = Weight(req[r], kind, t)
    BY <2>2, NeverHeld
  <2>4. QED  BY <2>1, <2>3, SameSlots
<1>3. CASE SelectNone(r) \/ RefreshRefused(r) \/ ProbeStart(r) \/ DisconnectEarly(r)
  <2>1. OnlyMoves(req, req', r) /\ UNCHANGED <<pending, leaked>>
    BY <1>1, <1>3
    DEF SelectNone, RefreshRefused, ProbeStart, DisconnectEarly, End, OnlyMoves, OnlyRequests
  <2>2. req[r].pc \notin HoldingPcs
    BY <1>3 DEF SelectNone, RefreshRefused, ProbeStart, DisconnectEarly, HoldingPcs
  <2>3. req'[r].pc \notin HoldingPcs
    <3>1. req'[r] = NoRequest \/ req'[r].pc \in {"refreshing", "probing"}
      BY <1>1, <1>3 DEF SelectNone, RefreshRefused, ProbeStart, DisconnectEarly, End, RequestStates
    <3>2. QED  BY <3>1 DEF NoRequest, HoldingPcs
  <2>4. \A kind \in Kinds, t \in Tokens : Weight(req'[r], kind, t) = Weight(req[r], kind, t)
    BY <2>2, <2>3, NeverHeld
  <2>5. QED  BY <2>1, <2>4, SameSlots
<1>4. CASE Select(r)
  <2>1. PICK order : IF acct[order[1]].fresh
                     THEN Chosen(r, order[1]) /\ AddPending(req[r].kind, order[1])
                     ELSE /\ req' = [req EXCEPT ![r].pc = "refreshing", ![r].order = order]
                          /\ UNCHANGED pending
    BY <1>4 DEF Select
  <2>2. UNCHANGED leaked /\ req[r].pc = "select"
    BY <1>4 DEF Select
  <2>3. CASE acct[order[1]].fresh
    <3>1. Chosen(r, order[1]) /\ AddPending(req[r].kind, order[1])
      BY <2>1, <2>3
    <3>2. /\ OnlyMoves(req, req', r) /\ req'[r].pc = "selected"
          /\ req'[r].kind = req[r].kind /\ req'[r].tok = order[1]
      BY <1>1, <3>1 DEF Chosen, OnlyMoves, RequestStates
    <3>3. req[r].pc \notin HoldingPcs /\ req'[r].pc \in HoldingPcs
      BY <2>2, <3>2 DEF HoldingPcs
    <3>4. QED  BY <2>2, <3>1, <3>2, <3>3, SlotTaken
  <2>4. CASE ~acct[order[1]].fresh
    <3>1. req' = [req EXCEPT ![r].pc = "refreshing", ![r].order = order] /\ UNCHANGED pending
      BY <2>1, <2>4
    <3>2. OnlyMoves(req, req', r) /\ req'[r].pc = "refreshing"
      BY <1>1, <3>1 DEF OnlyMoves, RequestStates
    <3>3. req[r].pc \notin HoldingPcs /\ req'[r].pc \notin HoldingPcs
      BY <2>2, <3>2 DEF HoldingPcs
    <3>4. \A kind \in Kinds, t \in Tokens : Weight(req'[r], kind, t) = Weight(req[r], kind, t)
      BY <3>3, NeverHeld
    <3>5. QED  BY <2>2, <3>1, <3>2, <3>4, SameSlots
  <2>5. QED  BY <2>3, <2>4
<1>5. CASE RefreshAnswered(r)
  <2>1. /\ OnlyMoves(req, req', r) /\ req'[r].pc = "selected" /\ UNCHANGED leaked
        /\ req'[r].kind = req[r].kind /\ req'[r].tok = Head(req[r].order)
    BY <1>1, <1>5 DEF RefreshAnswered, Chosen, OnlyMoves, RequestStates
  <2>2. AddPending(req'[r].kind, req'[r].tok)
    BY <1>5, <2>1 DEF RefreshAnswered
  <2>3. req[r].pc \notin HoldingPcs /\ req'[r].pc \in HoldingPcs
    BY <1>5, <2>1 DEF RefreshAnswered, HoldingPcs
  <2>4. QED  BY <2>1, <2>2, <2>3, SlotTaken
<1>6. CASE ProbeAnswered(r)
  <2>1. req[r].pc = "probing" /\ UNCHANGED leaked
    BY <1>6 DEF ProbeAnswered
  <2>2. CASE Chosen(r, req[r].tok) /\ AddPending("video", req[r].tok)
    <3>1. /\ OnlyMoves(req, req', r) /\ req'[r].pc = "selected"
          /\ req'[r].kind = req[r].kind /\ req'[r].tok = req[r].tok
      BY <1>1, <2>2 DEF Chosen, OnlyMoves, RequestStates
    <3>2. AddPending(req'[r].kind, req'[r].tok)
      BY <2>1, <2>2, <3>1 DEF EditsAreVideos
    <3>3. req[r].pc \notin HoldingPcs /\ req'[r].pc \in HoldingPcs
      BY <2>1, <3>1 DEF HoldingPcs
    <3>4. QED  BY <2>1, <3>1, <3>2, <3>3, SlotTaken
  <2>3. CASE End(r) /\ UNCHANGED pending
    <3>1. OnlyMoves(req, req', r) /\ req'[r] = NoRequest
      BY <1>1, <2>3 DEF End, OnlyMoves
    <3>2. req[r].pc \notin HoldingPcs /\ req'[r].pc \notin HoldingPcs
      BY <2>1, <3>1 DEF NoRequest, HoldingPcs
    <3>3. \A kind \in Kinds, t \in Tokens : Weight(req'[r], kind, t) = Weight(req[r], kind, t)
      BY <3>2, NeverHeld
    <3>4. QED  BY <2>1, <2>3, <3>1, <3>3, SameSlots
  <2>4. QED  BY <1>6, <2>2, <2>3 DEF ProbeAnswered
<1>7. CASE \/ EnterTry(r) \/ Check(r) \/ Succeed(r) \/ QuotaRefused(r)
           \/ MarkExhausted(r) \/ Abort(r)
  <2>1. OnlyMoves(req, req', r) /\ UNCHANGED <<pending, leaked>>
    BY <1>1, <1>7
    DEF EnterTry, Check, Succeed, QuotaRefused, MarkExhausted, Abort, Goto, OnlyMoves,
        OnlyRequests
  <2>2. /\ req[r].pc \in HoldingPcs /\ req'[r].pc \in HoldingPcs
        /\ req'[r].kind = req[r].kind /\ req'[r].tok = req[r].tok
    BY <1>1, <1>7
    DEF EnterTry, Check, Succeed, QuotaRefused, MarkExhausted, Abort, Goto, HoldingPcs,
        RequestStates
  <2>3. \A kind \in Kinds, t \in Tokens : Weight(req'[r], kind, t) = Weight(req[r], kind, t)
    BY <2>2, KeepsSlot
  <2>4. QED  BY <2>1, <2>3, SameSlots
<1>8. CASE Release(r)
  BY <1>8, SlotReleased
<1>9. CASE DisconnectBeforeTry(r)
  BY <1>9, SlotLeaked
<1>10. QED
  BY <1>2, <1>3, <1>4, <1>5, <1>6, <1>7, <1>8, <1>9 DEF RequestStep, ClientStep

LEMMA NextBalanced ==
    TypeOK /\ TypeOK' /\ EditsAreVideos /\ PendingCountsHolders /\ [Next]_vars => PendingCountsHolders'
<1> SUFFICES ASSUME TypeOK, TypeOK', EditsAreVideos, PendingCountsHolders, [Next]_vars
             PROVE  PendingCountsHolders'
  OBVIOUS
<1>1. CASE \E r \in Requests : RequestStep(r) \/ ClientStep(r)
  BY <1>1, RequestStepBalanced
<1>2. CASE UNCHANGED <<pending, req, leaked>>
  <2>1. Accounted(pending', req', leaked')
    BY <1>2, AccountedIs
  <2>2. QED  BY <2>1, AccountedNext
<1>3. CASE \E t \in Tokens : AccountStep(t)
  <2>1. UNCHANGED <<pending, req, leaked>>
    BY <1>3 DEF AccountStep, AtExpires, AtRenewed, Toggle, Recharge, MarkCools,
                ResetToken, RemoveToken, OnlyAccounts
  <2>2. QED  BY <1>2, <2>1
<1>4. CASE SetCallLogicMode
  BY <1>2, <1>4 DEF SetCallLogicMode
<1>5. CASE UNCHANGED vars
  BY <1>2, <1>5 DEF vars
<1>6. QED  BY <1>1, <1>3, <1>4, <1>5 DEF Next

\* For every fleet, any number of requests and every interleaving, the pending count
\* of an account is the number of requests that hold it plus what disconnects leaked.
THEOREM SlotsAccountedFor == Spec => []PendingCountsHolders
BY InitBalanced, NextBalanced, EditsInit, EditsStep, TypeCorrect, PTL DEF Spec

(***************************************************************************)
(* Selection.  Whatever step takes a request from its selection to an      *)
(* account, it is the selection of that request.                           *)
(***************************************************************************)
LEMMA OnlySelectAssigns ==
    ASSUME TypeOK, [Next]_vars, NEW r \in Requests, NEW t \in Tokens,
           req[r].pc = "select", Assigned(r, t)
    PROVE  Select(r)
<1>1. req \in [Requests -> RequestStates] /\ req[r] \in RequestStates
  BY DEF TypeOK
<1>2. req'[r].pc = "selected" /\ req'[r].pc # req[r].pc
  BY DEF Assigned
<1>3. \A q \in Requests : End(q) => req'[r].pc = req[r].pc \/ req'[r].pc = "idle"
  BY <1>1 DEF End, NoRequest
<1>4. PICK q \in Requests : RequestStep(q) \/ ClientStep(q)
  <2>1. CASE \E u \in Tokens : AccountStep(u)
    BY <1>2, <2>1 DEF AccountStep, AtExpires, AtRenewed, Toggle, Recharge, MarkCools,
                      ResetToken, RemoveToken, OnlyAccounts
  <2>2. CASE SetCallLogicMode \/ UNCHANGED vars
    BY <1>2, <2>2 DEF SetCallLogicMode, vars
  <2>3. QED  BY <2>1, <2>2 DEF Next
<1>5. ~Arrive(q)
  <2> SUFFICES ASSUME Arrive(q) PROVE FALSE
    OBVIOUS
  <2>1. PICK m \in Demands :
           req' = [req EXCEPT ![q] = [NoRequest EXCEPT !.pc = "select", !.kind = m.kind,
                                        !.edit = m.edit, !.needs = m.needs]]
    BY DEF Arrive
  <2>2. req'[r] = req[r] \/ req'[r].pc = "select"
    BY <1>1, <2>1 DEF NoRequest
  <2>3. QED  BY <1>2, <2>2
<1>6. q = r
  <2> SUFFICES ASSUME q # r PROVE req'[r] = req[r]
    BY <1>2
  <2>1. CASE Select(q)
    <3>1. PICK order :
             IF acct[order[1]].fresh
             THEN Chosen(q, order[1]) /\ AddPending(req[q].kind, order[1])
             ELSE /\ req' = [req EXCEPT ![q].pc = "refreshing", ![q].order = order]
                  /\ UNCHANGED pending
      BY <2>1 DEF Select
    <3>2. QED  BY <1>1, <3>1 DEF Chosen
  <2>2. CASE ~Select(q)
    BY <1>1, <1>4, <1>5, <2>2
    DEF RequestStep, ClientStep, SelectNone, RefreshAnswered, RefreshRefused, ProbeStart,
        ProbeAnswered, EnterTry, Check, Succeed, QuotaRefused, MarkExhausted, Abort, Release,
        DisconnectEarly, DisconnectBeforeTry, End, Chosen, Goto
  <2>3. QED  BY <2>1, <2>2
<1>7. ~ProbeStart(r)
  <2> SUFFICES ASSUME ProbeStart(r) PROVE FALSE
    OBVIOUS
  <2>1. CASE End(r)
    BY <1>2, <1>3, <2>1
  <2>2. CASE \E owner : req' = [req EXCEPT ![r].pc = "probing", ![r].tok = owner]
    <3>1. req'[r].pc = "probing"
      BY <1>1, <2>2 DEF RequestStates
    <3>2. QED  BY <1>2, <3>1
  <2>3. QED  BY <2>1, <2>2 DEF ProbeStart
<1>8. ~SelectNone(r) /\ ~DisconnectEarly(r)
  BY <1>2, <1>3 DEF SelectNone, DisconnectEarly
<1>9. QED
  BY <1>4, <1>5, <1>6, <1>7, <1>8
  DEF RequestStep, ClientStep, RefreshAnswered, RefreshRefused, ProbeAnswered, EnterTry,
      Check, Succeed, QuotaRefused, MarkExhausted, Abort, Release, DisconnectBeforeTry

\* With ready candidates and a free one among them, the order never starts with a
\* full one: readiness and saturation are the first two components of the key.
LEMMA FreeComesFirst ==
    ASSUME NEW kind, NEW needs, NEW S, S \subseteq Tokens, S # {},
           NEW order \in LoadOrders(kind, needs, S), NEW u \in S,
           acct[order[1]].fresh, acct[u].fresh, Saturated(kind, order[1])
    PROVE  Saturated(kind, u)
<1> SUFFICES ASSUME ~Saturated(kind, u) PROVE FALSE
  OBVIOUS
<1> DEFINE t == order[1]
           k == SortKey(kind, needs, u)
           l == SortKey(kind, needs, t)
<1>1. order \in Enumerations(S)
  BY DEF LoadOrders
<1>2. 1 \in DOMAIN order /\ \A i \in DOMAIN order : i \in Nat /\ 1 <= i
  BY <1>1, OrderType
<1>3. PICK i \in DOMAIN order : order[i] = u
  BY <1>1, OrderType
<1>4. 1 < i
  BY <1>2, <1>3
<1>5. ~Precedes(k, l)
  BY <1>2, <1>3, <1>4 DEF LoadOrders
<1>6. k[1] = 0 /\ l[1] = 0 /\ k[2] = 0 /\ l[2] = 1
  BY DEF SortKey, Flag
<1> HIDE DEF k, l
<1>7. Precedes(k, l)
  <2>1. 2 \in 1..6 /\ k[2] < l[2]
    BY <1>6
  <2>2. \A j \in 1..(2 - 1) : k[j] = l[j]
    BY <1>6
  <2>3. QED  BY <2>1, <2>2 DEF Precedes
<1>8. QED  BY <1>5, <1>7

LEMMA StepOverflows ==
    ASSUME TypeOK, [Next]_vars, ~polling, NEW r \in Requests, NEW t \in Tokens,
           req[r].pc = "select", Assigned(r, t), Saturated(req[r].kind, t),
           NEW u \in Eligible(req[r].kind, req[r].needs), acct[u].fresh
    PROVE  Saturated(req[r].kind, u)
<1> DEFINE S == Eligible(req[r].kind, req[r].needs)
<1>1. Select(r)
  BY OnlySelectAssigns
<1>2. PICK order \in Enumerations(S) :
         /\ OrderCandidates(req[r].kind, req[r].needs, S, order)
         /\ IF acct[order[1]].fresh
            THEN Chosen(r, order[1]) /\ AddPending(req[r].kind, order[1])
            ELSE /\ req' = [req EXCEPT ![r].pc = "refreshing", ![r].order = order]
                 /\ UNCHANGED pending
  BY <1>1 DEF Select
<1>3. req \in [Requests -> RequestStates] /\ req'[r].pc = "selected" /\ req'[r].tok = t
  BY DEF TypeOK, Assigned
<1>4. acct[order[1]].fresh
  <2> SUFFICES ASSUME ~acct[order[1]].fresh PROVE FALSE
    OBVIOUS
  <2>1. req'[r].pc = "refreshing"
    BY <1>2, <1>3 DEF RequestStates
  <2>2. QED  BY <1>3, <2>1
<1>5. order[1] = t
  <2>1. req'[r].tok = order[1]
    BY <1>2, <1>3, <1>4 DEF Chosen, RequestStates
  <2>2. QED  BY <1>3, <2>1
<1>6. order \in LoadOrders(req[r].kind, req[r].needs, S)
  BY <1>2 DEF OrderCandidates
<1>7. S \subseteq Tokens /\ S # {}
  BY EligibleType
<1> HIDE DEF S
<1>8. u \in S
  BY DEF S
<1>9. QED  BY <1>4, <1>5, <1>6, <1>7, <1>8, FreeComesFirst

\* For every fleet and any limits: outside polling mode a request is put on a full
\* account only when every candidate that is ready is full.
THEOREM BurstsOverflow == Spec => BurstOverflows
<1>1. TypeOK /\ [Next]_vars =>
        [~polling =>
            \A r \in Requests, t \in Tokens :
                req[r].pc = "select" /\ Assigned(r, t) /\ Saturated(req[r].kind, t) =>
                    \A u \in Eligible(req[r].kind, req[r].needs) :
                        acct[u].fresh => Saturated(req[r].kind, u)]_vars
  BY StepOverflows
<1>2. QED  BY <1>1, TypeCorrect, PTL DEF Spec, BurstOverflows

(***************************************************************************)
(* The round robin.  A lap is an arc of its candidates, in the order of    *)
(* their ids and round from the last to the first, that ends with the      *)
(* account chosen last.                                                    *)
(***************************************************************************)
Arc(l, start, end) ==
    \A t \in l.of :
        t \in l.served <=> IF start <= end THEN start <= t /\ t <= end
                           ELSE start <= t \/ t <= end

LapFits(l, end) ==
    /\ l.served \subseteq l.of
    /\ l.served = {} => l.of = {}
    /\ l.served # {} => end \in l.served /\ \E start \in l.served : Arc(l, start, end)

LapsFit == \A kind \in Kinds : LapFits(lap[kind], last[kind])

\* The choice after `previous': the next candidate, or the first when there is none.
LEMMA RoundRobinChoice ==
    ASSUME NEW S, S \subseteq Tokens, NEW previous \in S, NEW t \in RoundRobin(S, previous)
    PROVE  /\ t \in S
           /\ \/ previous < t /\ \A u \in S : previous < u => t <= u
              \/ (\A u \in S : u <= previous) /\ (\A u \in S : t <= u)
<1>1. \A u \in S : u \in Nat
  BY TokensAssumption
<1> DEFINE after == {u \in S : u > previous}
<1>2. CASE after # {}
  <2>1. t \in after /\ \A u \in after : t <= u
    BY <1>2 DEF RoundRobin, Least
  <2>2. QED  BY <1>1, <2>1
<1>3. CASE after = {}
  <2>1. t \in S /\ \A u \in S : t <= u
    BY <1>3 DEF RoundRobin, Least
  <2>2. \A u \in S : u <= previous
    BY <1>1, <1>3
  <2>3. QED  BY <2>1, <2>2
<1>4. QED  BY <1>2, <1>3

\* While the candidates stay the same the choice is new to the lap, or the lap is full.
LEMMA ChoiceIsNew ==
    ASSUME NEW l \in Laps, NEW end, LapFits(l, end), l.of # {}, NEW t \in RoundRobin(l.of, end)
    PROVE  t \notin l.served \/ l.served = l.of
<1>1. l.of \subseteq Tokens /\ l.served \subseteq l.of /\ l.served # {}
  BY DEF LapFits, Laps
<1>2. PICK start \in l.served : Arc(l, start, end)
  BY <1>1 DEF LapFits
<1>3. end \in l.served /\ end \in l.of
  BY <1>1 DEF LapFits
<1>4. \A u \in l.of : u \in Nat
  BY <1>1, TokensAssumption
<1>5. /\ t \in l.of
      /\ \/ end < t /\ \A u \in l.of : end < u => t <= u
         \/ (\A u \in l.of : u <= end) /\ (\A u \in l.of : t <= u)
  BY <1>1, <1>3, RoundRobinChoice
<1>6. SUFFICES ASSUME t \in l.served, NEW u \in l.of PROVE u \in l.served
  BY <1>1
<1>7. start \in l.of
  BY <1>1
<1>8. QED  BY <1>2, <1>3, <1>4, <1>5, <1>6, <1>7 DEF Arc

\* The choice prolongs the arc, or begins another one.
LEMMA LapAfterFits ==
    ASSUME NEW l \in Laps, NEW end, LapFits(l, end),
           NEW S, S \subseteq Tokens, S # {}, NEW t \in RoundRobin(S, end)
    PROVE  LapFits(LapAfter(l, S, t), t)
<1>1. t \in S /\ \A u \in S : u \in Nat
  BY RoundRobinType, TokensAssumption
<1>2. CASE ~AllReady(S)
  <2>1. LapAfter(l, S, t) = NoLap
    BY <1>2 DEF LapAfter
  <2>2. QED  BY <2>1 DEF NoLap, LapFits
<1>3. CASE AllReady(S) /\ (S # l.of \/ t \in l.served)
  <2> DEFINE z == [of |-> S, served |-> {t}]
  <2>1. LapAfter(l, S, t) = z
    BY <1>3 DEF LapAfter
  <2>2. z.of = S /\ z.served = {t}
    OBVIOUS
  <2> HIDE DEF z
  <2>3. Arc(z, t, t)
    BY <1>1, <2>2 DEF Arc
  <2>4. QED  BY <1>1, <2>1, <2>2, <2>3 DEF LapFits
<1>4. CASE AllReady(S) /\ S = l.of /\ t \notin l.served
  <2> DEFINE z == [l EXCEPT !.served = @ \cup {t}]
  <2>1. LapAfter(l, S, t) = z
    BY <1>4 DEF LapAfter
  <2>2. z.of = S /\ z.served = l.served \cup {t}
    BY <1>4 DEF Laps
  <2> HIDE DEF z
  <2>3. l.served \subseteq S /\ l.served # {} /\ end \in l.served
    BY <1>4 DEF LapFits
  <2>4. PICK start \in l.served : Arc(l, start, end)
    BY <2>3 DEF LapFits
  <2>5. \/ end < t /\ \A u \in S : end < u => t <= u
        \/ (\A u \in S : u <= end) /\ (\A u \in S : t <= u)
    BY <2>3, RoundRobinChoice
  <2>6. start \in S /\ end \in S
    BY <2>3
  <2>7. ASSUME NEW u \in S
        PROVE  u \in z.served <=> IF start <= t THEN start <= u /\ u <= t
                                  ELSE start <= u \/ u <= t
    <3>1. u \in l.served <=> IF start <= end THEN start <= u /\ u <= end
                             ELSE start <= u \/ u <= end
      BY <1>4, <2>4 DEF Arc
    <3>2. ~ (IF start <= end THEN start <= t /\ t <= end ELSE start <= t \/ t <= end)
      BY <1>1, <1>4, <2>4 DEF Arc
    <3>3. u \in z.served <=> (u \in l.served \/ u = t)
      BY <2>2
    <3>4. QED  BY <1>1, <2>5, <2>6, <3>1, <3>2, <3>3
  <2>8. Arc(z, start, t)
    BY <2>2, <2>7 DEF Arc
  <2>9. QED  BY <1>1, <2>1, <2>2, <2>3, <2>8 DEF LapFits
<1>5. QED  BY <1>2, <1>3, <1>4

\* Only the round robin moves the cursor, and each time it goes on with the lap.
LEMMA LapsStep == TypeOK /\ LapsFit /\ [Next]_vars => LapsFit'
<1> SUFFICES ASSUME TypeOK, LapsFit, [Next]_vars PROVE LapsFit'
  OBVIOUS
<1>1. CASE UNCHANGED <<last, lap>>
  BY <1>1 DEF LapsFit
<1>2. ASSUME NEW r \in Requests, Select(r) PROVE LapsFit'
  <2> DEFINE k == req[r].kind
             S == Eligible(req[r].kind, req[r].needs)
  <2>1. PICK order \in Enumerations(S) : OrderCandidates(k, req[r].needs, S, order)
    BY <1>2 DEF Select
  <2>2. CASE UNCHANGED <<last, lap>>
    BY <1>1, <2>2
  <2>3. CASE \E first \in RoundRobin(S, last[k]) :
               /\ last' = [last EXCEPT ![k] = first]
               /\ lap' = [lap EXCEPT ![k] = LapAfter(@, S, first)]
    <3>1. PICK first \in RoundRobin(S, last[k]) :
               /\ last' = [last EXCEPT ![k] = first]
               /\ lap' = [lap EXCEPT ![k] = LapAfter(@, S, first)]
      BY <2>3
    <3>2. S \subseteq Tokens /\ S # {}
      BY <1>2, EligibleType DEF Select
    <3>3. lap \in [Kinds -> Laps] /\ last \in [Kinds -> Tokens \cup {0}] /\ k \in Kinds
      BY DEF TypeOK, RequestStates
    <3> HIDE DEF S, k
    <3>4. LapFits(LapAfter(lap[k], S, first), first)
      BY <3>2, <3>3, LapAfterFits DEF LapsFit
    <3>5. \A kind \in Kinds :
             /\ kind = k => lap'[kind] = LapAfter(lap[k], S, first) /\ last'[kind] = first
             /\ kind # k => lap'[kind] = lap[kind] /\ last'[kind] = last[kind]
      BY <3>1, <3>3
    <3>6. ASSUME NEW kind \in Kinds PROVE LapFits(lap'[kind], last'[kind])
      BY <3>4, <3>5 DEF LapsFit
    <3>7. QED  BY <3>6 DEF LapsFit, LapFits, Arc
  <2>4. QED  BY <2>1, <2>2, <2>3 DEF OrderCandidates
<1>3. ASSUME NEW r \in Requests, RequestStep(r) \/ ClientStep(r), ~Select(r)
      PROVE  UNCHANGED <<last, lap>>
  BY <1>3 DEF RequestStep, ClientStep, SelectNone, RefreshAnswered, RefreshRefused, ProbeStart,
     ProbeAnswered, EnterTry, Check, Succeed, QuotaRefused, MarkExhausted, Abort, Release,
     Arrive, DisconnectEarly, DisconnectBeforeTry, OnlyRequests
<1>4. ASSUME NEW t \in Tokens, AccountStep(t) PROVE UNCHANGED <<last, lap>>
  BY <1>4 DEF AccountStep, AtExpires, AtRenewed, Toggle, Recharge, MarkCools, ResetToken,
     RemoveToken, OnlyAccounts
<1>5. CASE SetCallLogicMode \/ UNCHANGED vars
  BY <1>1, <1>5 DEF SetCallLogicMode, vars
<1>6. QED  BY <1>1, <1>2, <1>3, <1>4, <1>5 DEF Next

LEMMA LapsInit == Init => LapsFit
BY DEF Init, LapsFit, LapFits, NoLap

\* When nobody needs a refresh the round robin's choice comes first in the order.
LEMMA ChoiceComesFirst ==
    ASSUME NEW S, S \subseteq Tokens, S # {}, AllReady(S), NEW first \in S,
           NEW order \in PollingOrders(S, first)
    PROVE  order[1] = first
<1>1. order \in Enumerations(S)
  BY DEF PollingOrders
<1>2. 1 \in DOMAIN order /\ \A i \in DOMAIN order : i \in Nat /\ 1 <= i
  BY <1>1, OrderType
<1>3. PICK i \in DOMAIN order : order[i] = first
  BY <1>1, OrderType
<1>4. order[1] \in S
  BY <1>1, OrderType
<1>5. SUFFICES ASSUME i # 1 PROVE FALSE
  BY <1>3
<1>6. 1 < i
  BY <1>2, <1>5
<1>7. \/ acct[order[1]].fresh /\ ~acct[order[i]].fresh
      \/ order[i] # first
  BY <1>2, <1>6 DEF PollingOrders
<1>8. QED  BY <1>3, <1>7 DEF AllReady

LEMMA StepTakesTurns ==
    ASSUME TypeOK, LapsFit, [Next]_vars, polling, NEW r \in Requests, NEW t \in Tokens,
           req[r].pc = "select", Assigned(r, t),
           AllReady(Eligible(req[r].kind, req[r].needs)),
           Eligible(req[r].kind, req[r].needs) = lap[req[r].kind].of
    PROVE  \/ t \notin lap[req[r].kind].served
           \/ lap[req[r].kind].served = Eligible(req[r].kind, req[r].needs)
<1> DEFINE k == req[r].kind
           S == Eligible(req[r].kind, req[r].needs)
<1>1. Select(r)
  BY OnlySelectAssigns
<1>2. PICK order \in Enumerations(S) :
         /\ OrderCandidates(k, req[r].needs, S, order)
         /\ IF acct[order[1]].fresh
            THEN Chosen(r, order[1]) /\ AddPending(k, order[1])
            ELSE /\ req' = [req EXCEPT ![r].pc = "refreshing", ![r].order = order]
                 /\ UNCHANGED pending
  BY <1>1 DEF Select
<1>3. PICK first \in RoundRobin(S, last[k]) : order \in PollingOrders(S, first)
  BY <1>2 DEF OrderCandidates
<1>4. /\ req \in [Requests -> RequestStates] /\ req'[r].pc = "selected" /\ req'[r].tok = t
      /\ lap \in [Kinds -> Laps] /\ k \in Kinds
  BY DEF TypeOK, Assigned, RequestStates
<1>5. S \subseteq Tokens /\ S # {} /\ S = lap[k].of /\ AllReady(S)
  BY <1>1, EligibleType DEF Select
<1> HIDE DEF S, k
<1>6. first \in S
  BY <1>3, <1>5, RoundRobinType
<1>7. order[1] = first /\ acct[order[1]].fresh
  BY <1>3, <1>5, <1>6, ChoiceComesFirst DEF AllReady
<1>8. order[1] = t
  BY <1>2, <1>4, <1>7 DEF Chosen, RequestStates
<1>9. first \notin lap[k].served \/ lap[k].served = lap[k].of
  BY <1>3, <1>4, <1>5, ChoiceIsNew DEF LapsFit
<1>10. t \notin lap[k].served \/ lap[k].served = S
  BY <1>5, <1>7, <1>8, <1>9
<1>11. QED  BY <1>10 DEF S, k

\* For any fleet and any number of requests: as long as the candidates of a scenario stay
\* the same and are ready, the round robin chooses each of them before it comes back to
\* any, whatever other scenarios, changes of the mode and changes of the fleet intervene.
THEOREM LapsAreFull == Spec => FullLaps
<1>1. TypeOK /\ LapsFit /\ [Next]_vars =>
        [polling =>
            \A r \in Requests, t \in Tokens :
                LET l == lap[req[r].kind]
                    S == Eligible(req[r].kind, req[r].needs)
                IN req[r].pc = "select" /\ Assigned(r, t) /\ AllReady(S) /\ S = l.of
                     => t \notin l.served \/ l.served = S]_vars
  BY StepTakesTurns
<1>2. QED  BY <1>1, LapsInit, LapsStep, TypeCorrect, PTL DEF Spec, FullLaps

=============================================================================
