---------------------------- MODULE AlertsProofs ----------------------------
(***************************************************************************)
(* Theorems about Alerts: its types, and that it implements Incidents, for *)
(* any failure codes and any bounds.                                       *)
(***************************************************************************)
EXTENDS Alerts, TLAPS

Outcomes == Codes \cup {Ok}
Hearings == Notices \cup {Silence}

Sound(r) == r \in Records /\ (r.code = NoCode => ~r.alerted)

(* Who heard h last knows the record r.                                    *)
Knows(h, r) ==
  /\ h.episode \leq r.episode
  /\ r.alerted => h = Notice("failure", r.code, r.episode)
  /\ (r.code # NoCode /\ ~r.alerted) => h.episode < r.episode

(* The notice n is news to who heard h last.                               *)
IsNews(h, n) == \/ n.kind = "failure" /\ n.episode > h.episode
                \/ n.kind = "recovery" /\ h = [n EXCEPT !.kind = "failure"]

(* Who knows the record r knows the record next as well.                   *)
KnownWith(r, next) == \A h \in Hearings : Knows(h, r) => Knows(h, next)

(* A notice about to be posted is news to who knows the record r that its  *)
(* runner remembers; confirmed, it tells the next record, and unconfirmed  *)
(* the runner records no more than they know.                              *)
ToPost(a, r) ==
  /\ ~a.acked /\ a.notice \in Notices /\ Knows(a.notice, a.next)
  /\ \A h \in Hearings : Knows(h, r) => IsNews(h, a.notice)
  /\ KnownWith(r, Unconfirmed(r, a.notice, a.next))

(* A record about to be written is told by its notice, or by the record    *)
(* that its runner remembers.                                              *)
ToWrite(a, r) == IF a.acked THEN Knows(a.notice, a.next) ELSE KnownWith(r, a.next)

(* A confirmed notice is the last one heard while nobody else posted.      *)
HeardOf(p) == (Persisting(p) /\ attempt[p].acked /\ teller = p) => heard = attempt[p].notice

InHand(p) == /\ Sending(p) => ToPost(attempt[p], memory[p])
             /\ Persisting(p) => ToWrite(attempt[p], memory[p])
             /\ HeardOf(p)

ToldInv == /\ doubt = "none" => Knows(heard, record)
           /\ \A p \in Procs : InHand(p)

(* No record says that no incident was alerted.                            *)
RowsOK == /\ Sound(record) /\ memory \in [Procs -> Records]
          /\ \A p \in Procs : Sound(memory[p])
AttemptsOK == attempt \in [Procs -> Attempts] /\ \A p \in Procs : Sound(attempt[p].next)

Types == AlertsTypeOK /\ RowsOK /\ AttemptsOK

-----------------------------------------------------------------------------
(* What a transition calls for, case by case.                              *)
LEMMA TransitionCases ==
  ASSUME NEW r, r.code # Ok, NEW outcome \in Outcomes
  PROVE  /\ outcome = Ok => Transition(r, outcome) = Recover(r)
         /\ (outcome # Ok /\ outcome = r.code) =>
              Transition(r, outcome) = ContinuingIncident(r)
         /\ (outcome # Ok /\ outcome # r.code) =>
              Transition(r, outcome) = NewIncident(r, outcome)
<1>1. ASSUME outcome = Ok PROVE Transition(r, outcome) = Recover(r)
  BY <1>1, Zenon DEF Transition
<1>2. ASSUME outcome # Ok, outcome = r.code
      PROVE  Transition(r, outcome) = ContinuingIncident(r)
  BY <1>2, Zenon DEF Transition
<1>3. ASSUME outcome # Ok, outcome # r.code
      PROVE  Transition(r, outcome) = NewIncident(r, outcome)
  BY <1>3, Zenon DEF Transition
<1> QED BY <1>1, <1>2, <1>3

LEMMA RecoverTypes ==
  ASSUME NEW r, Sound(r)
  PROVE  /\ Sound(Recover(r).next)
         /\ Recover(r).next.code = NoCode
         /\ ~Recover(r).next.alerted
         /\ Recover(r).next.episode = r.episode
         /\ r.alerted => /\ Recover(r).notice = Notice("recovery", r.code, r.episode)
                         /\ Recover(r).notice \in Notices
         /\ ~r.alerted => Recover(r).notice = Silence
  BY DEF Recover, Sound, Records, Notices, Notice, Silence

LEMMA ContinuingTypes ==
  ASSUME NEW r, Sound(r), r.code \in Codes
  PROVE  /\ Sound(ContinuingIncident(r).next)
         /\ ContinuingIncident(r).next.code = r.code
         /\ ContinuingIncident(r).next.alerted
         /\ ContinuingIncident(r).next.episode = r.episode
         /\ r.alerted => ContinuingIncident(r).notice = Silence
         /\ ~r.alerted =>
              /\ ContinuingIncident(r).notice = Notice("failure", r.code, r.episode)
              /\ ContinuingIncident(r).notice \in Notices
  BY AlertsAssumption
  DEF ContinuingIncident, Sound, Records, Notices, Notice, Silence

LEMMA NewTypes ==
  ASSUME NEW r, Sound(r), NEW code \in Codes
  PROVE  /\ Sound(NewIncident(r, code).next)
         /\ NewIncident(r, code).next.code = code
         /\ NewIncident(r, code).next.alerted
         /\ NewIncident(r, code).next.episode = r.episode + 1
         /\ NewIncident(r, code).notice = Notice("failure", code, r.episode + 1)
         /\ NewIncident(r, code).notice \in Notices
  BY AlertsAssumption DEF NewIncident, Sound, Records, Notices, Notice

(* A transition of a sound record is a sound record and a notice, if any.  *)
LEMMA TransitionTypes ==
  ASSUME NEW r, Sound(r), NEW outcome \in Outcomes
  PROVE  /\ Sound(Transition(r, outcome).next)
         /\ Transition(r, outcome).notice \in Notices \cup {Silence}
<1> r.code # Ok
  BY AlertsAssumption DEF Sound, Records
<1>1. CASE outcome = Ok
  BY <1>1, TransitionCases, RecoverTypes
<1>2. CASE outcome # Ok /\ outcome = r.code
  BY <1>2, TransitionCases, ContinuingTypes DEF Outcomes
<1>3. CASE outcome # Ok /\ outcome # r.code
  BY <1>3, TransitionCases, NewTypes DEF Outcomes
<1> QED BY <1>1, <1>2, <1>3

-----------------------------------------------------------------------------
LEMMA RestTypes ==
  /\ \A pc \in {"off", "idle", "ready"} :
       Rest(pc) \in Attempts /\ Sound(Rest(pc).next) /\ Rest(pc).pc = pc
  /\ Sound(Blank)
  /\ \A p \in Procs : After(p) \in Attempts /\ Sound(After(p).next)
                       /\ After(p).pc \in {"off", "idle"}
  BY DEF Rest, Attempts, Blank, Sound, Records, After

(* A runner enters another attempt, or remembers another record.           *)
LEMMA EnterTypes ==
  ASSUME AttemptsOK, NEW p \in Procs, NEW a \in Attempts, Sound(a.next), Enter(p, a)
  PROVE  AttemptsOK'
  BY DEF AttemptsOK, Enter, Sound

LEMMA RememberTypes ==
  ASSUME RowsOK, NEW p \in Procs, NEW r, Sound(r), Remember(p, r), Sound(record')
  PROVE  RowsOK'
  BY DEF RowsOK, Remember, Sound

LEMMA TypesFrom ==
  ASSUME RowsOK, AttemptsOK, condition \in Outcomes, heard \in Hearings, teller \in Procs,
         doubt \in Doubts, changes \in 0..MaxChanges, gates \in 0..MaxGates,
         mishaps \in 0..MaxMishaps
  PROVE  Types
<1>1. ASSUME NEW r \in {record} \cup {memory[p] : p \in Procs}
      PROVE  r.code = NoCode => ~r.alerted
  BY <1>1 DEF RowsOK, Sound
<1> QED BY <1>1 DEF Types, AlertsTypeOK, RowsOK, AttemptsOK, Sound, Outcomes, Hearings

(* What an attempt of a process in its alert step is made of.              *)
LEMMA HandTypes ==
  ASSUME Types, NEW p \in Procs
  PROVE  /\ attempt[p] \in Attempts /\ attempt[p].acked \in BOOLEAN
         /\ attempt[p].notice \in Hearings
         /\ Sound(attempt[p].next) /\ Sound(memory[p]) /\ Sound(record)
         /\ heard \in Hearings
         /\ Sound(Unconfirmed(memory[p], attempt[p].notice, attempt[p].next))
<1>1. /\ attempt[p] \in Attempts /\ Sound(attempt[p].next) /\ Sound(memory[p])
      /\ Sound(record) /\ heard \in Hearings
  BY DEF Types, AttemptsOK, RowsOK, AlertsTypeOK, Hearings
<1>2. Sound([attempt[p].next EXCEPT !.alerted = FALSE])
  BY <1>1 DEF Sound, Records
<1> QED BY <1>1, <1>2 DEF Attempts, Hearings, Unconfirmed

(* What Judge makes of the attempt.                                        *)
LEMMA JudgeShape ==
  ASSUME Types, NEW p \in Procs, NEW outcome \in Outcomes, Judge(p, outcome)
  PROVE  \E a \in Attempts :
           /\ Enter(p, a) /\ ~a.acked /\ Sound(a.next)
           /\ a.notice = Transition(memory[p], outcome).notice
           /\ a.next = Transition(memory[p], outcome).next
           /\ \/ a.pc = "persist" /\ a.notice = Silence
              \/ a.pc = "send" /\ a.notice \in Notices
<1> DEFINE t == Transition(memory[p], outcome)
           a == [pc |-> IF t.notice.kind = "none" THEN "persist" ELSE "send",
                 notice |-> t.notice, next |-> t.next, acked |-> FALSE]
<1>1. Sound(t.next) /\ t.notice \in Notices \cup {Silence}
  BY HandTypes, TransitionTypes
<1>2. Enter(p, a)
  BY DEF Judge
<1> HIDE DEF t
<1>3. a \in Attempts /\ Sound(a.next)
  BY <1>1 DEF Attempts, Sound
<1>4. \/ a.pc = "persist" /\ a.notice = Silence
      \/ a.pc = "send" /\ a.notice \in Notices
  BY <1>1 DEF Silence, Notices
<1> HIDE DEF a
<1>5. ~a.acked /\ a.notice = t.notice /\ a.next = t.next
  BY DEF a
<1> QED BY <1>2, <1>3, <1>4, <1>5 DEF t

LEMMA TypesInit == AlertsInit => Types
<1> SUFFICES ASSUME AlertsInit PROVE Types
  OBVIOUS
<1>1. RowsOK /\ AttemptsOK
  BY RestTypes DEF AlertsInit, RowsOK, AttemptsOK, Sound
<1>2. /\ changes \in 0..MaxChanges /\ mishaps \in 0..MaxMishaps /\ gates \in 0..MaxGates
      /\ condition \in Outcomes /\ heard \in Hearings /\ teller \in Procs /\ doubt \in Doubts
  BY AlertsAssumption DEF AlertsInit, Outcomes, Hearings, Procs, Doubts
<1> QED BY <1>1, <1>2, TypesFrom

(* Every step keeps the types.                                             *)
LEMMA TypesStep == Types /\ [AlertsNext]_alerts => Types'
<1> SUFFICES ASSUME Types, [AlertsNext]_alerts PROVE Types'
  OBVIOUS
<1>0. /\ RowsOK /\ AttemptsOK /\ condition \in Outcomes /\ heard \in Hearings
      /\ teller \in Procs /\ doubt \in Doubts /\ changes \in 0..MaxChanges
      /\ gates \in 0..MaxGates /\ mishaps \in 0..MaxMishaps
      /\ record \in Records /\ Sound(record)
  BY DEF Types, AlertsTypeOK, Outcomes, Hearings, RowsOK
<1>t. ASSUME RowsOK', AttemptsOK', condition' \in Outcomes, heard' \in Hearings,
             teller' \in Procs, doubt' \in Doubts, changes' \in 0..MaxChanges,
             gates' \in 0..MaxGates, mishaps' \in 0..MaxMishaps
      PROVE  Types'
  <2>1. ASSUME NEW r \in {record'} \cup {memory'[p] : p \in Procs}
        PROVE  r.code = NoCode => ~r.alerted
    BY <1>t, <2>1 DEF RowsOK, Sound
  <2> QED
    BY <1>t, <2>1
    DEF Types, AlertsTypeOK, RowsOK, AttemptsOK, Sound, Outcomes, Hearings
<1>c. /\ Mishap => mishaps' \in 0..MaxMishaps
      /\ Changed => changes' \in 0..MaxChanges
  BY <1>0, AlertsAssumption DEF Mishap, Changed
<1>r. (UNCHANGED <<record, memory>>) => RowsOK'
  BY <1>0 DEF RowsOK, Sound
<1>1. CASE UNCHANGED alerts
  BY <1>1, <1>0, <1>t, <1>r DEF alerts, AttemptsOK, Sound
<1>2. ASSUME NEW outcome \in Outcomes, Change(outcome) PROVE Types'
  BY <1>2, <1>0, <1>t, <1>c, <1>r DEF Change, AttemptsOK, Sound
<1>3. ASSUME NEW outcome \in Outcomes, NEW p \in Procs, Judge(p, outcome) PROVE Types'
  <2>1. AttemptsOK'
    BY <1>0, <1>3, JudgeShape, EnterTypes
  <2> QED BY <1>0, <1>3, <2>1, <1>t, <1>c, <1>r DEF Judge
<1>4. CASE Reconcile
  <2>1. AttemptsOK' /\ RowsOK'
    BY <1>0, <1>4, RestTypes, EnterTypes, RememberTypes DEF Reconcile, Procs
  <2> QED BY <1>0, <1>4, <2>1, <1>t DEF Reconcile
<1>5. CASE ReconcileFails
  <2>1. AttemptsOK'
    BY <1>0, <1>5, RestTypes, EnterTypes DEF ReconcileFails, Procs
  <2> QED BY <1>0, <1>5, <2>1, <1>t, <1>c, <1>r DEF ReconcileFails
<1>6. CASE GateStart
  <2>1. AttemptsOK' /\ RowsOK'
    BY <1>0, <1>6, RestTypes, EnterTypes, RememberTypes DEF GateStart, Procs
  <2>2. gates' \in 0..MaxGates
    BY <1>0, <1>6, AlertsAssumption DEF GateStart
  <2> QED BY <1>0, <1>6, <2>1, <2>2, <1>t DEF GateStart
<1>7. ASSUME NEW p \in Procs
      PROVE  /\ Confirmed(p) => AttemptsOK'
             /\ Unanswered(p) => AttemptsOK'
             /\ Hear(p) => heard' \in Hearings /\ teller' \in Procs /\ doubt' \in Doubts
  <2>1. /\ [attempt[p] EXCEPT !.pc = "persist", !.acked = TRUE] \in Attempts
        /\ Sound([attempt[p] EXCEPT !.pc = "persist", !.acked = TRUE].next)
    BY HandTypes DEF Attempts, Sound
  <2> DEFINE u == Unconfirmed(memory[p], attempt[p].notice, attempt[p].next)
  <2>2. [attempt[p] EXCEPT !.pc = "persist", !.next = u].next = u
    BY HandTypes DEF Attempts
  <2>3. /\ [attempt[p] EXCEPT !.pc = "persist", !.next = u] \in Attempts
        /\ Sound([attempt[p] EXCEPT !.pc = "persist", !.next = u].next)
    <3>1. Sound(u) /\ attempt[p] \in Attempts
      BY HandTypes
    <3> HIDE DEF u
    <3> QED BY <3>1, <2>2 DEF Attempts, Sound
  <2>4. Unanswered(p) => Enter(p, [attempt[p] EXCEPT !.pc = "persist", !.next = u])
    BY DEF Unanswered
  <2> HIDE DEF u
  <2> QED BY <1>0, <2>1, <2>3, <2>4, HandTypes, EnterTypes DEF Confirmed, Hear, Doubts
<1>8. ASSUME NEW p \in Procs, Delivered(p) PROVE Types'
  BY <1>0, <1>7, <1>8, <1>t, <1>r DEF Delivered
<1>9. ASSUME NEW p \in Procs, Undelivered(p) PROVE Types'
  BY <1>0, <1>7, <1>9, <1>t, <1>r DEF Undelivered
<1>10. ASSUME NEW p \in Procs, AnswerLost(p) PROVE Types'
  BY <1>0, <1>7, <1>10, <1>t, <1>c, <1>r DEF AnswerLost
<1>11. ASSUME NEW p \in Procs, Persist(p) PROVE Types'
  <2>1. Sound(record') /\ AttemptsOK' /\ doubt' \in Doubts
    BY <1>0, <1>11, HandTypes, RestTypes, EnterTypes DEF Persist, Doubts
  <2>2. RowsOK'
    <3> DEFINE r == IF p = "daemon" THEN attempt[p].next ELSE Blank
    <3>1. Sound(r) /\ Remember(p, r)
      BY <1>11, HandTypes, RestTypes DEF Persist
    <3> HIDE DEF r
    <3> QED BY <1>0, <2>1, <3>1, RememberTypes
  <2> QED BY <1>0, <1>11, <2>1, <2>2, <1>t DEF Persist
<1>12. ASSUME NEW p \in Procs, WriteFails(p) PROVE Types'
  <2>1. AttemptsOK'
    BY <1>0, <1>12, RestTypes, EnterTypes DEF WriteFails
  <2>2. RowsOK'
    <3> DEFINE r == IF p = "daemon" THEN memory[p] ELSE Blank
    <3>1. Sound(r) /\ Remember(p, r) /\ record' = record
      BY <1>12, HandTypes, RestTypes DEF WriteFails
    <3> HIDE DEF r
    <3> QED BY <1>0, <3>1, RememberTypes
  <2> QED BY <1>0, <1>12, <2>1, <2>2, <1>t, <1>c DEF WriteFails
<1>13. ASSUME NEW p \in Procs, RunnerKilled(p) PROVE Types'
  <2>1. AttemptsOK' /\ RowsOK'
    BY <1>0, <1>13, RestTypes, EnterTypes, RememberTypes DEF RunnerKilled
  <2>2. heard' \in Hearings /\ teller' \in Procs /\ doubt' \in Doubts
    BY <1>0, <1>7, <1>13 DEF RunnerKilled
  <2> QED BY <1>0, <1>13, <2>1, <2>2, <1>t, <1>c DEF RunnerKilled
<1> QED
  BY <1>1, <1>2, <1>3, <1>4, <1>5, <1>6, <1>8, <1>9, <1>10, <1>11, <1>12, <1>13
  DEF AlertsNext, Outcomes

(* Records, attempts and notices are always well typed, and neither the    *)
(* row nor a runner's memory says that no incident was alerted: every way  *)
(* an attempt of supervisor.py ends leaves a record AlertState accepts.    *)
THEOREM TypeCorrect == AlertsSpec => []AlertsTypeOK
<1>1. AlertsInit => Types
  BY TypesInit
<1>2. Types /\ [AlertsNext]_alerts => Types'
  BY TypesStep
<1>3. Types => AlertsTypeOK
  BY DEF Types
<1> QED BY <1>1, <1>2, <1>3, PTL DEF AlertsSpec

-----------------------------------------------------------------------------
LEMMA HearingTypes ==
  ASSUME NEW h \in Hearings
  PROVE  h.episode \in Nat
  BY DEF Hearings, Notices, Silence

(* Who knows a record knows the one that a silent transition leads to.     *)
LEMMA SilentTransition ==
  ASSUME NEW r, Sound(r), NEW outcome \in Outcomes,
         Transition(r, outcome).notice = Silence
  PROVE  KnownWith(r, Transition(r, outcome).next)
<1>1. Silence \notin Notices
  BY DEF Silence, Notices
<1>2. r.code # Ok /\ r.episode \in Nat /\ r.alerted \in BOOLEAN
  BY AlertsAssumption DEF Sound, Records
<1> SUFFICES ASSUME NEW h \in Hearings, Knows(h, r)
             PROVE  Knows(h, Transition(r, outcome).next)
  BY DEF KnownWith
<1> h.episode \in Nat
  BY HearingTypes
<1>3. CASE outcome = Ok
  <2>1. Transition(r, outcome) = Recover(r)
    BY <1>2, <1>3, TransitionCases
  <2>2. ~r.alerted
    BY <1>1, <2>1, RecoverTypes
  <2> QED BY <1>2, <2>1, <2>2, RecoverTypes DEF Knows
<1>4. CASE outcome # Ok /\ outcome = r.code
  <2>1. Transition(r, outcome) = ContinuingIncident(r) /\ r.code \in Codes
    BY <1>2, <1>4, TransitionCases DEF Outcomes
  <2>2. r.alerted
    BY <1>1, <2>1, ContinuingTypes
  <2> QED BY <1>2, <2>1, <2>2, ContinuingTypes DEF Knows
<1>5. CASE outcome # Ok /\ outcome # r.code
  <2>1. Transition(r, outcome) = NewIncident(r, outcome) /\ outcome \in Codes
    BY <1>2, <1>5, TransitionCases DEF Outcomes
  <2> QED BY <1>1, <2>1, NewTypes
<1> QED BY <1>3, <1>4, <1>5

(* A notice that a record calls for tells the record that follows, and is  *)
(* news to who knows the record.                                           *)
LEMMA CalledFor ==
  ASSUME NEW r, Sound(r), NEW outcome \in Outcomes,
         NEW notice, notice = Transition(r, outcome).notice, notice \in Notices,
         NEW next, next = Transition(r, outcome).next
  PROVE  /\ Knows(notice, next)
         /\ \A h \in Hearings : Knows(h, r) => IsNews(h, notice)
         /\ notice.kind = "failure" =>
              notice = Notice("failure", next.code, next.episode)
<1>1. Silence \notin Notices
  BY DEF Silence, Notices
<1>2. /\ r.code # Ok /\ r.episode \in Nat /\ r.alerted \in BOOLEAN
      /\ r.code \in Codes \/ ~r.alerted
  BY AlertsAssumption DEF Sound, Records
<1>3. CASE outcome = Ok
  <2>1. Transition(r, outcome) = Recover(r)
    BY <1>2, <1>3, TransitionCases
  <2>2. r.alerted
    BY <1>1, <2>1, RecoverTypes
  <2>3. notice = Notice("recovery", r.code, r.episode)
    BY <2>1, <2>2, RecoverTypes
  <2>4. next.code = NoCode /\ ~next.alerted /\ next.episode = r.episode
    BY <2>1, RecoverTypes
  <2>5. ASSUME NEW h \in Hearings, Knows(h, r) PROVE IsNews(h, notice)
    BY <2>2, <2>3, <2>5 DEF Knows, Notice, IsNews
  <2> QED BY <1>2, <2>3, <2>4, <2>5 DEF Notice, Knows
<1>4. CASE outcome # Ok /\ outcome = r.code
  <2>1. Transition(r, outcome) = ContinuingIncident(r) /\ r.code \in Codes
    BY <1>2, <1>4, TransitionCases DEF Outcomes
  <2>2. ~r.alerted
    BY <1>1, <2>1, ContinuingTypes
  <2>3. notice = Notice("failure", r.code, r.episode)
    BY <2>1, <2>2, ContinuingTypes
  <2>4. next.code = r.code /\ next.alerted /\ next.episode = r.episode
    BY <2>1, ContinuingTypes
  <2>5. ASSUME NEW h \in Hearings, Knows(h, r) PROVE IsNews(h, notice)
    <3>1. h.episode < r.episode
      BY <2>1, <2>2, <2>5, AlertsAssumption DEF Knows
    <3> QED BY <1>2, <2>3, <3>1, HearingTypes DEF Notice, IsNews
  <2> QED BY <1>2, <2>3, <2>4, <2>5 DEF Notice, Knows
<1>5. CASE outcome # Ok /\ outcome # r.code
  <2>1. Transition(r, outcome) = NewIncident(r, outcome) /\ outcome \in Codes
    BY <1>2, <1>5, TransitionCases DEF Outcomes
  <2>2. /\ notice = Notice("failure", outcome, r.episode + 1)
        /\ next.code = outcome /\ next.alerted /\ next.episode = r.episode + 1
    BY <2>1, NewTypes
  <2>3. ASSUME NEW h \in Hearings, Knows(h, r) PROVE IsNews(h, notice)
    <3>1. h.episode \leq r.episode /\ h.episode \in Nat
      BY <2>3, HearingTypes DEF Knows
    <3> QED BY <1>2, <2>2, <3>1 DEF Notice, IsNews
  <2> QED BY <1>2, <2>2, <2>3 DEF Notice, Knows
<1> QED BY <1>3, <1>4, <1>5

(* A record kept back because its notice was not confirmed is one that the *)
(* operators know.                                                         *)
LEMMA UnconfirmedIsKnown ==
  ASSUME NEW r, Sound(r), NEW outcome \in Outcomes,
         NEW notice, notice = Transition(r, outcome).notice, notice \in Notices,
         NEW next, next = Transition(r, outcome).next
  PROVE  KnownWith(r, Unconfirmed(r, notice, next))
<1>1. /\ next \in Records /\ Knows(notice, next)
      /\ \A h \in Hearings : Knows(h, r) => IsNews(h, notice)
      /\ notice.kind = "failure" => notice = Notice("failure", next.code, next.episode)
  BY CalledFor, TransitionTypes DEF Sound
<1>2. CASE notice.kind = "failure"
  <2>1. ASSUME NEW h \in Hearings, Knows(h, r)
        PROVE  Knows(h, [next EXCEPT !.alerted = FALSE])
    <3>1. IsNews(h, notice) /\ notice.episode = next.episode
      BY <1>1, <1>2, <2>1 DEF Notice
    <3>2. h.episode < next.episode /\ h.episode \in Nat /\ next.episode \in Nat
      BY <1>1, <1>2, <3>1, HearingTypes DEF IsNews, Records
    <3> QED BY <1>1, <3>2 DEF Knows, Records
  <2> QED BY <1>2, <2>1 DEF Unconfirmed, KnownWith
<1>3. CASE notice.kind # "failure"
  BY <1>3 DEF Unconfirmed, KnownWith
<1> QED BY <1>2, <1>3

(* A post is a step of the promise.                                        *)
LEMMA PostIsPromised ==
  ASSUME Types, ToldInv, NEW p \in Procs, Sending(p), Hear(p)
  PROVE  Promise!Next
<1>1. /\ attempt[p].notice \in Notices
      /\ \A h \in Hearings : Knows(h, memory[p]) => IsNews(h, attempt[p].notice)
  BY DEF ToldInv, InHand, ToPost
<1>2. heard' = attempt[p].notice /\ heard' \in Promise!Notices /\ heard \in Hearings
  BY <1>1, HandTypes DEF Hear, Promise!Notices, Notices
<1>3. Promise!Tell
  BY <1>2 DEF Promise!Tell, Hear
<1>4. CASE doubt = "none" /\ ~Outdated
  <2>1. memory[p] = record /\ Knows(heard, record)
    BY <1>4 DEF Outdated, ToldInv
  <2>2. IsNews(heard, heard')
    BY <1>1, <1>2, <2>1
  <2> QED
    BY <1>2, <1>3, <2>2
    DEF IsNews, Promise!Next, Promise!TellFailure, Promise!TellRecovery
<1>5. CASE ~(doubt = "none" /\ ~Outdated)
  <2>1. heard'.kind \in {"failure", "recovery"}
    BY <1>1, <1>2 DEF Notices
  <2>2. (IF Outdated THEN "crossed" ELSE doubt) # "none"
    BY <1>5
  <2> QED
    BY <1>3, <2>1, <2>2, Zenon
    DEF Promise!Next, Promise!TellFailure, Promise!TellRecovery
<1> QED BY <1>4, <1>5

(* Every other step is one of its records, if the doubt it brings is not   *)
(* about a notice.                                                         *)
LEMMA QuietIsPromised ==
  ASSUME Types, UNCHANGED heard, doubt' \in Doubts,
         doubt = "none" => doubt' # "unrecorded"
  PROVE  Promise!Next
<1>1. doubt \in Doubts
  BY DEF Types, AlertsTypeOK
<1>2. (IF Outdated THEN "crossed" ELSE doubt)' \in Doubts
  BY DEF Doubts
<1> QED
  BY <1>1, <1>2 DEF Promise!Next, Promise!Record, Doubts

-----------------------------------------------------------------------------
(* A step that changes the attempt or the memory of p only keeps what the  *)
(* other runner has in hand.                                               *)
LEMMA OthersKept ==
  ASSUME ToldInv, NEW p \in Procs, NEW q \in Procs \ {p},
         attempt'[q] = attempt[q], memory'[q] = memory[q],
         UNCHANGED <<heard, teller>> \/ teller' = p
  PROVE  InHand(q)'
  BY DEF ToldInv, InHand, HeardOf, ToPost, ToWrite, Sending, Persisting, Unconfirmed, KnownWith,
         Knows, IsNews

(* A runner that is not in its alert step has nothing in hand.             *)
LEMMA NothingInHand ==
  ASSUME NEW p \in Procs, attempt'[p].pc \notin {"send", "persist"}
  PROVE  InHand(p)'
  BY DEF InHand, HeardOf, Sending, Persisting

LEMMA ToldInit == AlertsInit => ToldInv
<1> SUFFICES ASSUME AlertsInit PROVE ToldInv
  OBVIOUS
<1>1. Knows(heard, record)
  BY DEF AlertsInit, Knows, Silence, Blank
<1>2. ASSUME NEW p \in Procs PROVE attempt[p].pc = "off"
  BY RestTypes DEF AlertsInit
<1> QED BY <1>1, <1>2 DEF ToldInv, InHand, HeardOf, Sending, Persisting

(* Every step keeps the operators informed of the record, and is a step of *)
(* the promise or none.                                                    *)
LEMMA ToldStep ==
  ASSUME Types, ToldInv, [AlertsNext]_alerts
  PROVE  ToldInv' /\ [Promise!Next]_(Promise!vars)
<1>0. /\ attempt \in [Procs -> Attempts] /\ memory \in [Procs -> Records]
      /\ doubt \in Doubts /\ (doubt = "none" => Knows(heard, record))
      /\ \A p \in Procs : InHand(p)
  BY DEF Types, AttemptsOK, AlertsTypeOK, ToldInv
<1>e. ASSUME NEW p \in Procs, NEW a, Enter(p, a)
      PROVE  attempt'[p] = a /\ \A q \in Procs \ {p} : attempt'[q] = attempt[q]
  BY <1>0, <1>e DEF Enter
<1>m. ASSUME NEW p \in Procs, NEW r, Remember(p, r)
      PROVE  memory'[p] = r /\ \A q \in Procs \ {p} : memory'[q] = memory[q]
  BY <1>0, <1>m DEF Remember
<1>k. (UNCHANGED <<heard, record, doubt>>) => (doubt = "none" => Knows(heard, record))'
  BY <1>0 DEF Knows
(* A runner comes to rest and nothing is heard or written.                 *)
<1>q. ASSUME NEW p \in Procs, NEW a, Enter(p, a), a.pc \in {"off", "idle", "ready"},
             \A q \in Procs \ {p} : memory'[q] = memory[q],
             UNCHANGED <<heard, teller, record, doubt>>
      PROVE  ToldInv' /\ Promise!Next
  <2>1. attempt'[p] = a /\ \A q \in Procs \ {p} : attempt'[q] = attempt[q]
    BY <1>e, <1>q
  <2>2. InHand(p)'
    BY <1>q, <2>1, NothingInHand
  <2>3. \A q \in Procs \ {p} : InHand(q)'
    BY <1>q, <2>1, OthersKept
  <2>4. Promise!Next
    BY <1>0, <1>q, QuietIsPromised
  <2> QED BY <1>k, <1>q, <2>2, <2>3, <2>4 DEF ToldInv
<1>1. CASE UNCHANGED alerts
  <2>1. \A p \in Procs : InHand(p)'
    BY <1>0, <1>1 DEF alerts, InHand, HeardOf, ToPost, ToWrite, Sending, Persisting,
       Unconfirmed, KnownWith, Knows, IsNews
  <2>2. Outdated' = Outdated
    BY <1>1 DEF alerts, Outdated, Sending
  <2> QED BY <1>1, <1>k, <2>1, <2>2 DEF alerts, ToldInv, Promise!vars
<1>2. ASSUME NEW outcome \in Outcomes, Change(outcome)
      PROVE  ToldInv' /\ Promise!Next
  <2>1. \A p \in Procs : InHand(p)'
    BY <1>0, <1>2 DEF Change, InHand, HeardOf, ToPost, ToWrite, Sending, Persisting,
       Unconfirmed, KnownWith, Knows, IsNews
  <2>2. Promise!Next
    BY <1>0, <1>2, QuietIsPromised DEF Change
  <2> QED BY <1>2, <1>k, <2>1, <2>2 DEF Change, ToldInv
<1>3. ASSUME NEW outcome \in Outcomes, NEW p \in Procs, Judge(p, outcome)
      PROVE  ToldInv' /\ Promise!Next
  <2>1. UNCHANGED <<record, memory, heard, teller, doubt>>
    BY <1>3 DEF Judge
  <2>2. PICK a \in Attempts :
           /\ Enter(p, a) /\ ~a.acked
           /\ a.notice = Transition(memory[p], outcome).notice
           /\ a.next = Transition(memory[p], outcome).next
           /\ \/ a.pc = "persist" /\ a.notice = Silence
              \/ a.pc = "send" /\ a.notice \in Notices
    BY <1>3, JudgeShape
  <2>3. attempt'[p] = a /\ \A q \in Procs \ {p} : attempt'[q] = attempt[q]
    BY <1>e, <2>2
  <2>4. Sound(memory[p])
    BY HandTypes
  <2>5. InHand(p)'
    <3>1. CASE a.pc = "persist" /\ a.notice = Silence
      <4>1. ToWrite(a, memory[p])
        BY <2>2, <2>4, <3>1, SilentTransition DEF ToWrite
      <4>2. ToWrite(attempt[p], memory[p])'
        BY <2>1, <2>3, <4>1 DEF ToWrite, KnownWith, Knows
      <4> QED BY <2>2, <2>3, <3>1, <4>2 DEF InHand, HeardOf, Sending, Persisting
    <3>2. CASE a.pc = "send" /\ a.notice \in Notices
      <4>1. ToPost(a, memory[p])
        BY <2>2, <2>4, <3>2, CalledFor, UnconfirmedIsKnown DEF ToPost
      <4>2. ToPost(attempt[p], memory[p])'
        BY <2>1, <2>3, <4>1 DEF ToPost, KnownWith, Knows, IsNews, Unconfirmed
      <4> QED BY <2>2, <2>3, <3>2, <4>2 DEF InHand, HeardOf, Sending, Persisting
    <3> QED BY <2>2, <3>1, <3>2
  <2>6. \A q \in Procs \ {p} : InHand(q)'
    BY <2>1, <2>3, OthersKept
  <2>7. Promise!Next
    BY <1>0, <2>1, QuietIsPromised
  <2> QED BY <1>k, <2>1, <2>5, <2>6, <2>7 DEF ToldInv
<1>4. CASE Reconcile
  <2> "daemon" \in Procs
    BY DEF Procs
  <2> QED BY <1>4, <1>q, <1>m, RestTypes DEF Reconcile
<1>5. CASE ReconcileFails
  <2> "daemon" \in Procs
    BY DEF Procs
  <2> QED BY <1>5, <1>q, RestTypes DEF ReconcileFails
<1>6. CASE GateStart
  <2> "gate" \in Procs
    BY DEF Procs
  <2> QED BY <1>6, <1>q, <1>m, RestTypes DEF GateStart
(* The webhook confirms the notice it heard, ...                           *)
<1>7. ASSUME NEW p \in Procs, Sending(p), Confirmed(p), Hear(p), UNCHANGED <<record, memory>>
      PROVE  ToldInv' /\ Promise!Next
  <2>1. ToPost(attempt[p], memory[p]) /\ attempt[p] \in Attempts
    BY <1>0, <1>7 DEF InHand
  <2> DEFINE a == [attempt[p] EXCEPT !.pc = "persist", !.acked = TRUE]
  <2>2. /\ a.pc = "persist" /\ a.acked /\ a.notice = attempt[p].notice
        /\ a.next = attempt[p].next
    BY <2>1 DEF Attempts
  <2>3. Enter(p, a)
    BY <1>7 DEF Confirmed
  <2> HIDE DEF a
  <2>4. attempt'[p] = a /\ \A q \in Procs \ {p} : attempt'[q] = attempt[q]
    BY <1>e, <2>3
  <2>5. heard' = attempt[p].notice /\ teller' = p /\ doubt' = "unrecorded"
    BY <1>7 DEF Hear
  <2>6. ToWrite(attempt[p], memory[p])' /\ HeardOf(p)'
    BY <2>1, <2>2, <2>4, <2>5 DEF ToPost, ToWrite, HeardOf, Knows
  <2>7. InHand(p)'
    BY <2>2, <2>4, <2>6 DEF InHand, Sending
  <2>8. \A q \in Procs \ {p} : InHand(q)'
    BY <1>7, <2>4, <2>5, OthersKept
  <2> QED BY <1>7, <2>5, <2>7, <2>8, PostIsPromised DEF ToldInv
(* ... or there is no answer, whether it heard it or not.                  *)
<1>8. ASSUME NEW p \in Procs, Sending(p), Unanswered(p), UNCHANGED <<record, memory>>,
             Hear(p) \/ UNCHANGED <<heard, teller, doubt>>
      PROVE  ToldInv' /\ Promise!Next
  <2>1. ToPost(attempt[p], memory[p]) /\ attempt[p] \in Attempts
    BY <1>0, <1>8 DEF InHand
  <2> DEFINE u == Unconfirmed(memory[p], attempt[p].notice, attempt[p].next)
             a == [attempt[p] EXCEPT !.pc = "persist", !.next = u]
  <2>3. Enter(p, a)
    BY <1>8 DEF Unanswered
  <2>u. KnownWith(memory[p], u) /\ ~attempt[p].acked
    BY <2>1 DEF ToPost
  <2> HIDE DEF u
  <2>2. a.pc = "persist" /\ ~a.acked /\ a.next = u
    BY <2>1, <2>u DEF Attempts
  <2> HIDE DEF a
  <2>4. attempt'[p] = a /\ \A q \in Procs \ {p} : attempt'[q] = attempt[q]
    BY <1>e, <2>3
  <2>5. UNCHANGED <<heard, teller>> \/ teller' = p
    BY <1>8 DEF Hear
  <2>6. ToWrite(attempt[p], memory[p])' /\ HeardOf(p)'
    BY <1>8, <2>u, <2>2, <2>4 DEF ToWrite, HeardOf, KnownWith, Knows
  <2>7. InHand(p)'
    BY <2>2, <2>4, <2>6 DEF InHand, Sending
  <2>8. \A q \in Procs \ {p} : InHand(q)'
    BY <1>8, <2>4, <2>5, OthersKept
  <2>9. Promise!Next
    <3>1. CASE Hear(p)
      BY <1>8, <3>1, PostIsPromised
    <3>2. CASE UNCHANGED <<heard, teller, doubt>>
      BY <1>0, <3>2, QuietIsPromised
    <3> QED BY <1>8, <3>1, <3>2
  <2>10. (doubt = "none" => Knows(heard, record))'
    BY <1>8, <1>k DEF Hear
  <2> QED BY <2>7, <2>8, <2>9, <2>10 DEF ToldInv
<1>9. ASSUME NEW p \in Procs, Delivered(p) PROVE ToldInv' /\ Promise!Next
  BY <1>7, <1>9, Zenon DEF Delivered
<1>10. ASSUME NEW p \in Procs, Undelivered(p) \/ AnswerLost(p) PROVE ToldInv' /\ Promise!Next
  <2>1. /\ Sending(p) /\ Unanswered(p) /\ UNCHANGED <<record, memory>>
        /\ Hear(p) \/ UNCHANGED <<heard, teller, doubt>>
    BY <1>10 DEF Undelivered, AnswerLost
  <2> QED BY <1>8, <2>1
<1>11. ASSUME NEW p \in Procs, Persist(p) PROVE ToldInv' /\ Promise!Next
  <2>1. /\ Persisting(p) /\ record' = attempt[p].next /\ UNCHANGED <<heard, teller>>
        /\ Enter(p, After(p)) /\ \E r : Remember(p, r)
        /\ doubt' = CASE Crosses(p) -> "crossed"
                      [] ~Crosses(p) /\ attempt[p].acked -> "none"
                      [] OTHER -> doubt
    BY <1>11 DEF Persist
  <2>2. /\ Crosses(p) => doubt' = "crossed"
        /\ (~Crosses(p) /\ attempt[p].acked) => doubt' = "none"
        /\ (~Crosses(p) /\ ~attempt[p].acked) => doubt' = doubt
    BY <2>1
  <2>3. /\ attempt'[p] = After(p) /\ \A q \in Procs \ {p} : attempt'[q] = attempt[q]
        /\ \A q \in Procs \ {p} : memory'[q] = memory[q]
    BY <1>e, <1>m, <2>1
  <2>4. InHand(p)' /\ \A q \in Procs \ {p} : InHand(q)'
    BY <2>1, <2>3, RestTypes, NothingInHand, OthersKept
  <2>5. ToWrite(attempt[p], memory[p]) /\ HeardOf(p) /\ heard \in Hearings
    BY <1>0, <2>1, HandTypes DEF InHand
  <2>6. (doubt = "none" => Knows(heard, record))'
    <3>1. CASE Crosses(p)
      BY <2>2, <3>1
    <3>2. CASE ~Crosses(p) /\ attempt[p].acked
      <4>1. heard = attempt[p].notice
        BY <2>1, <2>5, <3>2 DEF HeardOf, Crosses
      <4>2. Knows(heard, attempt[p].next)
        BY <2>5, <3>2, <4>1 DEF ToWrite
      <4> QED BY <2>1, <4>2 DEF Knows
    <3>3. CASE ~Crosses(p) /\ ~attempt[p].acked
      <4>1. doubt = "none" => Knows(heard, attempt[p].next)
        BY <1>0, <2>5, <3>3 DEF ToWrite, KnownWith, Crosses
      <4> QED BY <2>1, <2>2, <3>3, <4>1 DEF Knows
    <3> QED BY <3>1, <3>2, <3>3
  <2>7. Promise!Next
    BY <1>0, <2>1, <2>2, QuietIsPromised DEF Doubts
  <2> QED BY <2>4, <2>6, <2>7 DEF ToldInv
<1>12. ASSUME NEW p \in Procs, WriteFails(p) PROVE ToldInv' /\ Promise!Next
  BY <1>12, <1>q, <1>m, RestTypes DEF WriteFails
<1>13. ASSUME NEW p \in Procs, RunnerKilled(p) PROVE ToldInv' /\ Promise!Next
  <2>1. /\ Enter(p, Rest("off")) /\ Remember(p, Blank) /\ record' = record
        /\ UNCHANGED <<heard, teller, doubt>> \/ (Sending(p) /\ Hear(p))
    BY <1>13 DEF RunnerKilled
  <2>2. /\ attempt'[p] = Rest("off") /\ \A q \in Procs \ {p} : attempt'[q] = attempt[q]
        /\ \A q \in Procs \ {p} : memory'[q] = memory[q]
    BY <1>e, <1>m, <2>1
  <2>3. CASE UNCHANGED <<heard, teller, doubt>>
    BY <1>q, <2>1, <2>2, <2>3, RestTypes
  <2>4. CASE Sending(p) /\ Hear(p)
    <3>1. InHand(p)' /\ \A q \in Procs \ {p} : InHand(q)'
      BY <2>2, <2>4, RestTypes, NothingInHand, OthersKept DEF Hear
    <3>2. doubt' = "unrecorded"
      BY <2>4 DEF Hear
    <3>3. Promise!Next
      BY <2>4, PostIsPromised
    <3> QED BY <3>1, <3>2, <3>3 DEF ToldInv
  <2> QED BY <2>1, <2>3, <2>4
<1> QED
  BY <1>1, <1>2, <1>3, <1>4, <1>5, <1>6, <1>9, <1>10, <1>11, <1>12, <1>13
  DEF AlertsNext, Outcomes

(* The alerts of the sidecar implement the promise made to the operators,  *)
(* whatever the account, the webhook, the database, the kills and the gate *)
(* do: no incident is told twice and no recovery comes without its         *)
(* incident while no delivery went unrecorded and the gate and the daemon  *)
(* did not cross each other (keepalive/alerts.py, supervisor.py).          *)
THEOREM NoticesAreToldOnce == AlertsSpec => NoticesOnce
<1>1. AlertsInit => Types /\ ToldInv /\ Promise!Init
  <2> SUFFICES ASSUME AlertsInit PROVE Types /\ ToldInv /\ Promise!Init
    OBVIOUS
  <2>1. ~Outdated
    BY RestTypes DEF AlertsInit, Outdated, Sending
  <2>2. Promise!Init
    BY <2>1 DEF AlertsInit, Promise!Init, Silence, Promise!Silence
  <2> QED BY <2>2, TypesInit, ToldInit
<1>2. Types /\ ToldInv /\ [AlertsNext]_alerts =>
        Types' /\ ToldInv' /\ [Promise!Next]_(Promise!vars)
  BY TypesStep, ToldStep
<1> QED BY <1>1, <1>2, PTL DEF AlertsSpec, NoticesOnce, Promise!Spec
=============================================================================
