------------------------------- MODULE Alerts -------------------------------
(***************************************************************************)
(* How the keepalive sidecar alerts about one account                      *)
(* (services/keepalive/alerts.py, supervisor.py and                        *)
(* services/alert_notifier.py).  Every attempt is judged against the       *)
(* incident its runner remembers, the notice it calls for is posted to a   *)
(* webhook, and only then is the new incident written to the account's     *)
(* row; the post may get through without its answer, the write may fail,   *)
(* and the process may be killed between.                                  *)
(*                                                                         *)
(* The daemon's runner reads the row when the loop reconciles, between two *)
(* attempts; the one-shot gate (scripts/keepalive_browser.py --once) has a *)
(* runner of its own, which reads it when the gate starts.  The two share  *)
(* nothing but the row: whichever does not get the profile's lease fails   *)
(* with PROFILE_BUSY, judges that, posts and writes all the same.  Which   *)
(* of them has the lease is left open.                                     *)
(***************************************************************************)
EXTENDS Naturals

CONSTANTS Codes,          \* failure codes an attempt can end with
          Busy,           \* PROFILE_BUSY: somebody else has the profile
          Ok,             \* the outcome of an attempt that succeeded
          NoCode,         \* no incident is open
          MaxChanges,     \* bound: changes of what attempts end with
          MaxGates,       \* bound: runs of the gate
          MaxMishaps      \* bound: lost answers, failed reads and writes, kills

ASSUME AlertsAssumption ==
  /\ Busy \in Codes /\ Ok \notin Codes /\ NoCode \notin Codes /\ Ok # NoCode
  /\ MaxChanges \in Nat /\ MaxGates \in Nat /\ MaxMishaps \in Nat

VARIABLES condition,      \* what an attempt with the profile ends with now
          record,         \* AlertState: the incident on the account's row
          memory,         \* memory[p]: _alert_state of the runner in process p
          attempt,        \* attempt[p]: the alert step of its attempt
          heard,          \* the last notice that reached the operators
          teller,         \* history: the process it came from
          doubt,          \* history: may it differ from the record?
          changes, gates, mishaps                        \* the bounded counters

alerts == <<condition, record, memory, attempt, heard, teller, doubt,
            changes, gates, mishaps>>

Procs == {"daemon", "gate"}
Records == [code : Codes \cup {NoCode}, episode : Nat, alerted : BOOLEAN]
Silence == [kind |-> "none", episode |-> 0]
Notices == [kind : {"failure", "recovery"}, code : Codes, episode : Nat]

(* A notice was posted and its record not written yet, or two runners of   *)
(* the account crossed each other.                                         *)
Doubts == {"none", "unrecorded", "crossed"}

(* AlertState(): no incident so far.                                       *)
Blank == [code |-> NoCode, episode |-> 0, alerted |-> FALSE]

(* A process without a runner is "off", a runner between two attempts      *)
(* "idle", one whose next attempt is not judged yet "ready".               *)
Attempts ==
  [pc : {"off", "idle", "ready", "send", "persist"},
   notice : Notices \cup {Silence}, next : Records, acked : BOOLEAN]

Rest(pc) == [pc |-> pc, notice |-> Silence, next |-> Blank, acked |-> FALSE]

(* The daemon keeps its runner, the gate stops it after one attempt.       *)
After(p) == Rest(IF p = "daemon" THEN "idle" ELSE "off")

Notice(kind, code, episode) == [kind |-> kind, code |-> code, episode |-> episode]

-----------------------------------------------------------------------------
(* evaluate_alert_transition: the record an outcome leads to, and the      *)
(* notice it calls for ("none" when the operators already know).           *)

NewIncident(r, code) ==
  LET next == [code |-> code, episode |-> r.episode + 1, alerted |-> TRUE]
  IN [next |-> next, notice |-> Notice("failure", code, next.episode)]

ContinuingIncident(r) ==
  [next |-> [r EXCEPT !.alerted = TRUE],
   notice |-> IF r.alerted THEN Silence ELSE Notice("failure", r.code, r.episode)]

Recover(r) ==
  [next |-> [r EXCEPT !.code = NoCode, !.alerted = FALSE],
   notice |-> IF r.alerted THEN Notice("recovery", r.code, r.episode) ELSE Silence]

(* Mutant: an incident that goes on is told at every attempt.              *)
TransitionRepeats(r, outcome) ==
  CASE outcome = Ok -> Recover(r)
    [] outcome = r.code ->
         [next |-> r, notice |-> Notice("failure", r.code, r.episode)]
    [] OTHER -> NewIncident(r, outcome)

Transition(r, outcome) ==
  CASE outcome = Ok -> Recover(r)
    [] outcome = r.code -> ContinuingIncident(r)
    [] OTHER -> NewIncident(r, outcome)

(* Mutant: the incident is recorded as alerted whether or not it was.      *)
UnconfirmedAnyway(r, notice, next) == next

(* What is recorded when the webhook did not confirm the notice: a failure *)
(* stays to be told, a recovery leaves the incident open.                  *)
Unconfirmed(r, notice, next) ==
  IF notice.kind = "failure" THEN [next EXCEPT !.alerted = FALSE] ELSE r

-----------------------------------------------------------------------------
AlertsInit ==
  /\ condition = Ok
  /\ record = Blank
  /\ memory = [p \in Procs |-> Blank]
  /\ attempt = [p \in Procs |-> Rest("off")]
  /\ heard = Silence /\ teller = "daemon" /\ doubt = "none"
  /\ changes = 0 /\ gates = 0 /\ mishaps = 0

Mishap == mishaps < MaxMishaps /\ mishaps' = mishaps + 1
Changed == changes < MaxChanges /\ changes' = changes + 1

Enter(p, a) == attempt' = [attempt EXCEPT ![p] = a]
Remember(p, r) == memory' = [memory EXCEPT ![p] = r]

(* The account falls ill, changes its illness or gets well.                *)
Change(outcome) ==
  /\ outcome # condition /\ Changed
  /\ condition' = outcome
  /\ UNCHANGED <<record, memory, attempt, heard, teller, doubt, gates, mishaps>>

(* The daemon's loop reads the row, ...                                    *)
Reconcile ==
  /\ attempt["daemon"].pc \in {"off", "idle"}
  /\ Enter("daemon", Rest("ready")) /\ Remember("daemon", record)
  /\ UNCHANGED <<condition, record, heard, teller, doubt, changes, gates, mishaps>>

(* ... or cannot, and its runner goes by what it remembers.                *)
ReconcileFails ==
  /\ attempt["daemon"].pc = "idle" /\ Mishap
  /\ Enter("daemon", Rest("ready"))
  /\ UNCHANGED <<condition, record, memory, heard, teller, doubt, changes, gates>>

GateStart ==
  /\ attempt["gate"].pc = "off"
  /\ gates < MaxGates /\ gates' = gates + 1
  /\ Enter("gate", Rest("ready")) /\ Remember("gate", record)
  /\ UNCHANGED <<condition, record, heard, teller, doubt, changes, mishaps>>

(* The daemon finds the profile taken while the gate runs, the gate        *)
(* whenever the daemon keeps a browser.                                    *)
Contended(p) == p = "gate" \/ attempt["gate"].pc # "off"

(* An attempt has ended: judge its outcome.                                *)
Judge(p, outcome) ==
  /\ attempt[p].pc = "ready"
  /\ \/ outcome = condition /\ UNCHANGED changes
     \/ outcome = Busy /\ Contended(p)
        /\ IF p = "daemon" THEN Changed ELSE UNCHANGED changes
  /\ LET t == Transition(memory[p], outcome) IN
       Enter(p, [pc |-> IF t.notice.kind = "none" THEN "persist" ELSE "send",
                 notice |-> t.notice, next |-> t.next, acked |-> FALSE])
  /\ UNCHANGED <<condition, record, memory, heard, teller, doubt, gates, mishaps>>

Sending(p) == attempt[p].pc = "send"

Hear(p) ==
  /\ heard' = attempt[p].notice /\ teller' = p
  /\ doubt' = "unrecorded"

Confirmed(p) == Enter(p, [attempt[p] EXCEPT !.pc = "persist", !.acked = TRUE])

Unanswered(p) ==
  Enter(p, [attempt[p] EXCEPT !.pc = "persist",
              !.next = Unconfirmed(memory[p], attempt[p].notice, @)])

(* The webhook takes the notice and says so.                               *)
Delivered(p) ==
  /\ Sending(p) /\ Hear(p) /\ Confirmed(p)
  /\ UNCHANGED <<condition, record, memory, changes, gates, mishaps>>

(* It refuses, or cannot be reached.                                       *)
Undelivered(p) ==
  /\ Sending(p) /\ Unanswered(p)
  /\ UNCHANGED <<condition, record, memory, heard, teller, doubt, changes, gates,
                 mishaps>>

(* It takes the notice and the answer is lost.                             *)
AnswerLost(p) ==
  /\ Sending(p) /\ Mishap /\ Hear(p) /\ Unanswered(p)
  /\ UNCHANGED <<condition, record, memory, changes, gates>>

Persisting(p) == attempt[p].pc = "persist"

(* The write replaces whatever is on the row: where that is not what the   *)
(* attempt began from, or another's notice came after its own, the row and *)
(* what the operators heard last may part.                                 *)
Crosses(p) == memory[p] # record \/ (attempt[p].acked /\ teller # p)

Persist(p) ==
  /\ Persisting(p)
  /\ record' = attempt[p].next
  /\ Remember(p, IF p = "daemon" THEN attempt[p].next ELSE Blank)
  /\ Enter(p, After(p))
  /\ doubt' = CASE Crosses(p) -> "crossed"
                [] ~Crosses(p) /\ attempt[p].acked -> "none"
                [] OTHER -> doubt
  /\ UNCHANGED <<condition, heard, teller, changes, gates, mishaps>>

(* A write fails, that of the attempt's telemetry before it is judged or   *)
(* that of the incident; the daemon's runner remembers what it did before. *)
WriteFails(p) ==
  /\ attempt[p].pc \in {"ready", "persist"} /\ Mishap
  /\ Enter(p, After(p)) /\ Remember(p, IF p = "daemon" THEN memory[p] ELSE Blank)
  /\ UNCHANGED <<condition, record, heard, teller, doubt, changes, gates>>

(* The process is killed, before the post or after it.                     *)
RunnerKilled(p) ==
  /\ attempt[p].pc # "off" /\ Mishap
  /\ \/ UNCHANGED <<heard, teller, doubt>>
     \/ Sending(p) /\ Hear(p)
  /\ Enter(p, Rest("off")) /\ Remember(p, Blank)
  /\ UNCHANGED <<condition, record, changes, gates>>

AlertsNext ==
  \/ \E outcome \in Codes \cup {Ok} :
        Change(outcome) \/ \E p \in Procs : Judge(p, outcome)
  \/ Reconcile \/ ReconcileFails \/ GateStart
  \/ \E p \in Procs :
        \/ Delivered(p) \/ Undelivered(p) \/ AnswerLost(p)
        \/ Persist(p) \/ WriteFails(p) \/ RunnerKilled(p)

GoesOn(p) == \/ p = "daemon" /\ Reconcile
             \/ \E outcome \in Codes \cup {Ok} : Judge(p, outcome)
             \/ Delivered(p) \/ Undelivered(p) \/ Persist(p)

(* The scheduler attempts again for ever and every attempt has a timeout;  *)
(* the webhook is not down for ever.                                       *)
AlertsFairness == /\ \A p \in Procs : WF_alerts(GoesOn(p))
                  /\ SF_alerts(Delivered("daemon"))

AlertsSpec == AlertsInit /\ [][AlertsNext]_alerts /\ AlertsFairness

-----------------------------------------------------------------------------
AlertsTypeOK ==
  /\ condition \in Codes \cup {Ok}
  /\ record \in Records /\ memory \in [Procs -> Records]
  /\ \A r \in {record} \cup {memory[p] : p \in Procs} :
        r.code = NoCode => ~r.alerted
  /\ attempt \in [Procs -> Attempts]
  /\ heard \in Notices \cup {Silence} /\ teller \in Procs
  /\ doubt \in Doubts
  /\ changes \in 0..MaxChanges /\ gates \in 0..MaxGates
  /\ mishaps \in 0..MaxMishaps

(* A runner is about to post what an incident calls for that is no longer  *)
(* the one on the row.                                                     *)
Outdated == \E p \in Procs : Sending(p) /\ memory[p] # record

Promise == INSTANCE Incidents
             WITH Codes <- Codes, heard <- heard, doubt <- (IF Outdated THEN "crossed" ELSE doubt)

(* The alerts implement the promise: no incident is told twice and no      *)
(* recovery comes without its incident, unless a delivery was not recorded *)
(* or the gate and the daemon wrote or posted across each other            *)
(* (Alert once per code/episode and recover only an alerted incident).     *)
NoticesOnce == Promise!Spec

(* An illness that lasts is told at last: its code is the one on record,   *)
(* confirmed, and the operators have heard it, unless their last answer    *)
(* was lost or the record of a runner was overwritten by the other.        *)
OutageTold ==
  <>[](condition # Ok =>
         /\ record.code = condition /\ record.alerted
         /\ doubt # "none" \/ (heard.kind = "failure" /\ heard.code = condition))
=============================================================================
