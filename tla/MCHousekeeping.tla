--------------------------- MODULE MCHousekeeping ---------------------------
(***************************************************************************)
(* One instance for three small modules that share no state: every         *)
(* behaviour runs one of them, `part', and leaves the other two at rest.   *)
(* Next lists the actions of their next-state relations one by one.        *)
(***************************************************************************)
EXTENDS Alerts, Onboarding, FileCache

VARIABLE part             \* the module whose turn this behaviour is

all == <<part, alerts, onboarding, cache>>

Alerting(step) == part = "alerts" /\ step /\ UNCHANGED <<part, onboarding, cache>>
Boarding(step) == part = "onboarding" /\ step /\ UNCHANGED <<part, alerts, cache>>
Caching(step) == part = "cache" /\ step /\ UNCHANGED <<part, alerts, onboarding>>

Init == /\ part \in {"alerts", "onboarding", "cache"}
        /\ AlertsInit /\ OnboardingInit /\ FileCacheInit
        /\ part # "cache" => cleaner = "off"            \* one state at rest

Next ==
  \/ \E outcome \in Codes \cup {Ok} :
       \/ Alerting(Change(outcome))
       \/ \E p \in Procs : Alerting(Judge(p, outcome))
  \/ Alerting(Reconcile) \/ Alerting(ReconcileFails) \/ Alerting(GateStart)
  \/ \E p \in Procs :
       \/ Alerting(Delivered(p)) \/ Alerting(Undelivered(p))
       \/ Alerting(AnswerLost(p)) \/ Alerting(Persist(p))
       \/ Alerting(WriteFails(p)) \/ Alerting(RunnerKilled(p))
  \/ \E p \in Clients \cup {Cli} :
       \/ Boarding(ReadToken(p)) \/ Boarding(ReadProjects(p))
       \/ Boarding(CreateProject(p)) \/ Boarding(AddProject(p))
       \/ Boarding(PoolFull(p)) \/ Boarding(Point(p))
  \/ \E c \in Clients :
       \/ \E a \in Accounts : Boarding(Request(c, a))
       \/ Boarding(Pick(c)) \/ Boarding(RequestFails(c))
  \/ Boarding(StartNew) \/ \E a \in Accounts : Boarding(StartExisting(a))
  \/ Boarding(LoggedIn) \/ Boarding(Insert) \/ Boarding(Rename)
  \/ Boarding(Publish) \/ Boarding(Fails) \/ Boarding(Killed)
  \/ Boarding(DropRow) \/ Boarding(RowStays)
  \/ Boarding(Sweep) \/ Boarding(SweepMisses)
  \/ \E r \in Requests :
       \/ \E f \in Files : Caching(Ask(r, f))
       \/ Caching(Hit(r)) \/ Caching(Miss(r)) \/ Caching(RaceWon(r))
       \/ Caching(RaceLost(r)) \/ Caching(Fetched(r))
       \/ Caching(ToolFetched(r)) \/ Caching(ToolsFail(r))
       \/ Caching(Cancelled(r))
  \/ Caching(Tick) \/ Caching(Stopped)
  \/ \E fs \in SUBSET Files : Caching(CleanUp(fs))
  \/ \E t \in Timeouts : Caching(SetTimeout(t))

(* The fairness of each module, for the part that runs.                    *)
Fairness ==
  /\ \A p \in Procs : WF_all(Alerting(GoesOn(p)))
  /\ SF_all(Alerting(Delivered("daemon")))
  /\ \A r \in Requests : WF_all(Caching(Answer(r)))
  /\ WF_all(Caching(Tick)) /\ WF_all(Caching(Stopped))
  /\ \A f \in Files : SF_all(Caching(Dropped(f)))

Spec == Init /\ [][Next]_all /\ Fairness

(* The types of the three parts.                                           *)
TypeOK == AlertsTypeOK /\ OnboardingTypeOK /\ FileCacheTypeOK
=============================================================================
