---------------------------- MODULE SidecarProofs ----------------------------
(***************************************************************************)
(* Proofs about Sidecar, for every set of accounts and proxies and every   *)
(* cast of actors, with any number of faults.                              *)
(***************************************************************************)
EXTENDS Sidecar, WellFoundedInduction, TLAPS

(***************************************************************************)
(* reconcile picks the lowest id of the accounts it still has to handle.   *)
(***************************************************************************)
LEMMA FirstType ==
    ASSUME NEW S, S \subseteq Accounts, S # {}
    PROVE  First(S) \in S
<1> DEFINE R == {ss \in Nat \X Nat : ss[1] < ss[2]}
<1>1. IsWellFoundedOn(R, Nat)
  BY NatLessThanWellFounded DEF OpToRel
<1>2. S \subseteq Nat
  BY AccountsAssumption
<1>3. PICK x \in S : \A y \in S : ~(<<y, x>> \in R)
  <2> HIDE DEF R
  <2> QED  BY <1>1, <1>2, WFMin
<1>4. ASSUME NEW y \in S PROVE x <= y
  <2>1. x \in Nat /\ y \in Nat
    BY <1>2
  <2>2. <<y, x>> \in R <=> y < x
    BY <2>1
  <2>3. ~(y < x)
    BY <1>3, <2>2
  <2>4. QED  BY <2>1, <2>3
<1>5. QED  BY <1>4 DEF First

LEMMA NewRunnerType ==
    ASSUME NEW t \in Targets
    PROVE  /\ NewRunner(t) \in Runners
           /\ NewRunner(t).phase = "idle" /\ NewRunner(t).via = NoBrowser
BY DEF NewRunner, Runners, Phases

LEMMA NoRunnerType ==
    /\ NoRunner \in Runners
    /\ NoRunner.phase = "none" /\ NoRunner.via = NoBrowser
<1>1. Targets # {}
  <2>1. PICK x : x \in Proxies
    BY ProxiesAssumption
  <2>2. [mode |-> "warm", ready |-> TRUE, proxy |-> x] \in Targets
    BY <2>1 DEF Targets
  <2>3. QED  BY <2>2
<1>2. (CHOOSE t \in Targets : TRUE) \in Targets
  BY <1>1
<1>3. QED  BY <1>2 DEF NoRunner, NewRunner, Runners, Phases

LEMMA NoRowsType == NoRows \in UNION {[S -> Targets] : S \in SUBSET Accounts}
<1>1. NoRows \in [{} -> Targets]
  BY DEF NoRows
<1>2. QED  BY <1>1

\* Every pass of the loop moves its program counter to a known place.
LEMMA GotoType ==
    ASSUME NEW pc \in {"down", "list", "reconcile", "sweep", "cycle", "sleep",
                       "wedged", "stuck", "stopping", "terminated"},
           Goto(pc)
    PROVE  daemon' \in Loops
BY NoRowsType DEF Goto, Loops

\* A thread that goes on without its attempt has not taken the lease by that.
LEMMA AbandonedType ==
    ASSUME NEW old \in Threads, NEW phase
    PROVE  /\ Abandoned(old, phase) \in Threads
           /\ Abandoned(old, phase) = "took" <=> old = "took"
<1>1. CASE phase = "acquire" /\ old \in {"none", "tidying"}
  BY <1>1 DEF Abandoned, Threads
<1>2. CASE phase = "prepare" /\ old = "none"
  BY <1>2 DEF Abandoned, Threads
<1>3. CASE ~(phase = "acquire" /\ old \in {"none", "tidying"})
           /\ ~(phase = "prepare" /\ old = "none")
  BY <1>3 DEF Abandoned
<1>4. QED  BY <1>1, <1>2, <1>3

(***************************************************************************)
(* Type correctness, group by group: the attempts, the loop of the daemon, *)
(* the gate, the re-login, the operators.                                  *)
(***************************************************************************)
LEMMA BecomeType ==
    ASSUME TypeOK, NEW p \in Procs, NEW a \in Accounts, NEW r \in Runners,
           Become(p, a, r)
    PROVE  runner' \in [Procs -> [Accounts -> Runners]]
BY DEF TypeOK, Become

LEMMA BecomeAt ==
    ASSUME TypeOK, NEW p \in Procs, NEW a \in Accounts, NEW r, Become(p, a, r)
    PROVE  runner'[p][a] = r
BY DEF TypeOK, Become

LEMMA ToType ==
    ASSUME TypeOK, NEW p \in Procs, NEW a \in Accounts, NEW phase \in Phases,
           To(p, a, phase)
    PROVE  runner' \in [Procs -> [Accounts -> Runners]]
<1>1. runner[p][a] \in Runners
  BY DEF TypeOK
<1>2. [runner[p][a] EXCEPT !.phase = phase] \in Runners
  BY <1>1 DEF Runners
<1>3. QED  BY <1>2, BecomeType DEF To

LEMMA FaultType ==
    ASSUME TypeOK, Fault
    PROVE  scene' \in SceneTypes
<1>1. scene \in SceneTypes /\ scene.faults > 0
      /\ scene' = [scene EXCEPT !.faults = @ - 1]
  BY DEF TypeOK, Fault
<1>2. scene.faults - 1 \in Nat
  BY <1>1 DEF SceneTypes
<1>3. QED  BY <1>1, <1>2 DEF SceneTypes

LEMMA AttemptType ==
    ASSUME TypeOK, NEW p \in Procs, NEW a \in Accounts,
           Attempt(p, a) \/ ThreadSteps(p, a)
    PROVE  TypeOK'
<1> USE DEF Others
<1>1. p \in {"daemon", "once"}
  BY DEF Procs
<1>2. runner[p][a] \in Runners
  BY DEF TypeOK
<1>3. CASE Acquire(p, a)
  <2>1. runner' \in [Procs -> [Accounts -> Runners]]
    BY <1>3, ToType DEF Acquire, Phases
  <2>2. lease' \in [Accounts -> Procs \cup {"free", "onboard"}]
        /\ \A b \in Accounts : lease'[b] = "onboard" <=> lease[b] = "onboard"
    BY <1>1, <1>3 DEF Acquire, TypeOK
  <2>3. QED  BY <1>3, <2>1, <2>2 DEF Acquire, TypeOK, Relogged
<1>4. CASE AcquireTimeout(p, a)
  <2>1. runner' \in [Procs -> [Accounts -> Runners]] /\ scene' \in SceneTypes
    BY <1>4, ToType, FaultType DEF AcquireTimeout, Phases
  <2>2. thread' \in [Procs -> [Accounts -> Threads]]
    BY <1>4, AbandonedType DEF AcquireTimeout, TypeOK
  <2>3. QED  BY <1>4, <2>1, <2>2 DEF AcquireTimeout, TypeOK, Relogged
<1>5. CASE LateAcquire(p, a)
  <2>1. lease' \in [Accounts -> Procs \cup {"free", "onboard"}]
        /\ \A b \in Accounts : lease'[b] = "onboard" <=> lease[b] = "onboard"
    BY <1>1, <1>5 DEF LateAcquire, TypeOK
  <2>2. PICK t \in {"none", "took"} : thread' = [thread EXCEPT ![p][a] = t]
    BY <1>5 DEF LateAcquire
  <2>3. thread' \in [Procs -> [Accounts -> Threads]]
    BY <2>2 DEF TypeOK, Threads
  <2>4. QED  BY <1>5, <2>1, <2>3 DEF LateAcquire, TypeOK, Relogged
<1>6. CASE Prepare(p, a)
  <2>1. runner' \in [Procs -> [Accounts -> Runners]]
    BY <1>6, ToType DEF Prepare, Phases
  <2>2. QED  BY <1>6, <2>1 DEF Prepare, TypeOK, Relogged
<1>7. CASE Launched(p, a)
  <2>1. [runner[p][a] EXCEPT !.phase = "refresh",
                             !.via = runner[p][a].target.proxy] \in Runners
    BY <1>2 DEF Runners, Phases, Targets
  <2>2. runner' \in [Procs -> [Accounts -> Runners]]
    BY <1>7, <2>1, BecomeType DEF Launched
  <2>3. QED  BY <1>7, <2>2 DEF Launched, TypeOK, Relogged
<1>8. CASE LaunchFails(p, a)
  <2>1. runner' \in [Procs -> [Accounts -> Runners]] /\ scene' \in SceneTypes
    BY <1>8, ToType, FaultType DEF LaunchFails, Phases, TypeOK
  <2>2. QED  BY <1>8, <2>1 DEF LaunchFails, TypeOK, Relogged, Stray
<1>9. CASE Refreshed(p, a)
  <2>1. PICK restart \in BOOLEAN :
             Become(p, a, [runner[p][a] EXCEPT !.phase = "record",
                                               !.restart = restart])
    BY <1>9 DEF Refreshed
  <2>2. [runner[p][a] EXCEPT !.phase = "record", !.restart = restart] \in Runners
    BY <1>2 DEF Runners, Phases
  <2>3. runner' \in [Procs -> [Accounts -> Runners]]
    BY <2>1, <2>2, BecomeType
  <2>4. QED  BY <1>9, <2>3 DEF Refreshed, TypeOK, Relogged
<1>10. CASE Record(p, a)
  <2>1. [runner[p][a] EXCEPT !.phase = AfterAttempt(runner[p][a]),
                             !.restart = FALSE] \in Runners
    BY <1>2 DEF Runners, Phases, AfterAttempt
  <2>2. runner' \in [Procs -> [Accounts -> Runners]]
    BY <1>10, <2>1, BecomeType DEF Record
  <2>3. QED  BY <1>10, <2>2 DEF Record, TypeOK, Relogged
<1>11. CASE RecordWedges(p, a) \/ WorkerReturns(p, a)
  <2>1. PICK phase \in {"wedged", "stuck", "record"} : To(p, a, phase)
    BY <1>11 DEF RecordWedges, WorkerReturns
  <2>2. runner' \in [Procs -> [Accounts -> Runners]]
    BY <2>1, ToType DEF Phases
  <2>3. scene' \in SceneTypes
    BY <1>11, FaultType DEF RecordWedges, WorkerReturns, TypeOK
  <2>4. QED  BY <1>11, <2>2, <2>3 DEF RecordWedges, WorkerReturns, TypeOK, Relogged
<1>12. CASE StopBrowser(p, a)
  <2>1. [runner[p][a] EXCEPT !.phase = "releasing", !.via = NoBrowser] \in Runners
    BY <1>2 DEF Runners, Phases
  <2>2. runner' \in [Procs -> [Accounts -> Runners]]
    BY <1>12, <2>1, BecomeType DEF StopBrowser
  <2>3. scene' \in SceneTypes
    BY <1>12, FaultType DEF StopBrowser, TypeOK
  <2>4. QED  BY <1>12, <2>2, <2>3 DEF StopBrowser, TypeOK, Relogged, Stray
<1>13. CASE ReleaseLease(p, a)
  <2>1. runner' \in [Procs -> [Accounts -> Runners]]
    BY <1>13, ToType, BecomeType, NoRunnerType DEF ReleaseLease, Phases
  <2>2. lease' \in [Accounts -> Procs \cup {"free", "onboard"}]
        /\ \A b \in Accounts : lease'[b] = "onboard" <=> lease[b] = "onboard"
    BY <1>1, <1>13 DEF ReleaseLease, TypeOK, Holds
  <2>3. QED  BY <1>13, <2>1, <2>2 DEF ReleaseLease, TypeOK, Relogged
<1>14. CASE PrepareTimeout(p, a)
  <2>1. runner' \in [Procs -> [Accounts -> Runners]] /\ scene' \in SceneTypes
    BY <1>14, ToType, FaultType DEF PrepareTimeout, Phases
  <2>2. thread' \in [Procs -> [Accounts -> Threads]]
    BY <1>14, AbandonedType DEF PrepareTimeout, TypeOK
  <2>3. QED  BY <1>14, <2>1, <2>2 DEF PrepareTimeout, TypeOK, Relogged
<1>15. CASE ThreadReturns(p, a)
  <2>1. thread' \in [Procs -> [Accounts -> Threads]]
    BY <1>15 DEF ThreadReturns, TypeOK, Threads
  <2>2. QED  BY <1>15, <2>1 DEF ThreadReturns, TypeOK, Relogged
<1>16. QED
  BY <1>3, <1>4, <1>5, <1>6, <1>7, <1>8, <1>9, <1>10, <1>11, <1>12, <1>13, <1>14,
     <1>15 DEF Attempt, ThreadSteps

LEMMA LoopType ==
    ASSUME TypeOK, DaemonLoop \/ DaemonFails \/ ListReturns
    PROVE  TypeOK'
<1>1. /\ daemon \in Loops
      /\ daemon.listed \in [DOMAIN daemon.listed -> Targets]
      /\ DOMAIN daemon.listed \subseteq Accounts
      /\ daemon.todo \subseteq Accounts
  BY DEF TypeOK, Loops
<1>2. "daemon" \in Procs
  BY DEF Procs
<1>3. \A a \in Accounts : runner["daemon"][a] \in Runners
  BY <1>2 DEF TypeOK
<1>4. \A a \in Accounts : Handled(a) => daemon' \in Loops
  BY <1>1 DEF Handled, Loops
<1>5. CASE List
  <2>1. [a \in Enabled |-> row[a].target] \in [Enabled -> Targets]
        /\ Enabled \in SUBSET Accounts
    BY DEF TypeOK, Enabled, Rows
  <2>2. daemon' \in Loops
    BY <1>5, <2>1 DEF List, Loops
  <2>3. QED  BY <1>5, <2>2 DEF List, TypeOK, Relogged
<1>6. CASE ListFails \/ ListWedges \/ ListReturns \/ Terminate
  <2>1. daemon' \in Loops
    BY <1>6, GotoType DEF ListFails, ListWedges, ListReturns, Terminate
  <2>2. scene' \in SceneTypes
    BY <1>6, FaultType DEF ListFails, ListWedges, ListReturns, Terminate, TypeOK
  <2>3. QED
    BY <1>6, <2>1, <2>2 DEF ListFails, ListWedges, ListReturns, Terminate, TypeOK,
                            Relogged
<1>7. CASE Reconciled \/ CycleEnds \/ Wake \/ Watchdog \/ Start
  <2>1. daemon' \in Loops
    BY <1>7, GotoType DEF Reconciled, CycleEnds, Wake, Watchdog, Start
  <2>2. QED
    BY <1>7, <2>1 DEF Reconciled, CycleEnds, Wake, Watchdog, Start, TypeOK, Relogged
<1>8. CASE RemoveRunner
  <2> DEFINE a == First(ToRemove)
  <2>1. a \in Accounts
    BY <1>1, <1>8, FirstType DEF RemoveRunner, ToRemove
  <2> HIDE DEF a
  <2>2. [runner["daemon"][a] EXCEPT !.phase = "stopping", !.leaving = TRUE] \in Runners
    BY <1>3, <2>1 DEF Runners, Phases
  <2>3. Become("daemon", a, [runner["daemon"][a] EXCEPT !.phase = "stopping",
                                                       !.leaving = TRUE])
        /\ Handled(a)
    BY <1>8 DEF RemoveRunner, a
  <2>4. runner' \in [Procs -> [Accounts -> Runners]] /\ daemon' \in Loops
    BY <1>2, <1>4, <2>1, <2>2, <2>3, BecomeType
  <2>5. QED  BY <1>8, <2>4 DEF RemoveRunner, TypeOK, Relogged
<1>9. CASE UpdateTarget
  <2> DEFINE a == First(ToUpdate)
             r == [runner["daemon"][a] EXCEPT !.target = daemon.listed[a],
                      !.phase = IF Outdated(runner["daemon"][a].target,
                                            daemon.listed[a])
                                THEN "stopping" ELSE "idle"]
  <2>1. a \in Accounts /\ a \in DOMAIN daemon.listed
    <3>1. ToUpdate \subseteq Accounts /\ ToUpdate # {}
      BY <1>1, <1>9 DEF UpdateTarget, ToUpdate
    <3>2. a \in ToUpdate
      BY <3>1, FirstType
    <3>3. QED  BY <3>1, <3>2 DEF ToUpdate
  <2>2. Become("daemon", a, r) /\ Handled(a)
    BY <1>9 DEF UpdateTarget
  <2>3. r \in Runners
    <3> HIDE DEF a
    <3>1. daemon.listed[a] \in Targets
      BY <1>1, <2>1
    <3>2. QED  BY <1>3, <2>1, <3>1 DEF Runners, Phases
  <2> HIDE DEF a, r
  <2>4. runner' \in [Procs -> [Accounts -> Runners]] /\ daemon' \in Loops
    BY <1>2, <1>4, <2>1, <2>2, <2>3, BecomeType
  <2>5. QED  BY <1>9, <2>4 DEF UpdateTarget, TypeOK, Relogged
<1>10. CASE CreateRunner
  <2> DEFINE a == First(ToCreate)
  <2>1. a \in Accounts /\ a \in DOMAIN daemon.listed
    <3>1. ToCreate \subseteq Accounts /\ ToCreate # {}
      BY <1>1, <1>10 DEF CreateRunner, ToCreate
    <3>2. a \in ToCreate
      BY <3>1, FirstType
    <3>3. QED  BY <3>1, <3>2 DEF ToCreate
  <2>2. Become("daemon", a, NewRunner(daemon.listed[a])) /\ Handled(a)
    BY <1>10 DEF CreateRunner
  <2> HIDE DEF a
  <2>3. NewRunner(daemon.listed[a]) \in Runners
    BY <1>1, <2>1 DEF NewRunner, Runners, Phases
  <2>4. runner' \in [Procs -> [Accounts -> Runners]] /\ daemon' \in Loops
    BY <1>2, <1>4, <2>1, <2>2, <2>3, BecomeType
  <2>5. QED  BY <1>10, <2>4 DEF CreateRunner, TypeOK, Relogged
<1>11. ASSUME NEW due \in SUBSET Accounts, RunDueOnce(due)
       PROVE  TypeOK'
  <2>1. \A a \in Accounts, phase \in {"acquire", "refresh"} :
          [runner["daemon"][a] EXCEPT !.phase = phase] \in Runners
    BY <1>3 DEF Runners, Phases
  <2>2. runner' \in [Procs -> [Accounts -> Runners]]
    BY <1>2, <1>3, <1>11, <2>1 DEF RunDueOnce, TypeOK
  <2>3. daemon' \in Loops
    BY <1>11, GotoType DEF RunDueOnce
  <2>4. QED  BY <1>11, <2>2, <2>3 DEF RunDueOnce, TypeOK, Relogged
<1>12. ASSUME NEW a \in Accounts, StopRunner(a)
       PROVE  TypeOK'
  <2>1. [runner["daemon"][a] EXCEPT !.phase = "stopping", !.leaving = TRUE] \in Runners
    BY <1>3 DEF Runners, Phases
  <2>2. runner' \in [Procs -> [Accounts -> Runners]]
    BY <1>2, <1>12, <2>1, BecomeType DEF StopRunner
  <2>3. thread' \in [Procs -> [Accounts -> Threads]]
    BY <1>2, <1>12, AbandonedType DEF StopRunner, TypeOK
  <2>4. chrome' \in [Accounts -> Procs \cup {"none", "login", "stray", "strayDaemon"}]
    BY <1>12 DEF StopRunner, TypeOK, Stray
  <2>5. QED
    BY <1>12, <2>2, <2>3, <2>4 DEF StopRunner, Others, TypeOK, Relogged
<1>13. CASE Exit \/ DaemonKilled
  <2>1. DaemonGone /\ scene' \in SceneTypes
    BY <1>13, FaultType DEF Exit, DaemonKilled, TypeOK
  <2>2. runner' \in [Procs -> [Accounts -> Runners]]
    BY <1>2, <2>1, NoRunnerType DEF DaemonGone, TypeOK
  <2>3. thread' \in [Procs -> [Accounts -> Threads]]
    BY <1>2, <2>1 DEF DaemonGone, TypeOK, Threads
  <2>4. lease' \in [Accounts -> Procs \cup {"free", "onboard"}]
        /\ \A a \in Accounts : lease'[a] = "onboard" <=> lease[a] = "onboard"
    BY <2>1 DEF DaemonGone, TypeOK
  <2>5. chrome' \in [Accounts -> Procs \cup {"none", "login", "stray", "strayDaemon"}]
    BY <2>1 DEF DaemonGone, TypeOK
  <2>6. daemon' \in Loops
    BY <2>1, GotoType DEF DaemonGone
  <2>7. QED
    BY <2>1, <2>2, <2>3, <2>4, <2>5, <2>6 DEF DaemonGone, TypeOK, Relogged
<1>14. QED
  BY <1>5, <1>6, <1>7, <1>8, <1>9, <1>10, <1>11, <1>12, <1>13
     DEF DaemonLoop, DaemonFails

LEMMA GateType ==
    ASSUME TypeOK, OnceExits \/ OnceKilled \/ \E a \in Accounts : OnceStart(a)
    PROVE  TypeOK'
<1>1. "once" \in Procs
  BY DEF Procs
<1>2. ASSUME NEW a \in Accounts, OnceStart(a)
      PROVE  TypeOK'
  <2>1. row[a].target \in Targets
    BY DEF TypeOK, Rows
  <2>2. [NewRunner(row[a].target) EXCEPT !.phase = "acquire", !.leaving = TRUE]
          \in Runners
    BY <2>1 DEF NewRunner, Runners, Phases
  <2>3. runner' \in [Procs -> [Accounts -> Runners]]
    BY <1>1, <1>2, <2>2, BecomeType DEF OnceStart
  <2>4. QED  BY <1>2, <2>3 DEF OnceStart, Others, TypeOK, Relogged
<1>3. CASE OnceKilled
  <2>1. scene' \in SceneTypes
    BY <1>3, FaultType DEF OnceKilled
  <2>2. runner' \in [Procs -> [Accounts -> Runners]]
    BY <1>1, <1>3, NoRunnerType DEF OnceKilled, TypeOK
  <2>3. thread' \in [Procs -> [Accounts -> Threads]]
    BY <1>1, <1>3 DEF OnceKilled, TypeOK, Threads
  <2>4. lease' \in [Accounts -> Procs \cup {"free", "onboard"}]
        /\ \A a \in Accounts : lease'[a] = "onboard" <=> lease[a] = "onboard"
    BY <1>3 DEF OnceKilled, TypeOK
  <2>5. chrome' \in [Accounts -> Procs \cup {"none", "login", "stray", "strayDaemon"}]
    BY <1>3 DEF OnceKilled, TypeOK, Stray
  <2>6. QED
    BY <1>3, <2>1, <2>2, <2>3, <2>4, <2>5 DEF OnceKilled, Others, TypeOK, Relogged
<1>4. CASE OnceExits
  <2>1. thread' \in [Procs -> [Accounts -> Threads]]
    BY <1>1, <1>4 DEF OnceExits, TypeOK, Threads
  <2>2. lease' \in [Accounts -> Procs \cup {"free", "onboard"}]
        /\ \A a \in Accounts : lease'[a] = "onboard" <=> lease[a] = "onboard"
    BY <1>4 DEF OnceExits, TypeOK
  <2>3. QED  BY <1>4, <2>1, <2>2 DEF OnceExits, Others, TypeOK, Relogged
<1>5. QED  BY <1>2, <1>3, <1>4

\* Every step of the re-login but the first concerns the account it is for.
LEMMA OnboardType ==
    ASSUME TypeOK, OnboardSteps \/ OnboardKilled \/ \E a \in Accounts : OnboardStart(a)
    PROVE  TypeOK'
<1> DEFINE Steps == {"pause", "poll", "validate", "login", "verify", "publish",
                     "published", "unlock", "restore"}
<1>0. /\ onboard \in Relogins /\ NoOnboard \in Relogins /\ NoOnboard.pc = "idle"
      /\ onboard.prev \in BOOLEAN
  <2>1. NoOnboard.pc = "idle" /\ NoOnboard.prev \in BOOLEAN
    BY DEF NoOnboard
  <2>2. onboard \in Relogins /\ NoOnboard \in Relogins
    BY DEF TypeOK, Relogins
  <2>3. QED  BY <2>1, <2>2 DEF Relogins
<1>1. ASSUME onboard.pc # "idle"
      PROVE  /\ Relogged \in Accounts
             /\ \A pc \in Steps :
                  /\ [onboard EXCEPT !.pc = pc] \in Relogins
                  /\ [onboard EXCEPT !.pc = pc].pc = pc
                  /\ [onboard EXCEPT !.pc = pc].account = onboard.account
  <2>1. onboard \in [pc : Steps, account : Accounts, prev : BOOLEAN]
    BY <1>0, <1>1 DEF Relogins
  <2>2. \A pc \in Steps : [onboard EXCEPT !.pc = pc] \in
                            [pc : Steps, account : Accounts, prev : BOOLEAN]
    BY <2>1
  <2>3. QED  BY <2>1, <2>2 DEF Relogins, Relogged
<1>2. /\ row \in [Accounts -> Rows]
      /\ lease \in [Accounts -> Procs \cup {"free", "onboard"}]
      /\ chrome \in [Accounts -> Procs \cup {"none", "login", "stray", "strayDaemon"}]
  BY DEF TypeOK
<1>3. ASSUME NEW a \in Accounts, OnboardStart(a)
      PROVE  TypeOK'
  <2>1. row[a].enabled \in BOOLEAN
    BY <1>2 DEF Rows
  <2>2. onboard' \in Relogins /\ onboard'.pc = "pause" /\ onboard.pc = "idle"
    BY <1>3, <2>1 DEF OnboardStart, OnboardAt, Relogins
  <2>3. QED  BY <1>3, <2>2 DEF OnboardStart, TypeOK
<1>4. CASE Pause
  <2>1. onboard' \in Relogins /\ onboard'.pc = "poll" /\ onboard.pc = "pause"
    BY <1>0, <1>1, <1>4 DEF Pause, OnboardAt, OnboardTo
  <2>2. \A a \in Accounts : [row[a] EXCEPT !.enabled = IF onboard.prev THEN FALSE ELSE @]
                              \in Rows
    BY <1>2 DEF Rows
  <2>3. row' \in [Accounts -> Rows]
    BY <1>2, <1>4, <2>2 DEF Pause
  <2>4. QED  BY <1>4, <2>1, <2>3 DEF Pause, TypeOK
<1>5. CASE PollLease
  <2>1. /\ onboard' \in Relogins /\ onboard'.pc = "validate"
        /\ onboard.pc = "poll" /\ Relogged' = Relogged
    BY <1>0, <1>1, <1>5 DEF PollLease, OnboardAt, OnboardTo, Relogged
  <2>2. lease' \in [Accounts -> Procs \cup {"free", "onboard"}]
    BY <1>2, <1>5 DEF PollLease
  <2>3. \A a \in Accounts : lease'[a] = "onboard" <=> a = Relogged
    BY <1>2, <1>5, <2>1 DEF PollLease, TypeOK
  <2>4. QED  BY <1>5, <2>1, <2>2, <2>3 DEF PollLease, TypeOK
<1>6. CASE PollTimeout
  <2>1. onboard' \in Relogins /\ onboard'.pc = "restore" /\ onboard.pc = "poll"
    BY <1>0, <1>1, <1>6 DEF PollTimeout, OnboardAt, OnboardTo
  <2>2. QED  BY <1>6, <2>1 DEF PollTimeout, TypeOK
<1>7. CASE Revalidate \/ LoginEnds \/ Verify
  <2>1. /\ onboard.pc \in {"validate", "login", "verify"}
        /\ \E pc \in {"publish", "login", "verify", "unlock"} :
             onboard' = [onboard EXCEPT !.pc = pc]
    BY <1>7 DEF Revalidate, LoginEnds, Verify, OnboardAt, OnboardTo
  <2>2. chrome' \in [Accounts -> Procs \cup {"none", "login", "stray", "strayDaemon"}]
    BY <1>2, <1>7 DEF Revalidate, LoginEnds, Verify
  <2>3. onboard' \in Relogins /\ Relogged' = Relogged
        /\ onboard'.pc \in {"publish", "login", "verify", "unlock"}
    BY <1>0, <1>1, <2>1 DEF Relogged
  <2>4. QED
    BY <1>7, <2>1, <2>2, <2>3 DEF Revalidate, LoginEnds, Verify, TypeOK
<1>8. CASE Publish
  <2>1. /\ onboard.pc = "publish"
        /\ \E pc \in {"published", "unlock"} : onboard' = [onboard EXCEPT !.pc = pc]
    BY <1>8 DEF Publish, OnboardAt, OnboardTo
  <2>2. onboard' \in Relogins /\ Relogged' = Relogged
        /\ onboard'.pc \in {"published", "unlock"}
    BY <1>0, <1>1, <2>1 DEF Relogged
  <2>3. ASSUME NEW a \in Accounts
        PROVE  [row[a] EXCEPT !.enabled = TRUE,
                              !.target = [@ EXCEPT !.mode = "persistent",
                                                   !.ready = TRUE]] \in Rows
    <3>1. row[a] \in [enabled : BOOLEAN, target : Targets]
      BY <1>2 DEF Rows
    <3>2. [row[a].target EXCEPT !.mode = "persistent", !.ready = TRUE] \in Targets
      BY <3>1 DEF Targets
    <3>3. QED  BY <3>1, <3>2 DEF Rows
  <2>4. row' \in [Accounts -> Rows]
    <3>1. CASE UNCHANGED row
      BY <1>2, <3>1
    <3>2. CASE row' = [row EXCEPT ![Relogged].enabled = TRUE,
                                  ![Relogged].target =
                                     [@ EXCEPT !.mode = "persistent",
                                               !.ready = TRUE]]
      BY <1>0, <1>1, <1>2, <2>1, <2>3, <3>2
    <3>3. QED  BY <1>8, <3>1, <3>2 DEF Publish
  <2>5. intent' \in [Accounts -> BOOLEAN] /\ excused' \subseteq Accounts
    BY <1>8 DEF Publish, TypeOK
  <2>6. QED
    BY <1>8, <2>1, <2>2, <2>4, <2>5 DEF Publish, TypeOK
<1>9. CASE Unlock
  <2>1. /\ onboard.pc \in {"unlock", "published"}
        /\ \/ onboard' = NoOnboard
           \/ onboard' = [onboard EXCEPT !.pc = "restore"]
    BY <1>9 DEF Unlock, OnboardAt, OnboardTo
  <2>2. onboard' \in Relogins /\ onboard'.pc \in {"idle", "restore"}
    BY <1>0, <1>1, <2>1
  <2>3. lease' \in [Accounts -> Procs \cup {"free", "onboard"}]
        /\ \A a \in Accounts : lease'[a] # "onboard"
    BY <1>2, <1>9, <2>1 DEF Unlock, TypeOK, Procs
  <2>4. QED
    BY <1>9, <2>2, <2>3 DEF Unlock, TypeOK
<1>10. CASE Restore
  <2>1. onboard.pc = "restore" /\ onboard' = NoOnboard
    BY <1>10 DEF Restore, OnboardAt
  <2>2. \A a \in Accounts : [row[a] EXCEPT !.enabled = @ \/ onboard.prev] \in Rows
    BY <1>0, <1>1, <1>2 DEF Rows
  <2>3. row' \in [Accounts -> Rows]
    BY <1>2, <1>10, <2>2 DEF Restore
  <2>4. excused' \subseteq Accounts /\ scene' \in SceneTypes
    BY <1>0, <1>1, <1>10, <2>1, FaultType DEF Restore, TypeOK
  <2>5. QED
    BY <1>0, <1>1, <1>10, <2>1, <2>3, <2>4 DEF Restore, TypeOK
<1>11. CASE OnboardKilled
  <2>1. onboard.pc # "idle" /\ scene' \in SceneTypes /\ onboard' = NoOnboard
    BY <1>11, FaultType DEF OnboardKilled, OnboardAt
  <2>2. lease' \in [Accounts -> Procs \cup {"free", "onboard"}]
        /\ \A a \in Accounts : lease'[a] # "onboard"
    BY <1>2, <1>11 DEF OnboardKilled, TypeOK, Procs
  <2>3. chrome' \in [Accounts -> Procs \cup {"none", "login", "stray", "strayDaemon"}]
    BY <1>2, <1>11 DEF OnboardKilled
  <2>4. excused' \subseteq Accounts
    BY <1>0, <1>1, <1>11, <2>1 DEF OnboardKilled, TypeOK
  <2>5. QED
    BY <1>0, <1>1, <1>11, <2>1, <2>2, <2>3, <2>4 DEF OnboardKilled, TypeOK
<1>12. QED
  BY <1>3, <1>4, <1>5, <1>6, <1>7, <1>8, <1>9, <1>10, <1>11 DEF OnboardSteps

LEMMA OperatorType ==
    ASSUME TypeOK, NEW a \in Accounts,
           \/ \E on \in BOOLEAN : SetKeepalive(a, on)
           \/ \E proxy \in Proxies : ChangeProxy(a, proxy)
           \/ ChromeDies(a) \/ StrayClosed(a)
    PROVE  TypeOK'
<1>1. row \in [Accounts -> Rows] /\ row[a] \in [enabled : BOOLEAN, target : Targets]
  BY DEF TypeOK, Rows
<1>2. ASSUME NEW on \in BOOLEAN, SetKeepalive(a, on)
      PROVE  TypeOK'
  <2>1. [row[a].target EXCEPT !.mode = "persistent"] \in Targets
    BY <1>1 DEF Targets
  <2>2. row' \in [Accounts -> Rows]
    BY <1>1, <1>2, <2>1 DEF SetKeepalive, Rows
  <2>3. intent' \in [Accounts -> BOOLEAN] /\ excused' \subseteq Accounts
    BY <1>2 DEF SetKeepalive, TypeOK
  <2>4. QED  BY <1>2, <2>2, <2>3 DEF SetKeepalive, TypeOK, Relogged
<1>3. ASSUME NEW proxy \in Proxies, ChangeProxy(a, proxy)
      PROVE  TypeOK'
  <2>1. [row[a].target EXCEPT !.proxy = proxy] \in Targets
    BY <1>1 DEF Targets
  <2>2. row' \in [Accounts -> Rows]
    BY <1>1, <1>3, <2>1 DEF ChangeProxy, Rows
  <2>3. QED  BY <1>3, <2>2 DEF ChangeProxy, Others, TypeOK, Relogged
<1>4. CASE ChromeDies(a) \/ StrayClosed(a)
  <2>1. scene' \in SceneTypes
    BY <1>4, FaultType DEF ChromeDies, StrayClosed, TypeOK
  <2>2. chrome' \in [Accounts -> Procs \cup {"none", "login", "stray", "strayDaemon"}]
    BY <1>4 DEF ChromeDies, StrayClosed, TypeOK
  <2>3. QED
    BY <1>4, <2>1, <2>2 DEF ChromeDies, StrayClosed, Others, TypeOK, Relogged
<1>5. QED  BY <1>2, <1>3, <1>4

LEMMA InitType == Init => TypeOK
<1> SUFFICES ASSUME Init PROVE TypeOK
  OBVIOUS
<1>1. daemon \in Loops
  BY NoRowsType DEF Init, Loops
<1>2. row \in [Accounts -> Rows] /\ \A a \in Accounts : row[a].enabled \in BOOLEAN
  BY DEF Init, Rows
<1>3. scene \in SceneTypes
  BY ScenesAssumption DEF Init
<1>4. runner \in [Procs -> [Accounts -> Runners]]
  BY NoRunnerType DEF Init
<1>5. onboard \in Relogins /\ onboard.pc = "idle"
  BY DEF Init, Relogins, NoOnboard
<1>6. QED  BY <1>1, <1>2, <1>3, <1>4, <1>5 DEF Init, TypeOK, Threads

LEMMA StepType == TypeOK /\ [Next]_vars => TypeOK'
<1> SUFFICES ASSUME TypeOK, [Next]_vars PROVE TypeOK'
  OBVIOUS
<1>1. CASE UNCHANGED vars
  BY <1>1 DEF vars, TypeOK, Relogged
<1>2. CASE Next
  BY <1>2, AttemptType, LoopType, GateType, OnboardType, OperatorType DEF Next
<1>3. QED  BY <1>1, <1>2

\* Every variable keeps its type, and the lease that a re-login got stays its
\* own until it gives it up.
THEOREM TypeCorrect == Spec => []TypeOK
<1>1. QED  BY InitType, StepType, PTL DEF Spec
-----------------------------------------------------------------------------
(* What a runner is, between any two steps: it keeps a browser only under the
   lease, a Chrome of its own is the browser it keeps, the phases before the
   launch and after the drain have none, and a lease that a thread took late is
   the process's but not the runner's. *)
RunnerInv(p, a) ==
    /\ Browser(p, a) => Holds(p, a)
    /\ chrome[a] = p => Browser(p, a)
    /\ thread[p][a] = "took" => lease[a] = p
    /\ Phase(p, a) \in {"prepare", "launch"} => Holds(p, a)
    /\ Phase(p, a) \in {"none", "acquire", "prepare", "launch", "releasing"} =>
          ~Browser(p, a)
    /\ Phase(p, a) \in {"none", "idle", "acquire"} => (Holds(p, a) => Browser(p, a))

\* A browser that is not about to be stopped fits its target.
FitInv(p, a) ==
    Browser(p, a) /\ Phase(p, a) # "stopping" =>
        /\ runner[p][a].via = runner[p][a].target.proxy
        /\ Phase(p, a) = "idle" => runner[p][a].target.mode = "persistent"

\* Only the login step of the re-login has a Chrome open.
LoginInv(a) == chrome[a] = "login" => Relogged = a /\ OnboardAt("login")

\* No attempt is under way while the loop lists, reconciles or sleeps.
LoopInv(a) ==
    /\ daemon.pc \in {"down", "list", "stuck", "sleep"} =>
          Phase("daemon", a) \in {"none", "idle"}
    /\ At("reconcile") => Phase("daemon", a) \in {"none", "idle", "stopping", "releasing"}

\* A pause is somebody's to end: the re-login remembers the flag it cleared.
PauseInv(a) ==
    \/ row[a].enabled
    \/ ~intent[a]
    \/ a \in excused
    \/ Relogged = a /\ onboard.prev /\ onboard.pc \notin {"idle", "published"}

ProfileInv ==
    \A a \in Accounts :
        /\ LoginInv(a) /\ LoopInv(a)
        /\ \A p \in Procs : RunnerInv(p, a) /\ FitInv(p, a)
PausesInv == \A a \in Accounts : PauseInv(a)

\* A step that touches neither runner (p, a) nor its claim on the lease and the
\* profile leaves it as it is.
LEMMA RunnerFrame ==
    ASSUME NEW p \in Procs, NEW a \in Accounts, RunnerInv(p, a), FitInv(p, a),
           runner'[p][a] = runner[p][a],
           thread'[p][a] = thread[p][a],
           lease'[a] = p <=> lease[a] = p,
           chrome'[a] = p => chrome[a] = p
    PROVE  RunnerInv(p, a)' /\ FitInv(p, a)'
BY DEF RunnerInv, FitInv, Holds, Browser, Phase

LEMMA LoopFrame ==
    ASSUME NEW a \in Accounts, LoopInv(a),
           daemon'.pc = daemon.pc, Phase("daemon", a)' = Phase("daemon", a)
    PROVE  LoopInv(a)'
BY DEF LoopInv, At

(***************************************************************************)
(* An attempt changes what its own runner is, and the claim of no other.   *)
(***************************************************************************)
LEMMA AttemptFrame ==
    ASSUME TypeOK, NEW p \in Procs, NEW a \in Accounts,
           Attempt(p, a) \/ ThreadSteps(p, a),
           NEW q \in Procs, NEW b \in Accounts, <<q, b>> # <<p, a>>
    PROVE  /\ runner'[q][b] = runner[q][b]
           /\ thread'[q][b] = thread[q][b]
           /\ lease'[b] = q <=> lease[b] = q
           /\ chrome'[b] = q => chrome[b] = q
<1> USE DEF Others, To, Become
<1>1. "free" \notin Procs /\ "none" \notin Procs /\ Stray(p) \notin Procs
  BY DEF Procs, Stray
<1>2. q # p \/ b # a
  OBVIOUS
<1>3. runner'[q][b] = runner[q][b]
  <2>1. (\E r : Become(p, a, r)) \/ UNCHANGED runner
    BY DEF Attempt, Acquire, AcquireTimeout, ThreadSteps, LateAcquire, ThreadReturns,
           WorkerReturns, Prepare, PrepareTimeout, Launched, LaunchFails, Refreshed,
           Record, RecordWedges, StopBrowser, ReleaseLease
  <2>2. QED  BY <1>2, <2>1 DEF TypeOK
<1>4. thread'[q][b] = thread[q][b]
  <2>1. (\E t : thread' = [thread EXCEPT ![p][a] = t]) \/ UNCHANGED thread
    <3>1. CASE \/ LateAcquire(p, a) \/ AcquireTimeout(p, a)
               \/ PrepareTimeout(p, a) \/ ThreadReturns(p, a)
      BY <3>1 DEF LateAcquire, AcquireTimeout, PrepareTimeout, ThreadReturns
    <3>2. QED
      BY <3>1 DEF Attempt, ThreadSteps, Acquire, Prepare, Launched, LaunchFails,
             Refreshed, Record, RecordWedges, WorkerReturns, StopBrowser, ReleaseLease
  <2>2. QED  BY <1>2, <2>1 DEF TypeOK
<1>5. lease'[b] = q <=> lease[b] = q
  <2>1. \/ UNCHANGED lease
        \/ lease[a] = "free" /\ lease' = [lease EXCEPT ![a] = p]
        \/ lease[a] = p /\ lease' = [lease EXCEPT ![a] = "free"]
    <3>1. CASE ReleaseLease(p, a)
      BY <3>1 DEF ReleaseLease, Holds, TypeOK
    <3>2. QED
      BY <3>1 DEF Attempt, ThreadSteps, Acquire, AcquireTimeout, LateAcquire,
             ThreadReturns, WorkerReturns, Prepare, PrepareTimeout, Launched,
             LaunchFails, Refreshed, Record, RecordWedges, StopBrowser
  <2>2. QED  BY <1>1, <1>2, <2>1 DEF TypeOK
<1>6. chrome'[b] = q => chrome[b] = q
  <2>1. \/ UNCHANGED chrome
        \/ \E c \in {p, "none", Stray(p)} : chrome' = [chrome EXCEPT ![a] = c]
    <3>1. CASE StopBrowser(p, a)
      BY <3>1 DEF StopBrowser, TypeOK
    <3>2. QED
      BY <3>1 DEF Attempt, ThreadSteps, Acquire, AcquireTimeout, LateAcquire,
             ThreadReturns, WorkerReturns, Prepare, PrepareTimeout, Launched,
             LaunchFails, Refreshed, Record, RecordWedges, ReleaseLease
  <2>2. QED  BY <1>1, <1>2, <2>1 DEF TypeOK
<1>7. QED  BY <1>3, <1>4, <1>5, <1>6

LEMMA AttemptRunner ==
    ASSUME TypeOK, ProfileInv, NEW p \in Procs, NEW a \in Accounts,
           Attempt(p, a) \/ ThreadSteps(p, a)
    PROVE  RunnerInv(p, a)' /\ FitInv(p, a)'
<1> USE DEF Others, To
<1>1. RunnerInv(p, a) /\ FitInv(p, a)
  BY DEF ProfileInv
<1>2. "free" \notin Procs /\ "none" \notin Procs /\ Stray(p) \notin Procs
  BY DEF Procs, Stray
<1>3. /\ runner[p][a] \in Runners
      /\ runner[p][a].target.proxy # NoBrowser
      /\ runner[p][a].target.mode \in {"warm", "persistent"}
  <2>1. runner[p][a] \in Runners
    BY DEF TypeOK
  <2>2. QED  BY <2>1, ProxiesAssumption DEF Runners, Targets, NoBrowser
<1> DEFINE r == runner[p][a]
<1>4. CASE Acquire(p, a)
  <2>1. UNCHANGED <<thread, chrome>> /\ r.phase = "acquire"
    BY <1>4 DEF Acquire, Phase
  <2>2. CASE lease[a] = "free"
    <3>1. runner'[p][a] = [r EXCEPT !.phase = "prepare"]
      BY <1>4, <2>2, BecomeAt DEF Acquire
    <3>2. lease'[a] = p
      BY <1>4, <2>2 DEF Acquire, TypeOK
    <3>3. QED
      BY <1>1, <1>2, <1>3, <2>1, <2>2, <3>1, <3>2
         DEF RunnerInv, FitInv, Holds, Browser, Phase, Runners
  <2>3. CASE lease[a] # "free"
    <3>1. runner'[p][a] = [r EXCEPT !.phase = "record"] /\ UNCHANGED lease
      BY <1>4, <2>3, BecomeAt DEF Acquire
    <3>2. QED
      BY <1>1, <1>2, <1>3, <2>1, <3>1
         DEF RunnerInv, FitInv, Holds, Browser, Phase, Runners
  <2>4. QED  BY <2>2, <2>3
<1>5. CASE AcquireTimeout(p, a)
  <2>1. runner'[p][a] = [r EXCEPT !.phase = "record"]
    BY <1>5, BecomeAt DEF AcquireTimeout
  <2>2. thread'[p][a] = "late" /\ thread[p][a] # "took"
    BY <1>5 DEF AcquireTimeout, Abandoned, TypeOK
  <2>3. UNCHANGED <<lease, chrome>> /\ r.phase = "acquire"
    BY <1>5 DEF AcquireTimeout, Phase
  <2>4. QED
    BY <1>1, <1>2, <1>3, <2>1, <2>2, <2>3
       DEF RunnerInv, FitInv, Holds, Browser, Phase, Runners
<1>6. CASE LateAcquire(p, a)
  <2>1. UNCHANGED <<runner, chrome>> /\ thread[p][a] = "late"
    BY <1>6 DEF LateAcquire
  <2>2. CASE lease[a] = "free"
    <3>1. lease'[a] = p /\ thread'[p][a] = "took"
      BY <1>6, <2>2 DEF LateAcquire, TypeOK
    <3>2. QED
      BY <1>1, <1>2, <1>3, <2>1, <2>2, <3>1
         DEF RunnerInv, FitInv, Holds, Browser, Phase, Runners
  <2>3. CASE lease[a] # "free"
    <3>1. UNCHANGED lease /\ thread'[p][a] = "none"
      BY <1>6, <2>3 DEF LateAcquire, TypeOK
    <3>2. QED
      BY <1>1, <1>2, <1>3, <2>1, <3>1
         DEF RunnerInv, FitInv, Holds, Browser, Phase, Runners
  <2>4. QED  BY <2>2, <2>3
<1>7. CASE Prepare(p, a)
  <2>1. \/ runner'[p][a] = [r EXCEPT !.phase = "launch"]
        \/ runner'[p][a] = [r EXCEPT !.phase = "record"]
    BY <1>7, BecomeAt DEF Prepare
  <2>2. UNCHANGED <<lease, thread, chrome>> /\ r.phase = "prepare"
    BY <1>7 DEF Prepare, Phase
  <2>3. QED
    BY <1>1, <1>2, <1>3, <2>1, <2>2
       DEF RunnerInv, FitInv, Holds, Browser, Phase, Runners
<1>8. CASE Launched(p, a)
  <2>1. runner'[p][a] = [r EXCEPT !.phase = "refresh", !.via = r.target.proxy]
    BY <1>8, BecomeAt DEF Launched
  <2>2. UNCHANGED <<lease, thread>> /\ r.phase = "launch"
    BY <1>8 DEF Launched, Phase
  <2>3. QED
    BY <1>1, <1>2, <1>3, <2>1, <2>2
       DEF RunnerInv, FitInv, Holds, Browser, Phase, Runners
<1>9. CASE LaunchFails(p, a)
  <2>1. runner'[p][a] = [r EXCEPT !.phase = "record"]
    BY <1>9, BecomeAt DEF LaunchFails
  <2>2. chrome'[a] \in {chrome[a], Stray(p)}
    BY <1>9 DEF LaunchFails, TypeOK
  <2>3. UNCHANGED <<lease, thread>> /\ r.phase = "launch"
    BY <1>9 DEF LaunchFails, Phase
  <2>4. QED
    BY <1>1, <1>2, <1>3, <2>1, <2>2, <2>3
       DEF RunnerInv, FitInv, Holds, Browser, Phase, Runners
<1>10. CASE Refreshed(p, a)
  <2>1. PICK restart \in BOOLEAN :
             Become(p, a, [r EXCEPT !.phase = "record", !.restart = restart])
    BY <1>10 DEF Refreshed
  <2>2. runner'[p][a] = [r EXCEPT !.phase = "record", !.restart = restart]
    BY <2>1, BecomeAt
  <2>3. UNCHANGED <<lease, thread, chrome>> /\ r.phase = "refresh"
    BY <1>10 DEF Refreshed, Phase
  <2>4. QED
    BY <1>1, <1>2, <1>3, <2>1, <2>2, <2>3
       DEF RunnerInv, FitInv, Holds, Browser, Phase, Runners
<1>11. CASE Record(p, a)
  <2>1. runner'[p][a] = [r EXCEPT !.phase = AfterAttempt(r), !.restart = FALSE]
    BY <1>11, BecomeAt DEF Record
  <2>2. UNCHANGED <<lease, thread, chrome>> /\ r.phase = "record"
    BY <1>11 DEF Record, Phase
  <2>3. AfterAttempt(r) \in {"stopping", "idle"}
        /\ (AfterAttempt(r) = "idle" => r.via # NoBrowser /\ r.target.mode # "warm")
    BY DEF AfterAttempt, Drains
  <2>4. QED
    BY <1>1, <1>2, <1>3, <2>1, <2>2, <2>3
       DEF RunnerInv, FitInv, Holds, Browser, Phase, Runners
<1>12. CASE StopBrowser(p, a)
  <2>1. runner'[p][a] = [r EXCEPT !.phase = "releasing", !.via = NoBrowser]
    BY <1>12, BecomeAt DEF StopBrowser
  <2>2. chrome'[a] # p
    BY <1>2, <1>12 DEF StopBrowser, TypeOK
  <2>3. UNCHANGED <<lease, thread>> /\ r.phase = "stopping"
    BY <1>12 DEF StopBrowser, Phase
  <2>4. QED
    BY <1>1, <1>2, <1>3, <2>1, <2>2, <2>3
       DEF RunnerInv, FitInv, Holds, Browser, Phase, Runners
<1>13. CASE ReleaseLease(p, a)
  <2>1. \/ runner'[p][a] = NoRunner
        \/ runner'[p][a] = [r EXCEPT !.phase = "idle"]
    BY <1>13, BecomeAt DEF ReleaseLease
  <2>2. lease'[a] = IF Holds(p, a) THEN "free" ELSE lease[a]
    BY <1>13 DEF ReleaseLease, TypeOK
  <2>3. UNCHANGED <<thread, chrome>> /\ r.phase = "releasing"
    BY <1>13 DEF ReleaseLease, Phase
  <2>4. NoRunner.phase = "none" /\ NoRunner.via = NoBrowser
    BY NoRunnerType
  <2>5. QED
    BY <1>1, <1>2, <1>3, <2>1, <2>2, <2>3, <2>4
       DEF RunnerInv, FitInv, Holds, Browser, Phase, Runners
<1>14. CASE RecordWedges(p, a) \/ WorkerReturns(p, a)
  <2>1. PICK phase \in {"wedged", "stuck", "record"} :
             Become(p, a, [r EXCEPT !.phase = phase])
    BY <1>14 DEF RecordWedges, WorkerReturns
  <2>2. runner'[p][a] = [r EXCEPT !.phase = phase]
    BY <2>1, BecomeAt
  <2>3. UNCHANGED <<lease, thread, chrome>> /\ r.phase \in {"record", "stuck"}
    BY <1>14 DEF RecordWedges, WorkerReturns, Phase
  <2>4. QED
    BY <1>1, <1>2, <1>3, <2>1, <2>2, <2>3
       DEF RunnerInv, FitInv, Holds, Browser, Phase, Runners
<1>15. CASE PrepareTimeout(p, a)
  <2>1. runner'[p][a] = [r EXCEPT !.phase = "record"]
    BY <1>15, BecomeAt DEF PrepareTimeout
  <2>2. thread'[p][a] = "took" <=> thread[p][a] = "took"
    BY <1>15, AbandonedType DEF PrepareTimeout, TypeOK
  <2>3. UNCHANGED <<lease, chrome>> /\ r.phase = "prepare"
    BY <1>15 DEF PrepareTimeout, Phase
  <2>4. QED
    BY <1>1, <1>2, <1>3, <2>1, <2>2, <2>3
       DEF RunnerInv, FitInv, Holds, Browser, Phase, Runners
<1>16. CASE ThreadReturns(p, a)
  <2>1. UNCHANGED <<runner, lease, chrome>> /\ thread[p][a] = "tidying"
    BY <1>16 DEF ThreadReturns
  <2>2. thread'[p][a] = "none"
    BY <1>16 DEF ThreadReturns, TypeOK
  <2>3. QED
    BY <1>1, <2>1, <2>2 DEF RunnerInv, FitInv, Holds, Browser, Phase
<1>17. QED
  BY <1>4, <1>5, <1>6, <1>7, <1>8, <1>9, <1>10, <1>11, <1>12, <1>13, <1>14, <1>15,
     <1>16 DEF Attempt, ThreadSteps

LEMMA AttemptInv ==
    ASSUME TypeOK, ProfileInv, NEW p \in Procs, NEW a \in Accounts,
           Attempt(p, a) \/ ThreadSteps(p, a)
    PROVE  ProfileInv'
<1> USE DEF Others, To, Become
<1>1. ASSUME NEW q \in Procs, NEW b \in Accounts
      PROVE  RunnerInv(q, b)' /\ FitInv(q, b)'
  <2>1. CASE q = p /\ b = a
    BY <2>1, AttemptRunner
  <2>2. CASE ~(q = p /\ b = a)
    BY <2>2, AttemptFrame, RunnerFrame DEF ProfileInv
  <2>3. QED  BY <2>1, <2>2
<1>2. daemon' = daemon /\ onboard' = onboard
  BY DEF Attempt, ThreadSteps, Acquire, AcquireTimeout, LateAcquire, ThreadReturns,
         WorkerReturns, Prepare, PrepareTimeout, Launched, LaunchFails, Refreshed,
         Record, RecordWedges, StopBrowser, ReleaseLease
<1>3. ASSUME NEW b \in Accounts
      PROVE  LoginInv(b)'
  <2>1. \/ UNCHANGED chrome
        \/ \E c \in {p, "none", Stray(p)} : chrome' = [chrome EXCEPT ![a] = c]
    <3>1. CASE StopBrowser(p, a)
      BY <3>1 DEF StopBrowser, TypeOK
    <3>2. QED
      BY <3>1 DEF Attempt, ThreadSteps, Acquire, AcquireTimeout, LateAcquire,
             ThreadReturns, WorkerReturns, Prepare, PrepareTimeout, Launched,
             LaunchFails, Refreshed, Record, RecordWedges, ReleaseLease
  <2>2. "login" \notin {p, "none", Stray(p)}
    BY DEF Procs, Stray
  <2>3. chrome'[b] = "login" => chrome[b] = "login"
    BY <2>1, <2>2 DEF TypeOK
  <2>4. QED  BY <1>2, <2>3 DEF ProfileInv, LoginInv, Relogged, OnboardAt
<1>4. ASSUME NEW b \in Accounts
      PROVE  LoopInv(b)'
  <2>1. LoopInv(b) /\ "daemon" \in Procs
    BY DEF ProfileInv, Procs
  <2>2. CASE runner'["daemon"][b] = runner["daemon"][b]
    BY <1>2, <2>1, <2>2, LoopFrame DEF Phase
  <2>3. CASE runner'["daemon"][b] # runner["daemon"][b]
    <3>1. p = "daemon" /\ a = b
      BY <2>1, <2>3, AttemptFrame
    <3>2. ~LateAcquire(p, a) /\ ~ThreadReturns(p, a)
      BY <2>3, <3>1 DEF LateAcquire, ThreadReturns
    <3>3. \/ Phase(p, a) \in Attempting
          \/ StopBrowser(p, a) \/ ReleaseLease(p, a)
      BY <3>2 DEF Attempt, ThreadSteps, Acquire, AcquireTimeout, Prepare,
             PrepareTimeout, Launched, LaunchFails, Refreshed, Record, RecordWedges,
             WorkerReturns, Attempting
    <3>4. CASE Phase(p, a) \in Attempting
      BY <1>2, <2>1, <3>1, <3>4 DEF LoopInv, At, Attempting
    <3>5. CASE StopBrowser(p, a) \/ ReleaseLease(p, a)
      <4>1. /\ Phase(p, a) \in {"stopping", "releasing"}
            /\ \/ runner'[p][a] = NoRunner
               \/ \E phase \in {"releasing", "idle"}, via \in {runner[p][a].via, NoBrowser} :
                    runner'[p][a] = [runner[p][a] EXCEPT !.phase = phase, !.via = via]
        <5>1. CASE StopBrowser(p, a)
          BY <5>1 DEF StopBrowser, TypeOK
        <5>2. CASE ReleaseLease(p, a)
          <6>1. runner[p][a] \in Runners
            BY DEF TypeOK
          <6>2. [runner[p][a] EXCEPT !.phase = "idle"] =
                  [runner[p][a] EXCEPT !.phase = "idle", !.via = runner[p][a].via]
            BY <6>1 DEF Runners
          <6>3. QED  BY <5>2, <6>2 DEF ReleaseLease, TypeOK
        <5>3. QED  BY <3>5, <5>1, <5>2
      <4>2. Phase(p, a)' \in {"none", "idle", "releasing"}
        <5>1. runner[p][a] \in Runners
          BY DEF TypeOK
        <5>2. QED  BY <4>1, <5>1, NoRunnerType DEF Phase, Runners
      <4>3. QED  BY <1>2, <2>1, <3>1, <4>1, <4>2 DEF LoopInv, At
    <3>6. QED  BY <3>3, <3>4, <3>5
  <2>4. QED  BY <2>2, <2>3
<1>5. QED  BY <1>1, <1>3, <1>4 DEF ProfileInv

\* A step that only moves the loop, and the phases it moves it to.
LEMMA GotoInv ==
    ASSUME ProfileInv, UNCHANGED <<runner, lease, thread, chrome, onboard>>,
           daemon'.pc \in {"down", "list", "stuck", "sleep"} =>
              \A a \in Accounts : Phase("daemon", a) \in {"none", "idle"},
           daemon'.pc = "reconcile" =>
              \A a \in Accounts : Phase("daemon", a) \in
                                    {"none", "idle", "stopping", "releasing"}
    PROVE  ProfileInv'
BY DEF ProfileInv, RunnerInv, FitInv, LoginInv, LoopInv, Holds, Browser, Phase,
       At, Relogged, OnboardAt

\* One runner of the daemon changes, between two attempts.
LEMMA ReconcileOne ==
    ASSUME TypeOK, ProfileInv, At("reconcile"),
           UNCHANGED <<lease, thread, chrome, onboard>>,
           \A b \in Accounts : Phase("daemon", b) \in {"none", "idle"},
           NEW a \in Accounts, NEW r \in Runners,
           Become("daemon", a, r), Handled(a), r.phase \in {"idle", "stopping"},
           RunnerInv("daemon", a)', FitInv("daemon", a)'
    PROVE  ProfileInv'
<1>1. "daemon" \in Procs
  BY DEF Procs
<1>2. ASSUME NEW q \in Procs, NEW b \in Accounts, ~(q = "daemon" /\ b = a)
      PROVE  runner'[q][b] = runner[q][b]
  BY <1>2 DEF Become, TypeOK
<1>3. ASSUME NEW q \in Procs, NEW b \in Accounts
      PROVE  RunnerInv(q, b)' /\ FitInv(q, b)'
  <2>1. CASE q = "daemon" /\ b = a
    BY <2>1
  <2>2. CASE ~(q = "daemon" /\ b = a)
    BY <1>2, <2>2, RunnerFrame DEF ProfileInv
  <2>3. QED  BY <2>1, <2>2
<1>4. ASSUME NEW b \in Accounts
      PROVE  LoopInv(b)'
  <2>1. daemon'.pc = "reconcile"
    BY DEF Handled, At, TypeOK, Loops
  <2>2. runner'["daemon"][a] = r
    BY <1>1 DEF Become, TypeOK
  <2>3. Phase("daemon", b)' \in {"none", "idle", "stopping"}
    BY <1>1, <1>2, <2>2 DEF Phase
  <2>4. QED  BY <2>1, <2>3 DEF LoopInv, At
<1>5. QED
  BY <1>3, <1>4 DEF ProfileInv, LoginInv, Relogged, OnboardAt

LEMMA ReconcileInv ==
    ASSUME TypeOK, ProfileInv, RemoveRunner \/ UpdateTarget \/ CreateRunner
    PROVE  ProfileInv'
<1>1. "daemon" \in Procs
  BY DEF Procs
<1>2. /\ daemon \in Loops
      /\ daemon.listed \in [DOMAIN daemon.listed -> Targets]
      /\ daemon.todo \subseteq Accounts
  BY DEF TypeOK, Loops
<1>3. /\ UNCHANGED <<lease, thread, chrome, onboard>> /\ At("reconcile")
      /\ \A a \in Accounts : Phase("daemon", a) \in {"none", "idle"}
  BY DEF RemoveRunner, UpdateTarget, CreateRunner, ProfileInv, LoopInv, Draining
<1>4. \A a \in Accounts : runner["daemon"][a] \in Runners
                          /\ RunnerInv("daemon", a) /\ FitInv("daemon", a)
  BY <1>1 DEF TypeOK, ProfileInv
<1>5. CASE RemoveRunner
  <2>1. First(ToRemove) \in Accounts
    BY <1>2, <1>5, FirstType DEF RemoveRunner, ToRemove
  <2>2. PICK a \in Accounts :
             /\ Become("daemon", a, [runner["daemon"][a] EXCEPT !.phase = "stopping",
                                                              !.leaving = TRUE])
             /\ Handled(a)
    BY <1>5, <2>1 DEF RemoveRunner
  <2>3. PICK r : r = [runner["daemon"][a] EXCEPT !.phase = "stopping",
                                                 !.leaving = TRUE]
    OBVIOUS
  <2>4. r \in Runners /\ r.phase = "stopping" /\ r.via = runner["daemon"][a].via
        /\ r.target = runner["daemon"][a].target
    BY <1>4, <2>3 DEF Runners, Phases
  <2>5. runner'["daemon"][a] = r
    BY <1>1, <2>2, <2>3 DEF Become, TypeOK
  <2>6. RunnerInv("daemon", a)' /\ FitInv("daemon", a)'
    BY <1>3, <1>4, <2>4, <2>5 DEF RunnerInv, FitInv, Holds, Browser, Phase
  <2>7. QED  BY <1>3, <2>2, <2>3, <2>4, <2>6, ReconcileOne
<1>6. CASE UpdateTarget
  <2>1. ToUpdate \subseteq Accounts /\ ToUpdate # {}
    BY <1>2, <1>6 DEF UpdateTarget, ToUpdate
  <2>2. First(ToUpdate) \in ToUpdate /\ daemon.listed[First(ToUpdate)] \in Targets
    <3>1. First(ToUpdate) \in ToUpdate
      BY <2>1, FirstType
    <3>2. QED  BY <1>2, <3>1 DEF ToUpdate
  <2>3. PICK a \in ToUpdate, t \in Targets :
             /\ t = daemon.listed[a]
             /\ Become("daemon", a, [runner["daemon"][a] EXCEPT !.target = t,
                   !.phase = IF Outdated(runner["daemon"][a].target, t)
                             THEN "stopping" ELSE "idle"])
             /\ Handled(a)
    BY <1>6, <2>2 DEF UpdateTarget
  <2>4. a \in Accounts /\ a \in DOMAIN daemon.listed /\ Phase("daemon", a) # "none"
    BY <2>1, <2>3 DEF ToUpdate, Running
  <2>5. PICK old : old = runner["daemon"][a]
    OBVIOUS
  <2>6. old \in Runners /\ t \in Targets /\ old.phase = "idle"
    BY <1>2, <1>3, <1>4, <2>3, <2>4, <2>5 DEF Phase
  <2>7. PICK r : r = [old EXCEPT !.target = t,
                                 !.phase = IF Outdated(old.target, t)
                                           THEN "stopping" ELSE "idle"]
    OBVIOUS
  <2>8. /\ r \in Runners /\ r.via = old.via /\ r.target = t
        /\ r.phase = IF Outdated(old.target, t) THEN "stopping" ELSE "idle"
    BY <2>6, <2>7 DEF Runners, Phases
  <2>9. Become("daemon", a, r)
    BY <2>3, <2>5, <2>7
  <2>10. runner'["daemon"][a] = r
    BY <1>1, <2>4, <2>9 DEF Become, TypeOK
  <2>11. r.phase \in {"idle", "stopping"}
    BY <2>8
  <2>12. RunnerInv("daemon", a)'
    BY <1>3, <1>4, <2>4, <2>5, <2>6, <2>8, <2>10, <2>11
       DEF RunnerInv, Holds, Browser, Phase
  <2>13. FitInv("daemon", a)'
    <3>1. CASE Outdated(old.target, t)
      BY <2>8, <2>10, <3>1 DEF FitInv, Phase
    <3>2. CASE ~Outdated(old.target, t)
      <4>1. t.mode \in {"warm", "persistent"}
        BY <2>6 DEF Targets
      <4>2. t.proxy = old.target.proxy
            /\ (old.target.mode = "persistent" => t.mode = "persistent")
        BY <3>2, <4>1 DEF Outdated
      <4>3. r.via # NoBrowser => /\ old.via = old.target.proxy
                                /\ old.target.mode = "persistent"
        BY <1>4, <2>4, <2>5, <2>6, <2>8 DEF FitInv, Browser, Phase
      <4>4. QED  BY <2>8, <2>10, <4>2, <4>3 DEF FitInv, Browser
    <3>3. QED  BY <3>1, <3>2
  <2>14. QED
    BY <1>3, <2>3, <2>4, <2>8, <2>9, <2>11, <2>12, <2>13, ReconcileOne
<1>7. CASE CreateRunner
  <2>1. ToCreate \subseteq Accounts /\ ToCreate # {}
    BY <1>2, <1>7 DEF CreateRunner, ToCreate
  <2>2. First(ToCreate) \in ToCreate
        /\ NewRunner(daemon.listed[First(ToCreate)]) \in Runners
    <3>1. First(ToCreate) \in ToCreate
      BY <2>1, FirstType
    <3>2. daemon.listed[First(ToCreate)] \in Targets
      BY <1>2, <3>1 DEF ToCreate
    <3>3. QED  BY <3>1, <3>2, NewRunnerType
  <2>3. PICK a \in ToCreate, r \in Runners :
             /\ r = NewRunner(daemon.listed[a])
             /\ Become("daemon", a, r) /\ Handled(a)
    BY <1>7, <2>2 DEF CreateRunner
  <2>4. a \in Accounts /\ a \in DOMAIN daemon.listed /\ Phase("daemon", a) = "none"
    BY <2>1, <2>3 DEF ToCreate, Running
  <2>5. r.phase = "idle" /\ r.via = NoBrowser
    BY <2>3 DEF NewRunner
  <2>6. runner'["daemon"][a] = r
    BY <1>1, <2>3, <2>4 DEF Become, TypeOK
  <2>7. RunnerInv("daemon", a)' /\ FitInv("daemon", a)'
    BY <1>3, <1>4, <2>4, <2>5, <2>6 DEF RunnerInv, FitInv, Holds, Browser, Phase
  <2>8. r.phase \in {"idle", "stopping"}
    BY <2>5
  <2>9. QED  BY <1>3, <2>3, <2>4, <2>7, <2>8, ReconcileOne
<1>8. QED  BY <1>5, <1>6, <1>7

LEMMA LoopStepInv ==
    ASSUME TypeOK, ProfileInv, DaemonLoop \/ DaemonFails \/ ListReturns
    PROVE  ProfileInv'
<1>1. "daemon" \in Procs /\ "once" \in Procs
  BY DEF Procs
<1>2. \A a \in Accounts : LoopInv(a)
  BY DEF ProfileInv
<1>3. CASE List \/ ListFails \/ ListWedges \/ ListReturns \/ Terminate
           \/ Reconciled \/ CycleEnds \/ Wake \/ Watchdog \/ Start
  <2>1. UNCHANGED <<runner, lease, thread, chrome, onboard>>
    BY <1>3 DEF List, ListFails, ListWedges, ListReturns, Terminate, Reconciled,
                CycleEnds, Wake, Watchdog, Start
  <2>2. \/ daemon'.pc = "reconcile" /\ daemon.pc = "list"
        \/ /\ daemon'.pc = "sleep"
           /\ \A a \in Accounts : Phase("daemon", a) \in {"none", "idle"}
        \/ daemon'.pc = "list" /\ daemon.pc \in {"sleep", "down", "stuck"}
        \/ daemon'.pc = "stuck" /\ daemon.pc = "list"
        \/ daemon'.pc \in {"sweep", "wedged", "stopping", "terminated"}
    BY <1>3 DEF List, ListFails, ListWedges, ListReturns, Terminate, Reconciled,
                CycleEnds, Wake, Watchdog, Start, Goto, At
  <2>3. QED  BY <1>2, <2>1, <2>2, GotoInv DEF LoopInv, At
<1>4. CASE RemoveRunner \/ UpdateTarget \/ CreateRunner
  BY <1>4, ReconcileInv
<1>5. ASSUME NEW due \in SUBSET Accounts, RunDueOnce(due)
      PROVE  ProfileInv'
  <2>1. /\ UNCHANGED <<lease, thread, chrome, onboard>> /\ daemon'.pc = "cycle"
    BY <1>5 DEF RunDueOnce, Goto
  <2>2. \A a \in Accounts : runner'["once"][a] = runner["once"][a]
    BY <1>1, <1>5 DEF RunDueOnce, TypeOK
  <2>3. ASSUME NEW a \in Accounts
        PROVE  RunnerInv("daemon", a)' /\ FitInv("daemon", a)'
    <3>1. RunnerInv("daemon", a) /\ FitInv("daemon", a)
          /\ runner["daemon"][a] \in Runners
      BY <1>1 DEF ProfileInv, TypeOK
    <3>2. CASE a \in due
      <4>1. /\ Phase("daemon", a) = "idle"
            /\ runner'["daemon"][a] = [runner["daemon"][a] EXCEPT
                  !.phase = IF runner["daemon"][a].via = NoBrowser
                            THEN "acquire" ELSE "refresh"]
        BY <1>1, <1>5, <3>2 DEF RunDueOnce, InPhase, TypeOK
      <4>2. CASE Browser("daemon", a)
        <5>1. runner'["daemon"][a] = [runner["daemon"][a] EXCEPT !.phase = "refresh"]
          BY <4>1, <4>2 DEF Browser
        <5>2. QED
          BY <2>1, <3>1, <4>1, <4>2, <5>1
             DEF RunnerInv, FitInv, Holds, Browser, Phase, Runners
      <4>3. CASE ~Browser("daemon", a)
        <5>1. runner'["daemon"][a] = [runner["daemon"][a] EXCEPT !.phase = "acquire"]
          BY <4>1, <4>3 DEF Browser
        <5>2. QED
          BY <2>1, <3>1, <4>1, <4>3, <5>1
             DEF RunnerInv, FitInv, Holds, Browser, Phase, Runners
      <4>4. QED  BY <4>2, <4>3
    <3>3. CASE a \notin due
      <4>1. runner'["daemon"][a] = runner["daemon"][a]
        BY <1>1, <1>5, <3>3 DEF RunDueOnce, TypeOK
      <4>2. QED  BY <1>1, <2>1, <3>1, <4>1, RunnerFrame
    <3>4. QED  BY <3>2, <3>3
  <2>4. ASSUME NEW a \in Accounts
        PROVE  RunnerInv("once", a)' /\ FitInv("once", a)'
    BY <1>1, <2>1, <2>2, RunnerFrame DEF ProfileInv
  <2>5. QED
    BY <2>1, <2>3, <2>4
       DEF ProfileInv, LoginInv, LoopInv, At, Relogged, OnboardAt, Procs
<1>6. ASSUME NEW a \in Accounts, StopRunner(a)
      PROVE  ProfileInv'
  <2>1. /\ UNCHANGED <<lease, daemon, onboard>> /\ daemon.pc \in {"stopping", "terminated"}
        /\ Phase("daemon", a) \in Attempting \cup {"idle"}
    BY <1>6 DEF StopRunner, Others, At
  <2>2. \/ UNCHANGED chrome
        \/ chrome[a] = "none" /\ chrome' = [chrome EXCEPT ![a] = "strayDaemon"]
    BY <1>6 DEF StopRunner, Stray
  <2>3. ASSUME NEW q \in Procs, NEW b \in Accounts, ~(q = "daemon" /\ b = a)
        PROVE  RunnerInv(q, b)' /\ FitInv(q, b)'
    <3>1. runner'[q][b] = runner[q][b] /\ thread'[q][b] = thread[q][b]
      BY <1>6, <2>3 DEF StopRunner, Become, TypeOK
    <3>2. chrome'[b] = q => chrome[b] = q
      BY <2>2 DEF TypeOK, Procs
    <3>3. QED  BY <2>1, <3>1, <3>2, RunnerFrame DEF ProfileInv
  <2>4. RunnerInv("daemon", a)' /\ FitInv("daemon", a)'
    <3>1. RunnerInv("daemon", a) /\ runner["daemon"][a] \in Runners
      BY <1>1 DEF ProfileInv, TypeOK
    <3>2. runner'["daemon"][a] = [runner["daemon"][a] EXCEPT !.phase = "stopping",
                                                             !.leaving = TRUE]
      BY <1>1, <1>6 DEF StopRunner, Become, TypeOK
    <3>3. thread'["daemon"][a] = "took" <=> thread["daemon"][a] = "took"
      BY <1>1, <1>6, AbandonedType DEF StopRunner, TypeOK
    <3>4. chrome'[a] = "daemon" => chrome[a] = "daemon"
      BY <2>2 DEF TypeOK
    <3>5. QED
      BY <2>1, <3>1, <3>2, <3>3, <3>4
         DEF RunnerInv, FitInv, Holds, Browser, Phase, Runners
  <2>5. \A b \in Accounts : chrome'[b] = "login" => chrome[b] = "login"
    BY <2>2 DEF TypeOK
  <2>6. QED
    BY <2>1, <2>3, <2>4, <2>5
       DEF ProfileInv, LoginInv, LoopInv, At, Relogged, OnboardAt
<1>7. CASE Exit \/ DaemonKilled
  <2>1. DaemonGone
    BY <1>7 DEF Exit, DaemonKilled
  <2>2. ASSUME NEW a \in Accounts
        PROVE  RunnerInv("daemon", a)' /\ FitInv("daemon", a)'
    <3>1. /\ runner'["daemon"][a] = NoRunner /\ thread'["daemon"][a] = "none"
          /\ lease'[a] # "daemon" /\ chrome'[a] # "daemon"
      BY <1>1, <2>1 DEF DaemonGone, TypeOK
    <3>2. QED
      BY <3>1, NoRunnerType DEF RunnerInv, FitInv, Holds, Browser, Phase
  <2>3. ASSUME NEW a \in Accounts
        PROVE  RunnerInv("once", a)' /\ FitInv("once", a)'
    <3>1. /\ runner'["once"][a] = runner["once"][a]
          /\ thread'["once"][a] = thread["once"][a]
          /\ lease'[a] = "once" <=> lease[a] = "once"
          /\ chrome'[a] = "once" => chrome[a] = "once"
      BY <1>1, <2>1 DEF DaemonGone, TypeOK
    <3>2. QED  BY <1>1, <3>1, RunnerFrame DEF ProfileInv
  <2>4. ASSUME NEW a \in Accounts
        PROVE  LoginInv(a)' /\ LoopInv(a)'
    <3>1. chrome'[a] = "login" => chrome[a] = "login"
      BY <2>1 DEF DaemonGone
    <3>2. runner'["daemon"][a] = NoRunner
      BY <1>1, <2>1 DEF DaemonGone, TypeOK
    <3>3. daemon'.pc = "down" /\ onboard' = onboard
      BY <2>1 DEF DaemonGone, Goto
    <3>4. QED
      BY <3>1, <3>2, <3>3, NoRunnerType
         DEF ProfileInv, LoginInv, LoopInv, Phase, At, Relogged, OnboardAt
  <2>5. QED  BY <2>2, <2>3, <2>4 DEF ProfileInv, Procs
<1>8. QED
  BY <1>3, <1>4, <1>5, <1>6, <1>7 DEF DaemonLoop, DaemonFails

LEMMA GateInv ==
    ASSUME TypeOK, ProfileInv, OnceExits \/ OnceKilled \/ \E a \in Accounts : OnceStart(a)
    PROVE  ProfileInv'
<1>1. "daemon" \in Procs /\ "once" \in Procs
  BY DEF Procs
<1>2. ASSUME NEW a \in Accounts, OnceStart(a)
      PROVE  ProfileInv'
  <2>1. UNCHANGED <<lease, thread, chrome, daemon, onboard>>
    BY <1>2 DEF OnceStart, Others
  <2>2. PICK r : Become("once", a, r) /\ r.phase = "acquire" /\ r.via = NoBrowser
    <3>1. PICK n : n = NewRunner(row[a].target)
      OBVIOUS
    <3>2. n = [phase |-> "idle", via |-> NoBrowser, restart |-> FALSE,
               leaving |-> FALSE, target |-> row[a].target]
      BY <3>1 DEF NewRunner
    <3>3. Become("once", a, [n EXCEPT !.phase = "acquire", !.leaving = TRUE])
      BY <1>2, <3>1 DEF OnceStart
    <3>4. [n EXCEPT !.phase = "acquire", !.leaving = TRUE].phase = "acquire"
          /\ [n EXCEPT !.phase = "acquire", !.leaving = TRUE].via = NoBrowser
      BY <3>2
    <3>5. QED  BY <3>3, <3>4
  <2>3. ASSUME NEW q \in Procs, NEW b \in Accounts
        PROVE  runner'[q][b] = IF q = "once" /\ b = a THEN r ELSE runner[q][b]
    BY <2>2 DEF Become, TypeOK
  <2>4. RunnerInv("once", a)' /\ FitInv("once", a)'
    <3>1. RunnerInv("once", a) /\ Phase("once", a) = "none"
      BY <1>1, <1>2 DEF ProfileInv, OnceStart
    <3>2. runner'["once"][a] = r
      BY <1>1, <2>3
    <3>3. QED
      BY <2>1, <2>2, <3>1, <3>2 DEF RunnerInv, FitInv, Holds, Browser, Phase
  <2>5. ASSUME NEW q \in Procs, NEW b \in Accounts
        PROVE  RunnerInv(q, b)' /\ FitInv(q, b)'
    <3>1. CASE q = "once" /\ b = a
      BY <2>4, <3>1
    <3>2. CASE ~(q = "once" /\ b = a)
      BY <2>1, <2>3, <3>2, RunnerFrame DEF ProfileInv
    <3>3. QED  BY <3>1, <3>2
  <2>6. QED
    BY <1>1, <2>1, <2>3, <2>5
       DEF ProfileInv, LoginInv, LoopInv, Phase, At, Relogged, OnboardAt
<1>3. CASE OnceKilled
  <2>1. UNCHANGED <<daemon, onboard>>
    BY <1>3 DEF OnceKilled, Others
  <2>2. ASSUME NEW a \in Accounts
        PROVE  RunnerInv("once", a)' /\ FitInv("once", a)'
    <3>1. /\ runner'["once"][a] = NoRunner /\ thread'["once"][a] = "none"
          /\ lease'[a] # "once" /\ chrome'[a] # "once"
      BY <1>1, <1>3 DEF OnceKilled, TypeOK, Stray
    <3>2. QED
      BY <3>1, NoRunnerType DEF RunnerInv, FitInv, Holds, Browser, Phase
  <2>3. ASSUME NEW a \in Accounts
        PROVE  /\ runner'["daemon"][a] = runner["daemon"][a]
               /\ RunnerInv("daemon", a)' /\ FitInv("daemon", a)'
    <3>1. /\ runner'["daemon"][a] = runner["daemon"][a]
          /\ thread'["daemon"][a] = thread["daemon"][a]
          /\ lease'[a] = "daemon" <=> lease[a] = "daemon"
          /\ chrome'[a] = "daemon" => chrome[a] = "daemon"
      BY <1>1, <1>3 DEF OnceKilled, TypeOK, Stray
    <3>2. QED  BY <1>1, <3>1, RunnerFrame DEF ProfileInv
  <2>4. \A a \in Accounts : chrome'[a] = "login" => chrome[a] = "login"
    BY <1>3 DEF OnceKilled, Stray
  <2>5. QED
    BY <2>1, <2>2, <2>3, <2>4
       DEF ProfileInv, LoginInv, LoopInv, Phase, At, Relogged, OnboardAt, Procs
<1>4. CASE OnceExits
  <2>1. UNCHANGED <<runner, chrome, daemon, onboard>>
    BY <1>4 DEF OnceExits, Others
  <2>2. ASSUME NEW a \in Accounts
        PROVE  RunnerInv("once", a)' /\ FitInv("once", a)'
    <3>1. RunnerInv("once", a) /\ Phase("once", a) = "none"
      BY <1>1, <1>4 DEF ProfileInv, OnceExits
    <3>2. thread'["once"][a] = "none" /\ lease'[a] # "once"
      BY <1>1, <1>4 DEF OnceExits, TypeOK
    <3>3. QED
      BY <2>1, <3>1, <3>2 DEF RunnerInv, FitInv, Holds, Browser, Phase
  <2>3. ASSUME NEW a \in Accounts
        PROVE  RunnerInv("daemon", a)' /\ FitInv("daemon", a)'
    <3>1. /\ thread'["daemon"][a] = thread["daemon"][a]
          /\ lease'[a] = "daemon" <=> lease[a] = "daemon"
      BY <1>1, <1>4 DEF OnceExits, TypeOK
    <3>2. QED  BY <1>1, <2>1, <3>1, RunnerFrame DEF ProfileInv
  <2>4. QED
    BY <2>1, <2>2, <2>3
       DEF ProfileInv, LoginInv, LoopInv, Phase, At, Relogged, OnboardAt, Procs
<1>5. QED  BY <1>2, <1>3, <1>4

LEMMA OnboardInv ==
    ASSUME TypeOK, ProfileInv,
           OnboardSteps \/ OnboardKilled \/ \E a \in Accounts : OnboardStart(a)
    PROVE  ProfileInv'
<1>1. /\ UNCHANGED <<runner, thread, daemon>>
      /\ "free" \notin Procs /\ "onboard" \notin Procs /\ "none" \notin Procs
      /\ "login" \notin Procs /\ "stray" \notin Procs
  BY DEF OnboardSteps, OnboardKilled, OnboardStart, Pause, PollLease, PollTimeout,
         Revalidate, LoginEnds, Verify, Publish, Unlock, Restore, Procs
<1>2. \/ UNCHANGED lease
      \/ lease[Relogged] = "free" /\ lease' = [lease EXCEPT ![Relogged] = "onboard"]
      \/ lease[Relogged] = "onboard" /\ lease' = [lease EXCEPT ![Relogged] = "free"]
  <2>1. CASE Unlock
    <3>1. onboard \in Relogins /\ onboard.pc \in {"unlock", "published"}
      BY <2>1 DEF Unlock, OnboardAt, TypeOK
    <3>2. lease[Relogged] = "onboard"
      BY <3>1 DEF Relogins, NoOnboard, Relogged, TypeOK
    <3>3. QED  BY <2>1, <3>2 DEF Unlock
  <2>2. CASE OnboardKilled
    <3>1. lease' = lease \/ lease[Relogged] = "onboard"
      BY <2>2 DEF OnboardKilled, TypeOK
    <3>2. QED  BY <2>2, <3>1 DEF OnboardKilled
  <2>3. QED
    BY <2>1, <2>2 DEF OnboardSteps, OnboardStart, Pause, PollLease, PollTimeout,
       Revalidate, LoginEnds, Verify, Publish, Restore
<1>3. \/ UNCHANGED chrome
      \/ /\ OnboardAt("validate") /\ OnboardTo("login")
         /\ chrome' = [chrome EXCEPT ![Relogged] = "login"]
         /\ chrome[Relogged] = "none"
      \/ /\ OnboardAt("login")
         /\ chrome' = [chrome EXCEPT ![Relogged] = IF @ = "login" THEN "none" ELSE @]
      \/ chrome' = [chrome EXCEPT ![Relogged] = IF @ = "login" THEN "stray" ELSE @]
  BY DEF OnboardSteps, OnboardKilled, OnboardStart, Pause, PollLease, PollTimeout,
         Revalidate, LoginEnds, Verify, Publish, Unlock, Restore
<1>4. ASSUME NEW p \in Procs, NEW a \in Accounts
      PROVE  RunnerInv(p, a)' /\ FitInv(p, a)'
  <2>1. lease'[a] = p <=> lease[a] = p
    BY <1>1, <1>2 DEF TypeOK
  <2>2. chrome'[a] = p => chrome[a] = p
    BY <1>1, <1>3 DEF TypeOK
  <2>3. QED  BY <1>1, <2>1, <2>2, RunnerFrame DEF ProfileInv
<1>5. ASSUME NEW a \in Accounts
      PROVE  LoginInv(a)' /\ LoopInv(a)'
  <2>1. LoginInv(a) /\ LoopInv(a)
    BY DEF ProfileInv
  <2>2. LoopInv(a)'
    BY <1>1, <2>1, LoopFrame DEF Phase
  <2>3. CASE OnboardAt("login")
    <3>1. LoginEnds \/ OnboardKilled
      BY <2>3 DEF OnboardSteps, OnboardStart, Pause, PollLease, PollTimeout,
         Revalidate, Verify, Publish, Unlock, Restore, OnboardAt
    <3>2. chrome'[a] # "login"
      BY <2>1, <3>1 DEF LoginEnds, OnboardKilled, LoginInv, TypeOK
    <3>3. QED  BY <2>2, <3>2 DEF LoginInv
  <2>4. CASE ~OnboardAt("login")
    <3>1. chrome[a] # "login"
      BY <2>1, <2>4 DEF LoginInv
    <3>2. CASE OnboardTo("login") /\ chrome' = [chrome EXCEPT ![Relogged] = "login"]
      <4>1. chrome'[a] = "login" => a = Relogged
        BY <3>1, <3>2 DEF TypeOK
      <4>2. onboard' = [onboard EXCEPT !.pc = "login"] /\ onboard \in Relogins
        BY <3>2 DEF OnboardTo, TypeOK
      <4>3. onboard'.pc = "login" /\ onboard'.account = onboard.account
        BY <4>2 DEF Relogins, NoOnboard
      <4>4. QED  BY <2>2, <4>1, <4>3 DEF LoginInv, Relogged, OnboardAt
    <3>3. CASE ~(OnboardTo("login") /\ chrome' = [chrome EXCEPT ![Relogged] = "login"])
      <4>1. chrome'[a] # "login"
        BY <1>3, <2>4, <3>1, <3>3 DEF TypeOK
      <4>2. QED  BY <2>2, <4>1 DEF LoginInv
    <3>4. QED  BY <3>2, <3>3
  <2>5. QED  BY <2>3, <2>4
<1>6. QED  BY <1>4, <1>5 DEF ProfileInv

LEMMA OperatorInv ==
    ASSUME TypeOK, ProfileInv, NEW a \in Accounts,
           \/ \E on \in BOOLEAN : SetKeepalive(a, on)
           \/ \E proxy \in Proxies : ChangeProxy(a, proxy)
           \/ ChromeDies(a) \/ StrayClosed(a)
    PROVE  ProfileInv'
<1>1. UNCHANGED <<runner, lease, thread, daemon, onboard>>
  BY DEF SetKeepalive, ChangeProxy, ChromeDies, StrayClosed, Others
<1>2. chrome' = chrome \/ chrome' = [chrome EXCEPT ![a] = "none"]
  BY DEF SetKeepalive, ChangeProxy, ChromeDies, StrayClosed
<1>3. \A b \in Accounts : chrome'[b] \in {chrome[b], "none"}
  BY <1>2 DEF TypeOK
<1>4. ASSUME NEW p \in Procs, NEW b \in Accounts
      PROVE  RunnerInv(p, b)' /\ FitInv(p, b)'
  <2>1. chrome'[b] = p => chrome[b] = p
    BY <1>3 DEF Procs
  <2>2. QED  BY <1>1, <2>1, RunnerFrame DEF ProfileInv
<1>5. QED
  BY <1>1, <1>3, <1>4
     DEF ProfileInv, LoginInv, LoopInv, Phase, At, Relogged, OnboardAt

LEMMA ProfileInvInit == Init => ProfileInv
<1> SUFFICES ASSUME Init, NEW a \in Accounts
             PROVE  /\ LoginInv(a) /\ LoopInv(a)
                    /\ \A p \in Procs : RunnerInv(p, a) /\ FitInv(p, a)
  BY DEF ProfileInv
<1>1. /\ daemon.pc = "down" /\ chrome[a] = "none" /\ lease[a] = "free"
      /\ \A p \in Procs : runner[p][a] = NoRunner /\ thread[p][a] = "none"
  BY DEF Init
<1>2. QED
  BY <1>1, NoRunnerType
     DEF LoginInv, LoopInv, RunnerInv, FitInv, Holds, Browser, Phase, At, Procs

LEMMA ProfileInvStep == TypeOK /\ ProfileInv /\ [Next]_vars => ProfileInv'
<1> SUFFICES ASSUME TypeOK, ProfileInv, [Next]_vars PROVE ProfileInv'
  OBVIOUS
<1>1. CASE UNCHANGED vars
  BY <1>1 DEF vars, ProfileInv, LoginInv, LoopInv, RunnerInv, FitInv, Holds,
             Browser, Phase, At, Relogged, OnboardAt
<1>2. CASE Next
  BY <1>2, AttemptInv, LoopStepInv, GateInv, OnboardInv, OperatorInv DEF Next
<1>3. QED  BY <1>1, <1>2

THEOREM ProfileInvariant == Spec => []ProfileInv
<1>1. Spec => []TypeOK
  BY TypeCorrect
<1>2. Init => ProfileInv
  BY ProfileInvInit
<1>3. TypeOK /\ ProfileInv /\ [Next]_vars => ProfileInv'
  BY ProfileInvStep
<1>4. QED  BY <1>1, <1>2, <1>3, PTL DEF Spec

\* No two of the daemon, the gate and the re-login drive one profile: a Chrome
\* of one's own on a profile means the profile's lease.
THEOREM Exclusive == Spec => []ProfileExclusive
<1>1. TypeOK /\ ProfileInv => ProfileExclusive
  <2> SUFFICES ASSUME TypeOK, ProfileInv, NEW a \in Accounts
               PROVE  /\ \A p \in Procs : chrome[a] = p => Holds(p, a)
                      /\ chrome[a] = "login" => lease[a] = "onboard"
    BY DEF ProfileExclusive
  <2>1. \A p \in Procs : chrome[a] = p => Holds(p, a)
    BY DEF ProfileInv, RunnerInv
  <2>2. chrome[a] = "login" => lease[a] = "onboard"
    BY DEF ProfileInv, LoginInv, OnboardAt, TypeOK
  <2>3. QED  BY <2>1, <2>2
<1>2. QED  BY <1>1, TypeCorrect, ProfileInvariant, PTL

\* A runner at rest holds the lease exactly while it keeps a browser, and that
\* browser is the one its row asks for.
THEOREM IdleFits == Spec => []IdleRunnersFit
<1>1. ProfileInv => IdleRunnersFit
  BY DEF ProfileInv, RunnerInv, FitInv, IdleRunnersFit
<1>2. QED  BY <1>1, ProfileInvariant, PTL

-----------------------------------------------------------------------------
(* The flag that a re-login clears.                                        *)

LEMMA PauseFrame ==
    ASSUME NEW a \in Accounts, PauseInv(a),
           UNCHANGED <<row, onboard, intent, excused>>
    PROVE  PauseInv(a)'
BY DEF PauseInv, Relogged

LEMMA PausesInvInit == Init => PausesInv
BY DEF Init, PausesInv, PauseInv

LEMMA PausesInvStep == TypeOK /\ PausesInv /\ [Next]_vars => PausesInv'
<1> SUFFICES ASSUME TypeOK, PausesInv, [Next]_vars, NEW a \in Accounts
             PROVE  PauseInv(a)'
  BY DEF PausesInv
<1>1. PauseInv(a) /\ row \in [Accounts -> Rows] /\ onboard \in Relogins
      /\ intent \in [Accounts -> BOOLEAN]
  BY DEF PausesInv, TypeOK
<1>2. row[a] \in [enabled : BOOLEAN, target : Targets]
  BY <1>1 DEF Rows
<1>3. CASE UNCHANGED <<row, onboard, intent, excused>>
  BY <1>1, <1>3, PauseFrame
<1>4. CASE \E b \in Accounts : OnboardStart(b)
  <2>1. onboard.pc = "idle" /\ UNCHANGED <<row, intent, excused>>
    BY <1>4 DEF OnboardStart, OnboardAt
  <2>2. QED  BY <1>1, <2>1 DEF PauseInv
<1>5. CASE Pause
  <2>1. /\ onboard.pc = "pause" /\ onboard' = [onboard EXCEPT !.pc = "poll"]
        /\ UNCHANGED <<intent, excused>>
    BY <1>5 DEF Pause, OnboardAt, OnboardTo
  <2>2. onboard'.account = onboard.account /\ onboard'.prev = onboard.prev
        /\ onboard'.pc = "poll"
    BY <1>1, <2>1 DEF Relogins, NoOnboard
  <2>3. CASE Relogged = a /\ onboard.prev
    BY <2>2, <2>3 DEF PauseInv, Relogged
  <2>4. CASE ~(Relogged = a /\ onboard.prev)
    <3>1. row'[a].enabled = row[a].enabled
      BY <1>1, <1>2, <1>5, <2>4 DEF Pause
    <3>2. QED  BY <1>1, <2>1, <2>4, <3>1 DEF PauseInv
  <2>5. QED  BY <2>3, <2>4
<1>6. CASE PollLease \/ PollTimeout \/ Revalidate \/ LoginEnds \/ Verify
  <2>1. /\ UNCHANGED <<row, intent, excused>> /\ onboard.pc \notin {"idle", "published"}
        /\ \E pc \in {"validate", "restore", "publish", "login", "verify", "unlock"} :
             onboard' = [onboard EXCEPT !.pc = pc]
    BY <1>6 DEF PollLease, PollTimeout, Revalidate, LoginEnds, Verify, OnboardAt,
                OnboardTo
  <2>2. /\ onboard'.account = onboard.account /\ onboard'.prev = onboard.prev
        /\ onboard'.pc \notin {"idle", "published"}
    BY <1>1, <2>1 DEF Relogins, NoOnboard
  <2>3. QED  BY <1>1, <2>1, <2>2 DEF PauseInv, Relogged
<1>7. CASE Publish
  <2>1. onboard.pc = "publish" /\ onboard.account \in Accounts
    BY <1>1, <1>7 DEF Publish, OnboardAt, Relogins, NoOnboard
  <2>2. CASE onboard' = [onboard EXCEPT !.pc = "unlock"] /\ UNCHANGED <<row, intent, excused>>
    <3>1. /\ onboard'.account = onboard.account /\ onboard'.prev = onboard.prev
          /\ onboard'.pc = "unlock"
      BY <1>1, <2>2 DEF Relogins, NoOnboard
    <3>2. QED  BY <1>1, <2>1, <2>2, <3>1 DEF PauseInv, Relogged
  <2>3. CASE /\ row' = [row EXCEPT ![Relogged].enabled = TRUE,
                                   ![Relogged].target =
                                      [@ EXCEPT !.mode = "persistent",
                                                !.ready = TRUE]]
             /\ intent' = [intent EXCEPT ![Relogged] = TRUE]
             /\ excused' = excused \ {Relogged}
    <3>1. CASE a = Relogged
      <4>1. row'[a].enabled
        BY <1>1, <1>2, <2>3, <3>1
      <4>2. QED  BY <4>1 DEF PauseInv
    <3>2. CASE a # Relogged
      <4>1. /\ row'[a] = row[a] /\ intent'[a] = intent[a]
            /\ a \in excused => a \in excused'
        BY <1>1, <2>1, <2>3, <3>2 DEF Relogged
      <4>2. QED  BY <1>1, <3>2, <4>1 DEF PauseInv
    <3>3. QED  BY <3>1, <3>2
  <2>4. QED  BY <1>7, <2>2, <2>3 DEF Publish, OnboardTo
<1>8. CASE Unlock
  <2>1. UNCHANGED <<row, intent, excused>>
    BY <1>8 DEF Unlock
  <2>2. CASE onboard.pc = "published"
    BY <1>1, <2>1, <2>2 DEF PauseInv
  <2>3. CASE onboard.pc = "unlock"
    <3>1. onboard' = [onboard EXCEPT !.pc = "restore"]
      BY <1>8, <2>3 DEF Unlock, OnboardAt, OnboardTo
    <3>2. /\ onboard'.account = onboard.account /\ onboard'.prev = onboard.prev
          /\ onboard'.pc = "restore"
      BY <1>1, <3>1 DEF Relogins, NoOnboard
    <3>3. QED  BY <1>1, <2>1, <2>3, <3>2 DEF PauseInv, Relogged
  <2>4. QED  BY <1>8, <2>2, <2>3 DEF Unlock, OnboardAt
<1>9. CASE Restore
  <2>1. /\ UNCHANGED intent /\ excused \subseteq excused'
        /\ onboard.pc = "restore" /\ onboard.account \in Accounts
    BY <1>1, <1>9 DEF Restore, OnboardAt, Relogins, NoOnboard
  <2>2. row[a].enabled => row'[a].enabled
    BY <1>1, <1>2, <1>9 DEF Restore
  <2>3. CASE Relogged = a /\ onboard.prev
    <3>1. CASE row' = [row EXCEPT ![Relogged].enabled = @ \/ onboard.prev]
      <4>1. row'[a] = [row[a] EXCEPT !.enabled = @ \/ onboard.prev]
        BY <1>1, <2>3, <3>1
      <4>2. (row[a].enabled \/ onboard.prev) = TRUE
        BY <2>3
      <4>3. row'[a].enabled = TRUE
        BY <1>2, <4>1, <4>2
      <4>4. QED  BY <4>3 DEF PauseInv
    <3>2. CASE excused' = excused \cup {Relogged}
      BY <2>3, <3>2 DEF PauseInv
    <3>3. QED  BY <1>9, <3>1, <3>2 DEF Restore
  <2>4. CASE ~(Relogged = a /\ onboard.prev)
    BY <1>1, <2>1, <2>2, <2>4 DEF PauseInv
  <2>5. QED  BY <2>3, <2>4
<1>10. CASE OnboardKilled
  <2>1. /\ UNCHANGED <<row, intent>> /\ excused' = excused \cup {Relogged}
    BY <1>10 DEF OnboardKilled
  <2>2. QED  BY <1>1, <2>1 DEF PauseInv
<1>11. ASSUME NEW b \in Accounts, NEW on \in BOOLEAN, SetKeepalive(b, on)
       PROVE  PauseInv(a)'
  <2>1. CASE a = b
    <3>1. row' = [row EXCEPT ![a].enabled = on, ![a].target.mode = "persistent"]
          /\ intent' = [intent EXCEPT ![a] = on]
      BY <1>11, <2>1 DEF SetKeepalive
    <3>2. row'[a].enabled = on
      <4>1. row'[a] = [row[a] EXCEPT !.enabled = on,
                                    !.target = [@ EXCEPT !.mode = "persistent"]]
        BY <1>1, <3>1
      <4>2. QED  BY <1>2, <4>1
    <3>3. intent'[a] = on
      BY <1>1, <3>1
    <3>4. QED  BY <3>2, <3>3 DEF PauseInv
  <2>2. CASE a # b
    <3>1. /\ row'[a] = row[a] /\ intent'[a] = intent[a] /\ UNCHANGED onboard
          /\ a \in excused => a \in excused'
      BY <1>1, <1>11, <2>2 DEF SetKeepalive
    <3>2. QED  BY <1>1, <3>1 DEF PauseInv, Relogged
  <2>3. QED  BY <2>1, <2>2
<1>12. ASSUME NEW b \in Accounts, NEW proxy \in Proxies, ChangeProxy(b, proxy)
       PROVE  PauseInv(a)'
  <2>1. row'[a].enabled = row[a].enabled /\ UNCHANGED <<onboard, intent, excused>>
    BY <1>1, <1>2, <1>12 DEF ChangeProxy, Others
  <2>2. QED  BY <1>1, <2>1 DEF PauseInv, Relogged
<1>13. CASE DaemonLoop \/ DaemonFails \/ ListReturns
  <2>1. ASSUME \/ RemoveRunner \/ UpdateTarget \/ CreateRunner
               \/ (\E due \in SUBSET Accounts : RunDueOnce(due))
               \/ (\E b \in Accounts : StopRunner(b))
        PROVE  UNCHANGED <<row, onboard, intent, excused>>
    BY <2>1 DEF RemoveRunner, UpdateTarget, CreateRunner, RunDueOnce, StopRunner,
                Others
  <2>2. ASSUME \/ List \/ ListFails \/ ListWedges \/ Reconciled \/ CycleEnds
               \/ Wake \/ Watchdog \/ Start \/ Terminate \/ ListReturns
        PROVE  UNCHANGED <<row, onboard, intent, excused>>
    BY <2>2 DEF List, ListFails, ListWedges, Reconciled, CycleEnds, Wake, Watchdog,
                Start, Terminate, ListReturns
  <2>3. ASSUME Exit \/ DaemonKilled
        PROVE  UNCHANGED <<row, onboard, intent, excused>>
    BY <2>3 DEF Exit, DaemonKilled, DaemonGone
  <2>4. QED
    BY <1>3, <1>13, <2>1, <2>2, <2>3 DEF DaemonLoop, DaemonFails
<1>14. ASSUME NEW p \in Procs, NEW b \in Accounts, Attempt(p, b) \/ ThreadSteps(p, b)
       PROVE  PauseInv(a)'
  <2>1. UNCHANGED row /\ Others
    BY <1>14 DEF Attempt, ThreadSteps, Acquire, AcquireTimeout, LateAcquire,
         ThreadReturns, WorkerReturns, Prepare, PrepareTimeout, Launched, LaunchFails,
         Refreshed, Record, RecordWedges, StopBrowser, ReleaseLease
  <2>2. QED  BY <1>3, <2>1 DEF Others
<1>15. CASE OnceExits \/ OnceKilled \/ \E b \in Accounts : OnceStart(b) \/ ChromeDies(b)
                                           \/ StrayClosed(b)
  BY <1>3, <1>15 DEF OnceExits, OnceKilled, OnceStart, ChromeDies, StrayClosed, Others
<1>16. CASE UNCHANGED vars
  BY <1>3, <1>16 DEF vars
<1>17. QED
  BY <1>4, <1>5, <1>6, <1>7, <1>8, <1>9, <1>10, <1>11, <1>12, <1>13, <1>14, <1>15,
     <1>16 DEF Next, OnboardSteps

\* A re-login that has ended leaves keepalive on for the accounts whose operators
\* want it on.
THEOREM PausesAlwaysEnd == Spec => []PausesEnd
<1>1. PausesInv => PausesEnd
  BY DEF PausesInv, PauseInv, PausesEnd, OnboardAt
<1>2. Init => PausesInv
  BY PausesInvInit
<1>3. TypeOK /\ PausesInv /\ [Next]_vars => PausesInv'
  BY PausesInvStep
<1>4. QED  BY <1>1, <1>2, <1>3, TypeCorrect, PTL DEF Spec
=============================================================================
