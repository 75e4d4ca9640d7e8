------------------------------- MODULE Sidecar -------------------------------
(***************************************************************************)
(* The keepalive sidecar and everyone who touches an account's browser     *)
(* profile:                                                                *)
(*   - the daemon (keepalive/supervisor.py): one loop that lists the       *)
(*     enabled rows, reconciles its runners with them, starts an attempt   *)
(*     of every due runner and sleeps; a watchdog ends it when a pass      *)
(*     outlasts its budget, systemd starts it again;                       *)
(*   - the one-shot gate (scripts/keepalive_browser.py --once), the same   *)
(*     runner code in a process of its own;                                *)
(*   - the re-login of an account (services/tokens/onboard.py), which      *)
(*     pauses keepalive, waits for the profile lease, opens a Chrome for   *)
(*     a human and publishes or restores;                                  *)
(*   - operators, who switch keepalive on and off and change proxies.      *)
(* The profile lease is a flock that dies with its process.  A Chrome that *)
(* nobody controls any more is a stray: those the daemon left die with its *)
(* control group, the others only when a human closes them.  Faults are    *)
(* bounded by the scene.  When an account is due is left open, and so are  *)
(* the launch and refresh semaphores, which only queue attempts.           *)
(***************************************************************************)
EXTENDS Naturals, FiniteSets

CONSTANTS
    Accounts,       \* token ids, natural numbers: reconcile goes by id
    Proxies,        \* proxies a browser can be launched with
    Scenes          \* bound: who takes part, and how many faults may happen

ASSUME AccountsAssumption == Accounts \subseteq Nat
ASSUME ProxiesAssumption == Proxies # {} /\ "-" \notin Proxies

(* What a row says of its browser: runtime_mode, profile_state = ready, the
   effective proxy. *)
Targets == [mode : {"warm", "persistent"}, ready : BOOLEAN, proxy : Proxies]

SceneTypes ==
    [targets : [Accounts -> SUBSET Targets],  \* what the rows may say
     kept : SUBSET Accounts,        \* operators switch their keepalive
     gated : SUBSET Accounts,       \* the gate may be run for them
     relogged : SUBSET Accounts,    \* they may be logged in again
     faults : Nat]                  \* how many faults may happen

ASSUME ScenesAssumption == Scenes \subseteq SceneTypes

Procs == {"daemon", "once"}
NoBrowser == "-"

(* A Chrome that process p started and lost: systemd kills what the daemon
   leaves, with its control group. *)
Stray(p) == IF p = "daemon" THEN "strayDaemon" ELSE "stray"

VARIABLES
    row,        \* row[a]: token_lifecycle of a: enabled, target
    runner,     \* runner[p][a]: the ManagedAccountRunner of a in process p
    lease,      \* lease[a]: the process that holds the flock of a's profile
    thread,     \* thread[p][a]: a profile thread that outlived its attempt
    chrome,     \* chrome[a]: whose Chrome has a's profile open
    daemon,     \* the loop of the daemon: pc, listed, todo
    onboard,    \* the re-login: pc, account, prev
    intent,     \* ghost: what the operators last asked of keepalive for a
    excused,    \* ghost: accounts whose re-login was killed or could not write
    scene       \* bound: the scene of this behaviour, with the faults left

vars == <<row, runner, lease, thread, chrome, daemon, onboard, intent, excused,
          scene>>

-----------------------------------------------------------------------------
(* Runners *)

Phases == {"none", "idle", "acquire", "prepare", "launch", "refresh",
           "record", "wedged", "stuck", "stopping", "releasing"}
Attempting == {"acquire", "prepare", "launch", "refresh",
               "record", "wedged", "stuck"}

(* What is left of a thread its attempt has given up on: it still acquires the
   lease, it has taken it, or it still tidies the profile.  Of two threads of
   one account the younger is followed. *)
Threads == {"none", "late", "took", "tidying"}
Unreturned == {"late", "tidying"}

Rows == [enabled : BOOLEAN, target : Targets]
Runners == [phase : Phases, via : Proxies \cup {NoBrowser}, restart : BOOLEAN,
            leaving : BOOLEAN, target : Targets]

NewRunner(t) ==
    [phase |-> "idle", via |-> NoBrowser, restart |-> FALSE, leaving |-> FALSE,
     target |-> t]

NoRunner == [NewRunner(CHOOSE t \in Targets : TRUE) EXCEPT !.phase = "none"]

Phase(p, a) == runner[p][a].phase
Browser(p, a) == runner[p][a].via # NoBrowser

(* self._profile_lease: the lease is this process's, and not one that a
   thread took after its attempt had given up on it. *)
Holds(p, a) == lease[a] = p /\ thread[p][a] # "took"

(* A step of runner (p, a) that sets fields of it. *)
Become(p, a, r) == runner' = [runner EXCEPT ![p][a] = r]
To(p, a, phase) == Become(p, a, [runner[p][a] EXCEPT !.phase = phase])

Fault == scene.faults > 0 /\ scene' = [scene EXCEPT !.faults = @ - 1]

Others == UNCHANGED <<daemon, onboard, intent, excused>>

-----------------------------------------------------------------------------
(* One attempt (_run_attempt), by either process *)

(* _launch_browser: the flock is taken without waiting. *)
Acquire(p, a) ==
    /\ Phase(p, a) = "acquire"
    /\ IF lease[a] = "free"
       THEN lease' = [lease EXCEPT ![a] = p] /\ To(p, a, "prepare")
       ELSE To(p, a, "record") /\ UNCHANGED lease
    /\ UNCHANGED <<row, thread, chrome, scene>> /\ Others

(* The thread of an attempt that ends during the phase goes on without it. *)
Abandoned(old, phase) ==
    CASE phase = "acquire" /\ old \in {"none", "tidying"} -> "late"
      [] phase = "prepare" /\ old = "none" -> "tidying"
      [] OTHER -> old

(* The thread that acquires the lease outlasts the budget of the attempt:
   the attempt reports PROFILE_BUSY, the thread goes on. *)
AcquireTimeout(p, a) ==
    /\ Phase(p, a) = "acquire" /\ thread[p][a] \in {"none", "tidying"}
    /\ Fault
    /\ To(p, a, "record")
    /\ thread' = [thread EXCEPT ![p][a] = Abandoned(@, "acquire")]
    /\ UNCHANGED <<row, lease, chrome>> /\ Others

LateAcquire(p, a) ==
    /\ thread[p][a] = "late"
    /\ IF lease[a] = "free"
       THEN /\ lease' = [lease EXCEPT ![a] = p]
            /\ thread' = [thread EXCEPT ![p][a] = "took"]
       ELSE /\ thread' = [thread EXCEPT ![p][a] = "none"]
            /\ UNCHANGED lease
    /\ UNCHANGED <<row, runner, chrome, scene>> /\ Others

(* A profile that is not provisioned or that a live Chrome owns ends the
   attempt (PROFILE_MISSING, PROFILE_BUSY); stale locks are removed. *)
Prepare(p, a) ==
    /\ Phase(p, a) = "prepare"
    /\ IF runner[p][a].target.ready /\ chrome[a] = "none"
       THEN To(p, a, "launch")
       ELSE To(p, a, "record")
    /\ UNCHANGED <<row, lease, thread, chrome, scene>> /\ Others

(* The thread that prepares the profile outlasts the budget: the attempt ends
   with PROFILE_BUSY and gives the lease back, the thread goes on. *)
PrepareTimeout(p, a) ==
    /\ Phase(p, a) = "prepare"
    /\ Fault
    /\ To(p, a, "record")
    /\ thread' = [thread EXCEPT ![p][a] = Abandoned(@, "prepare")]
    /\ UNCHANGED <<row, lease, chrome>> /\ Others

ThreadReturns(p, a) ==
    /\ thread[p][a] = "tidying"
    /\ thread' = [thread EXCEPT ![p][a] = "none"]
    /\ UNCHANGED <<row, runner, lease, chrome, scene>> /\ Others

InPhase(p, phase) == {a \in Accounts : Phase(p, a) = phase}

Launched(p, a) ==
    /\ Phase(p, a) = "launch" /\ chrome[a] = "none"
    /\ chrome' = [chrome EXCEPT ![a] = p]
    /\ Become(p, a, [runner[p][a] EXCEPT !.phase = "refresh",
                                         !.via = runner[p][a].target.proxy])
    /\ UNCHANGED <<row, lease, thread, scene>> /\ Others

(* The launcher raises or times out; a Chrome it had already started stays. *)
LaunchFails(p, a) ==
    /\ Phase(p, a) = "launch"
    /\ To(p, a, "record")
    /\ \/ UNCHANGED <<chrome, scene>>
       \/ /\ chrome[a] = "none" /\ Fault
          /\ chrome' = [chrome EXCEPT ![a] = Stray(p)]
    /\ UNCHANGED <<row, lease, thread>> /\ Others

(* The refresh answers or times out; some outcomes ask for a new browser. *)
Refreshed(p, a) ==
    /\ Phase(p, a) = "refresh"
    /\ \E restart \in BOOLEAN :
           Become(p, a, [runner[p][a] EXCEPT !.phase = "record",
                                             !.restart = restart])
    /\ UNCHANGED <<row, lease, thread, chrome, scene>> /\ Others

(* The finally clause: what the attempt keeps for the next one. *)
Drains(r) == r.target.mode = "warm" \/ r.restart \/ r.via = NoBrowser

(* mutant: the lease is released first *)
AfterAttemptReleases(r) == IF Drains(r) \/ r.leaving THEN "releasing" ELSE "idle"

AfterAttempt(r) == IF Drains(r) \/ r.leaving THEN "stopping" ELSE "idle"

(* The telemetry and the alert state are written, or the write raises; a process
   has one writer at a time, and a stuck one keeps the lock. *)
Record(p, a) ==
    /\ Phase(p, a) = "record" /\ InPhase(p, "stuck") = {}
    /\ Become(p, a, [runner[p][a] EXCEPT !.phase = AfterAttempt(runner[p][a]),
                                         !.restart = FALSE])
    /\ UNCHANGED <<row, lease, thread, chrome, scene>> /\ Others

(* ... or it does not come back, the one await of an attempt without a budget:
   either cancelling it ends it ("wedged"), or the worker thread of its
   connection is blocked and cancelling it waits for that thread, too, to roll
   back and close ("stuck"). *)
RecordWedges(p, a) ==
    /\ Phase(p, a) = "record"
    /\ Fault
    /\ \E phase \in {"wedged", "stuck"} : To(p, a, phase)
    /\ UNCHANGED <<row, lease, thread, chrome>> /\ Others

(* The blocked thread comes back, before the attempt is cancelled or after. *)
WorkerReturns(p, a) ==
    /\ Phase(p, a) = "stuck"
    /\ \E phase \in {"record", "wedged"} : To(p, a, phase)
    /\ UNCHANGED <<row, lease, thread, chrome, scene>> /\ Others

(* _drain_resources: first the browser, whatever its stop answers ... *)
StopBrowser(p, a) ==
    /\ Phase(p, a) = "stopping"
    /\ Become(p, a, [runner[p][a] EXCEPT !.phase = "releasing",
                                         !.via = NoBrowser])
    /\ \/ /\ chrome' = [chrome EXCEPT ![a] = IF @ = p THEN "none" ELSE @]
          /\ UNCHANGED scene
       \/ /\ chrome[a] = p /\ Fault
          /\ chrome' = [chrome EXCEPT ![a] = Stray(p)]
    /\ UNCHANGED <<row, lease, thread>> /\ Others

(* mutant: a stop that was cut short forgets the lease *)
ReleaseUnlessLeaving(p, a) ==
    /\ Phase(p, a) = "releasing"
    /\ lease' = [lease EXCEPT ![a] = IF Holds(p, a) /\ ~runner[p][a].leaving
                                     THEN "free" ELSE @]
    /\ IF runner[p][a].leaving THEN Become(p, a, NoRunner) ELSE To(p, a, "idle")
    /\ UNCHANGED <<row, thread, chrome, scene>> /\ Others

(* ... then the lease. *)
ReleaseLease(p, a) ==
    /\ Phase(p, a) = "releasing"
    /\ lease' = [lease EXCEPT ![a] = IF Holds(p, a) THEN "free" ELSE @]
    /\ IF runner[p][a].leaving THEN Become(p, a, NoRunner) ELSE To(p, a, "idle")
    /\ UNCHANGED <<row, thread, chrome, scene>> /\ Others

Attempt(p, a) ==
    \/ Acquire(p, a) \/ AcquireTimeout(p, a)
    \/ Prepare(p, a) \/ PrepareTimeout(p, a)
    \/ Launched(p, a) \/ LaunchFails(p, a) \/ Refreshed(p, a)
    \/ Record(p, a) \/ RecordWedges(p, a)
    \/ StopBrowser(p, a) \/ ReleaseLease(p, a)

ThreadSteps(p, a) == LateAcquire(p, a) \/ ThreadReturns(p, a) \/ WorkerReturns(p, a)

-----------------------------------------------------------------------------
(* The daemon's loop (run_forever) *)

Loops ==
    [pc : {"down", "list", "reconcile", "sweep", "cycle", "sleep", "wedged",
           "stuck", "stopping", "terminated"},
     todo : SUBSET Accounts,                             \* still to reconcile
     listed : UNION {[S -> Targets] : S \in SUBSET Accounts}]  \* by the query

NoRows == [a \in {} |-> CHOOSE t \in Targets : TRUE]

At(pc) == daemon.pc = pc
Goto(pc) == daemon' = [pc |-> pc, listed |-> NoRows, todo |-> {}]

Enabled == {a \in Accounts : row[a].enabled}

List ==
    /\ At("list")
    /\ daemon' = [pc |-> "reconcile", todo |-> Accounts,
                  listed |-> [a \in Enabled |-> row[a].target]]
    /\ UNCHANGED <<row, runner, lease, thread, chrome, onboard, intent, excused,
                   scene>>

(* A database error keeps the runners as they are; the pass goes on. *)
ListFails ==
    /\ At("list") /\ Fault
    /\ Goto("sweep")
    /\ UNCHANGED <<row, runner, lease, thread, chrome, onboard, intent, excused>>

(* The query does not come back, in either of the two ways. *)
ListWedges ==
    /\ At("list") /\ Fault
    /\ Goto("wedged") \/ Goto("stuck")
    /\ UNCHANGED <<row, runner, lease, thread, chrome, onboard, intent, excused>>

ListReturns ==
    /\ At("stuck")
    /\ Goto("list") \/ Goto("wedged")
    /\ UNCHANGED <<row, runner, lease, thread, chrome, onboard, intent, excused,
                   scene>>

First(S) == CHOOSE a \in S : \A b \in S : a <= b

Running == {a \in Accounts : Phase("daemon", a) # "none"}
Draining == \E a \in Accounts : Phase("daemon", a) \in {"stopping", "releasing"}

ToRemove == (daemon.todo \cap Running) \ DOMAIN daemon.listed
ToUpdate == daemon.todo \cap Running \cap DOMAIN daemon.listed
ToCreate == (daemon.todo \cap DOMAIN daemon.listed) \ Running

Handled(a) == daemon' = [daemon EXCEPT !.todo = @ \ {a}]

(* reconcile awaits each drain before it goes on: first the runners whose
   rows are no longer enabled, ... *)
RemoveRunner ==
    /\ At("reconcile") /\ ~Draining /\ ToRemove # {}
    /\ LET a == First(ToRemove) IN
          /\ Become("daemon", a, [runner["daemon"][a] EXCEPT
                                     !.phase = "stopping", !.leaving = TRUE])
          /\ Handled(a)
    /\ UNCHANGED <<row, lease, thread, chrome, onboard, intent, excused, scene>>

(* mutant: the proxy is not compared *)
OutdatedButProxy(old, new) ==
    \/ old.mode = "persistent" /\ new.mode = "warm"
    \/ ~new.ready

(* update_target drains when a resident browser no longer fits the row. *)
Outdated(old, new) ==
    \/ old.mode = "persistent" /\ new.mode = "warm"
    \/ ~new.ready
    \/ old.proxy # new.proxy

(* ... then the runners that stay, ... *)
UpdateTarget ==
    /\ At("reconcile") /\ ~Draining /\ ToRemove = {} /\ ToUpdate # {}
    /\ LET a == First(ToUpdate)
           r == runner["daemon"][a]
           t == daemon.listed[a]
       IN  /\ Become("daemon", a,
                  [r EXCEPT !.target = t,
                            !.phase = IF Outdated(r.target, t)
                                      THEN "stopping" ELSE "idle"])
           /\ Handled(a)
    /\ UNCHANGED <<row, lease, thread, chrome, onboard, intent, excused, scene>>

(* ... then the new ones. *)
CreateRunner ==
    /\ At("reconcile") /\ ~Draining /\ ToRemove = {} /\ ToUpdate = {}
    /\ ToCreate # {}
    /\ LET a == First(ToCreate) IN
          /\ Become("daemon", a, NewRunner(daemon.listed[a]))
          /\ Handled(a)
    /\ UNCHANGED <<row, lease, thread, chrome, onboard, intent, excused, scene>>

Reconciled ==
    /\ At("reconcile") /\ ~Draining
    /\ ToRemove = {} /\ ToUpdate = {} /\ ToCreate = {}
    /\ Goto("sweep")
    /\ UNCHANGED <<row, runner, lease, thread, chrome, onboard, intent, excused,
                   scene>>

(* run_due_once: every due runner starts, with the browser it kept. *)
RunDueOnce(due) ==
    /\ At("sweep") /\ due \subseteq InPhase("daemon", "idle")
    /\ runner' = [runner EXCEPT !["daemon"] =
           [a \in Accounts |->
              LET r == runner["daemon"][a] IN
              IF a \in due
              THEN [r EXCEPT !.phase = IF r.via = NoBrowser
                                       THEN "acquire" ELSE "refresh"]
              ELSE r]]
    /\ Goto("cycle")
    /\ UNCHANGED <<row, lease, thread, chrome, onboard, intent, excused, scene>>

CycleEnds ==
    /\ At("cycle") /\ \A a \in Accounts : Phase("daemon", a) \in {"none", "idle"}
    /\ Goto("sleep")
    /\ UNCHANGED <<row, runner, lease, thread, chrome, onboard, intent, excused,
                   scene>>

Wake ==
    /\ At("sleep")
    /\ Goto("list")
    /\ UNCHANGED <<row, runner, lease, thread, chrome, onboard, intent, excused,
                   scene>>

(* mutant: only reconcile has a budget *)
OverrunOfList == At("wedged")

StuckRunners == InPhase("daemon", "stuck")

(* The budgets of list and cycle: only an await that does not come back
   outlasts them. *)
Overrun ==
    \/ At("wedged")
    \/ At("cycle") /\ InPhase("daemon", "wedged") \cup StuckRunners # {}

(* asyncio.wait_for cancels the pass and waits until it has ended. *)
Watchdog ==
    /\ Overrun
    /\ Goto("stopping")
    /\ UNCHANGED <<row, runner, lease, thread, chrome, onboard, intent, excused,
                   scene>>

(* SIGTERM: supervisor.stop(), and SIGKILL after TimeoutStopSec. *)
Terminate ==
    /\ ~At("down") /\ ~At("terminated") /\ Fault
    /\ Goto("terminated")
    /\ UNCHANGED <<row, runner, lease, thread, chrome, onboard, intent, excused>>

(* The attempts are cancelled wherever they are, then all runners stopped; what
   a thread or a launcher had begun goes on without them.  After the watchdog,
   the runners at rest wait for the attempts to end; ManagedAccountRunner.stop
   only waits for a while. *)
StopRunner(a) ==
    /\ At("stopping") \/ At("terminated")
    /\ Phase("daemon", a) \in Attempting \cup {"idle"}
    /\ Phase("daemon", a) \in {"idle", "stuck"} =>
          At("terminated") \/ StuckRunners = {}
    /\ Become("daemon", a, [runner["daemon"][a] EXCEPT
                               !.phase = "stopping", !.leaving = TRUE])
    /\ thread' = [thread EXCEPT !["daemon"][a] = Abandoned(@, Phase("daemon", a))]
    /\ \/ UNCHANGED chrome
       \/ /\ Phase("daemon", a) = "launch" /\ chrome[a] = "none"
          /\ chrome' = [chrome EXCEPT ![a] = Stray("daemon")]
    /\ UNCHANGED <<row, lease, scene>> /\ Others

(* The daemon's process is gone, and its control group with it. *)
DaemonGone ==
    /\ runner' = [runner EXCEPT !["daemon"] = [a \in Accounts |-> NoRunner]]
    /\ thread' = [thread EXCEPT !["daemon"] = [a \in Accounts |-> "none"]]
    /\ lease' = [a \in Accounts |->
                    IF lease[a] = "daemon" THEN "free" ELSE lease[a]]
    /\ chrome' = [a \in Accounts |->
                     IF chrome[a] \in {"daemon", "strayDaemon"}
                     THEN "none" ELSE chrome[a]]
    /\ Goto("down")
    /\ UNCHANGED <<row, onboard, intent, excused>>

(* A process that ends by itself has told every runner to stop, for which it
   has waited for a while, and then waits for its threads, however long they
   take; one that systemd stops is killed in the end. *)
Exit ==
    /\ \/ At("terminated")
       \/ /\ At("stopping")
          /\ \A a \in Accounts :
                /\ Phase("daemon", a) \notin Attempting \cup {"idle"}
                /\ thread["daemon"][a] \notin Unreturned
    /\ DaemonGone /\ UNCHANGED scene

DaemonKilled == ~At("down") /\ DaemonGone /\ Fault

(* systemd: Restart=always *)
Start ==
    /\ At("down")
    /\ Goto("list")
    /\ UNCHANGED <<row, runner, lease, thread, chrome, onboard, intent, excused,
                   scene>>

DaemonLoop ==
    \/ List \/ RemoveRunner \/ UpdateTarget \/ CreateRunner \/ Reconciled
    \/ (\E due \in SUBSET Accounts : RunDueOnce(due)) \/ CycleEnds \/ Wake
    \/ Watchdog \/ (\E a \in Accounts : StopRunner(a)) \/ Exit \/ Start

DaemonFails == ListFails \/ ListWedges \/ Terminate \/ DaemonKilled

-----------------------------------------------------------------------------
(* The one-shot gate (run_once): one account after the other, whatever its
   row says; the runner is stopped after its attempt. *)

OnceStart(a) ==
    /\ a \in scene.gated
    /\ \A b \in Accounts : Phase("once", b) = "none"
    /\ Become("once", a,
           [NewRunner(row[a].target) EXCEPT !.phase = "acquire", !.leaving = TRUE])
    /\ UNCHANGED <<row, lease, thread, chrome, scene>> /\ Others

(* The process ends when its threads have: a lease one of them took late goes
   with it. *)
OnceExits ==
    /\ \A a \in Accounts : /\ Phase("once", a) = "none"
                           /\ thread["once"][a] \notin Unreturned
    /\ \E a \in Accounts : thread["once"][a] = "took"
    /\ thread' = [thread EXCEPT !["once"] = [a \in Accounts |-> "none"]]
    /\ lease' = [a \in Accounts |->
                    IF lease[a] = "once" THEN "free" ELSE lease[a]]
    /\ UNCHANGED <<row, runner, chrome, scene>> /\ Others

(* Ctrl-C at the wrong moment, or kill: its Chrome survives. *)
OnceKilled ==
    /\ \E a \in Accounts : Phase("once", a) # "none"
    /\ Fault
    /\ runner' = [runner EXCEPT !["once"] = [a \in Accounts |-> NoRunner]]
    /\ thread' = [thread EXCEPT !["once"] = [a \in Accounts |-> "none"]]
    /\ lease' = [a \in Accounts |->
                    IF lease[a] = "once" THEN "free" ELSE lease[a]]
    /\ chrome' = [a \in Accounts |->
                     IF chrome[a] = "once" THEN Stray("once") ELSE chrome[a]]
    /\ UNCHANGED row /\ Others

-----------------------------------------------------------------------------
(* The re-login of an account (onboard_existing) *)

NoOnboard == [pc |-> "idle", account |-> 0, prev |-> FALSE]

Relogins == {NoOnboard} \cup
    [pc : {"pause", "poll", "validate", "login", "verify", "publish",
           "published", "unlock", "restore"},
     account : Accounts, prev : BOOLEAN]

OnboardAt(pc) == onboard.pc = pc
OnboardTo(pc) == onboard' = [onboard EXCEPT !.pc = pc]
Relogged == onboard.account

(* Under the global lease, the flag of the account is read ... *)
OnboardStart(a) ==
    /\ a \in scene.relogged
    /\ OnboardAt("idle")
    /\ onboard' = [pc |-> "pause", account |-> a, prev |-> row[a].enabled]
    /\ UNCHANGED <<row, runner, lease, thread, chrome, daemon, intent, excused,
                   scene>>

(* ... and cleared, if it was set. *)
Pause ==
    /\ OnboardAt("pause")
    /\ row' = [row EXCEPT ![Relogged].enabled = IF onboard.prev THEN FALSE ELSE @]
    /\ OnboardTo("poll")
    /\ UNCHANGED <<runner, lease, thread, chrome, daemon, intent, excused, scene>>

PollLease ==
    /\ OnboardAt("poll") /\ lease[Relogged] = "free"
    /\ lease' = [lease EXCEPT ![Relogged] = "onboard"]
    /\ OnboardTo("validate")
    /\ UNCHANGED <<row, runner, thread, chrome, daemon, intent, excused, scene>>

(* mutant: a busy profile ends the re-login before the clause that restores *)
PollTimeoutEscapes ==
    /\ OnboardAt("poll") /\ lease[Relogged] # "free"
    /\ onboard' = NoOnboard
    /\ UNCHANGED <<row, runner, lease, thread, chrome, daemon, intent, excused,
                   scene>>

PollTimeout ==
    /\ OnboardAt("poll") /\ lease[Relogged] # "free"
    /\ OnboardTo("restore")
    /\ UNCHANGED <<row, runner, lease, thread, chrome, daemon, intent, excused,
                   scene>>

(* The profile's session may still be valid; otherwise a Chrome is opened for
   a human.  On a profile that another Chrome has open it only hands over to
   that one and exits. *)
Revalidate ==
    /\ OnboardAt("validate")
    /\ \/ OnboardTo("publish") /\ UNCHANGED chrome
       \/ /\ chrome[Relogged] = "none"
          /\ chrome' = [chrome EXCEPT ![Relogged] = "login"]
          /\ OnboardTo("login")
       \/ chrome[Relogged] # "none" /\ OnboardTo("verify") /\ UNCHANGED chrome
    /\ UNCHANGED <<row, runner, lease, thread, daemon, intent, excused, scene>>

(* The human closes Chrome, or its process group is killed after the timeout. *)
LoginEnds ==
    /\ OnboardAt("login")
    /\ chrome' = [chrome EXCEPT ![Relogged] = IF @ = "login" THEN "none" ELSE @]
    /\ OnboardTo("verify") \/ OnboardTo("unlock")
    /\ UNCHANGED <<row, runner, lease, thread, daemon, intent, excused, scene>>

(* Cookie, identity, e-mail, project pool: any of them may refuse. *)
Verify ==
    /\ OnboardAt("verify")
    /\ OnboardTo("publish") \/ OnboardTo("unlock")
    /\ UNCHANGED <<row, runner, lease, thread, chrome, daemon, intent, excused,
                   scene>>

Publish ==
    /\ OnboardAt("publish")
    /\ \/ /\ row' = [row EXCEPT ![Relogged].enabled = TRUE,
                                 ![Relogged].target =
                                    [@ EXCEPT !.mode = "persistent",
                                              !.ready = TRUE]]
          /\ intent' = [intent EXCEPT ![Relogged] = TRUE]
          /\ excused' = excused \ {Relogged}
          /\ OnboardTo("published")
       \/ OnboardTo("unlock") /\ UNCHANGED <<row, intent, excused>>
    /\ UNCHANGED <<runner, lease, thread, chrome, daemon, scene>>

(* mutant: only a failure releases the lease *)
UnlockOnFailure ==
    /\ OnboardAt("unlock") \/ OnboardAt("published")
    /\ lease' = [lease EXCEPT ![Relogged] =
                    IF OnboardAt("unlock") THEN "free" ELSE @]
    /\ IF OnboardAt("published") THEN onboard' = NoOnboard ELSE OnboardTo("restore")
    /\ UNCHANGED <<row, runner, thread, chrome, daemon, intent, excused, scene>>

(* The finally clause: the lease first, then the flag. *)
Unlock ==
    /\ OnboardAt("unlock") \/ OnboardAt("published")
    /\ lease' = [lease EXCEPT ![Relogged] = "free"]
    /\ IF OnboardAt("published") THEN onboard' = NoOnboard ELSE OnboardTo("restore")
    /\ UNCHANGED <<row, runner, thread, chrome, daemon, intent, excused, scene>>

(* A database error is swallowed. *)
Restore ==
    /\ OnboardAt("restore")
    /\ \/ /\ row' = [row EXCEPT ![Relogged].enabled = @ \/ onboard.prev]
          /\ UNCHANGED <<excused, scene>>
       \/ /\ onboard.prev /\ Fault
          /\ excused' = excused \cup {Relogged}
          /\ UNCHANGED row
    /\ onboard' = NoOnboard
    /\ UNCHANGED <<runner, lease, thread, chrome, daemon, intent>>

(* kill: the lease goes with the process, the login's Chrome has a session of
   its own and stays. *)
OnboardKilled ==
    /\ ~OnboardAt("idle") /\ Fault
    /\ lease' = [lease EXCEPT ![Relogged] = IF @ = "onboard" THEN "free" ELSE @]
    /\ chrome' = [chrome EXCEPT ![Relogged] = IF @ = "login" THEN "stray" ELSE @]
    /\ excused' = excused \cup {Relogged}
    /\ onboard' = NoOnboard
    /\ UNCHANGED <<row, runner, thread, daemon, intent>>

OnboardSteps ==
    \/ Pause \/ PollLease \/ PollTimeout \/ Revalidate \/ LoginEnds \/ Verify
    \/ Publish \/ Unlock \/ Restore

-----------------------------------------------------------------------------
(* Operators and humans *)

(* keepalive on|off: always with runtime_mode = persistent. *)
SetKeepalive(a, on) ==
    /\ a \in scene.kept
    /\ row' = [row EXCEPT ![a].enabled = on, ![a].target.mode = "persistent"]
    /\ intent' = [intent EXCEPT ![a] = on]
    /\ excused' = excused \ {a}
    /\ UNCHANGED <<runner, lease, thread, chrome, daemon, onboard, scene>>

ChangeProxy(a, proxy) ==
    /\ [row[a].target EXCEPT !.proxy = proxy] \in scene.targets[a]
    /\ row' = [row EXCEPT ![a].target.proxy = proxy]
    /\ UNCHANGED <<runner, lease, thread, chrome, scene>> /\ Others

ChromeDies(a) ==
    /\ chrome[a] \in Procs /\ Fault
    /\ chrome' = [chrome EXCEPT ![a] = "none"]
    /\ UNCHANGED <<row, runner, lease, thread>> /\ Others

StrayClosed(a) ==
    /\ chrome[a] \in {"stray", "strayDaemon"}
    /\ chrome' = [chrome EXCEPT ![a] = "none"]
    /\ UNCHANGED <<row, runner, lease, thread, scene>> /\ Others

-----------------------------------------------------------------------------
Init ==
    /\ scene \in Scenes
    /\ row \in [Accounts -> [enabled : BOOLEAN, target : Targets]]
    /\ \A a \in Accounts : row[a].target \in scene.targets[a]
    /\ \A a \in Accounts \ scene.kept : ~row[a].enabled
    /\ runner = [p \in Procs |-> [a \in Accounts |-> NoRunner]]
    /\ lease = [a \in Accounts |-> "free"]
    /\ thread = [p \in Procs |-> [a \in Accounts |-> "none"]]
    /\ chrome = [a \in Accounts |-> "none"]
    /\ daemon = [pc |-> "down", listed |-> NoRows, todo |-> {}]
    /\ onboard = NoOnboard
    /\ intent = [a \in Accounts |-> row[a].enabled]
    /\ excused = {}

Next ==
    \/ DaemonLoop \/ DaemonFails \/ ListReturns
    \/ \E p \in Procs, a \in Accounts : Attempt(p, a) \/ ThreadSteps(p, a)
    \/ (\E a \in Accounts : OnceStart(a)) \/ OnceExits \/ OnceKilled
    \/ (\E a \in Accounts : OnboardStart(a)) \/ OnboardSteps \/ OnboardKilled
    \/ \E a \in Accounts :
          \/ \E on \in BOOLEAN : SetKeepalive(a, on)
          \/ \E proxy \in Proxies : ChangeProxy(a, proxy)
          \/ ChromeDies(a) \/ StrayClosed(a)

(* Timers fire, attempts have budgets, systemd restarts the daemon, and an
   account that is found waiting again and again is due some time: next_due_at
   lies at most twelve hours ahead.  Nothing is assumed of operators, of humans,
   of blocked database workers, or of threads past their budget. *)
Fairness ==
    /\ WF_vars(DaemonLoop)
    /\ \A a \in Accounts :
          /\ WF_vars(Attempt("daemon", a))
          /\ SF_vars(\E due \in SUBSET Accounts : a \in due /\ RunDueOnce(due))

Spec == Init /\ [][Next]_vars
FairSpec == Spec /\ Fairness

-----------------------------------------------------------------------------
(* Every variable keeps its type; the re-login holds the lease of the account
   it is busy with, from the poll that got it to the unlock. *)
TypeOK ==
    /\ row \in [Accounts -> Rows]
    /\ runner \in [Procs -> [Accounts -> Runners]]
    /\ lease \in [Accounts -> Procs \cup {"free", "onboard"}]
    /\ thread \in [Procs -> [Accounts -> Threads]]
    /\ chrome \in [Accounts -> Procs \cup {"none", "login", "stray", "strayDaemon"}]
    /\ daemon \in Loops
    /\ onboard \in Relogins
    /\ \A a \in Accounts : lease[a] = "onboard" <=>
          /\ Relogged = a
          /\ onboard.pc \in {"validate", "login", "verify", "publish",
                             "published", "unlock"}
    /\ intent \in [Accounts -> BOOLEAN]
    /\ excused \subseteq Accounts
    /\ scene \in SceneTypes

(* Whoever has a Chrome of its own on a profile holds the profile's lease: the
   daemon, the gate and a re-login never drive the same profile at a time,
   whatever times out, is cancelled or killed. *)
ProfileExclusive ==
    \A a \in Accounts :
        /\ \A p \in Procs : chrome[a] = p => Holds(p, a)
        /\ chrome[a] = "login" => lease[a] = "onboard"

(* A runner at rest holds the lease exactly while it keeps a browser, and the
   browser it keeps fits its target: an account that only waits for its next
   attempt does not lock the re-login out for nothing. *)
IdleRunnersFit ==
    \A p \in Procs, a \in Accounts : Phase(p, a) = "idle" =>
        /\ Holds(p, a) <=> Browser(p, a)
        /\ Browser(p, a) =>
              /\ runner[p][a].target.mode = "persistent"
              /\ runner[p][a].via = runner[p][a].target.proxy

(* A re-login that has ended, however it ended, leaves keepalive on for the
   accounts whose operators want it, unless it was killed or the database
   refused the write. *)
PausesEnd ==
    \A a \in Accounts :
        \/ row[a].enabled
        \/ ~intent[a]
        \/ a \in excused
        \/ Relogged = a /\ ~OnboardAt("idle")

(* The claim of the operations guide: an acquisition that outlives its budget
   costs a thread, and nothing else. *)
OnlyTheThreadLeaks ==
    \A p \in Procs, a \in Accounts : thread[p][a] # "took"

(* What the daemon waits for without a budget: a worker thread of the database
   that does not come back keeps the cancelled pass from ending, a profile thread
   keeps the process from ending; systemd limits only the stops it asks for. *)
Held ==
    \/ At("stuck") \/ StuckRunners # {}
    \/ At("stopping") /\ \E a \in Accounts : thread["daemon"][a] \in Unreturned

(* An account whose keepalive stays on is attempted again and again, whatever
   times out, wedges, fails or is killed on the way, unless a thread that never
   returns holds the daemon for good. *)
KeptAlive ==
    \A a \in Accounts :
        <>[](row[a].enabled) =>
            \/ []<>(Phase("daemon", a) \in {"acquire", "refresh"})
            \/ <>[]Held

(* An account whose keepalive stays off loses its runner, the runner's Chrome and
   its lease, unless such a thread holds the daemon.  What may remain is a Chrome
   whose stop failed, without the lease, and a lease that a thread took late. *)
LetGo ==
    \A a \in Accounts :
        <>[](~row[a].enabled) =>
            \/ <>[](/\ Phase("daemon", a) = "none" /\ chrome[a] # "daemon"
                    /\ lease[a] = "daemon" => thread["daemon"][a] = "took")
            \/ <>[]Held

=============================================================================
