----------------------------- MODULE Onboarding -----------------------------
(***************************************************************************)
(* How an account and its projects come to be, and how requests use them.  *)
(* `tokens onboard' (services/tokens/onboard.py), one process at a time by *)
(* the global lease, brings a new account in or extends the pool of one    *)
(* that logs in again (its profile lease and keepalive flag are Sidecar's).*)
(* In the service every request provisions the pool of its account too     *)
(* (services/tokens/project_pool.py, under a lock the other process does   *)
(* not know) and takes the next project.  Any step may fail, and the       *)
(* onboarding may be killed between two.                                   *)
(***************************************************************************)
EXTENDS Naturals, FiniteSets, Sequences, SequencesExt

CONSTANTS Accounts,       \* row ids, the ones not given out yet included
          Existing,       \* those with a row at the start
          Cli,            \* the process that onboards
          Clients,        \* requests of the service
          PoolSize,       \* projects an account is provisioned with
          MaxProjects,    \* bound: projects of an account
          MaxRuns,        \* bound: onboardings started
          MaxUpsets,      \* bound: kills and failures of the cleaning up
          None            \* no account, no holder

ASSUME OnboardingAssumption ==
  /\ Existing \subseteq Accounts /\ None \notin Accounts
  /\ Cli \notin Clients /\ None \notin Clients
  /\ PoolSize \in Nat \ {0} /\ MaxProjects \in Nat
  /\ MaxRuns \in Nat /\ MaxUpsets \in Nat

VARIABLES row,            \* the row: none, pending (onboarding_pending) or live
          given,          \* row ids given out so far (AUTOINCREMENT)
          projects,       \* projects on record, numbered as they were added
          current,        \* the project last taken, 0 for none
          turns,          \* history: the last projects taken, oldest first,
                          \* since an onboarding last pointed the account
          profile,        \* does the canonical profile directory exist?
          temps,          \* the runs whose temporary profile is on disk
          lock,           \* the request that provisions an account's pool
          call,           \* where each caller of ensure_project_pool stands
          run,            \* the onboarding holding the global lease
          torn,           \* history: accounts a run could not clean up after
          lost,           \* history: runs killed or kept from sweeping
          runs, upsets    \* the bounded counters

onboarding == <<row, given, projects, current, turns, profile, temps, lock,
                call, run, torn, lost, runs, upsets>>

rows == <<row, given>>
pool == <<projects, current, turns, lock>>
disk == <<profile, temps>>
history == <<torn, lost, runs, upsets>>

Callers == Clients \cup {Cli}
Numbers == 1..MaxProjects

(* A call: the project current when its token was read, and the projects   *)
(* it knows of.                                                            *)
Calls == [pc : {"idle", "token", "list", "create", "add", "point", "pick"},
          account : Accounts \cup {None}, cur : 0..MaxProjects, list : SUBSET Numbers]

NoCall == [pc |-> "idle", account |-> None, cur |-> 0, list |-> {}]
Called(a) == [NoCall EXCEPT !.pc = "token", !.account = a]

(* A run: id is its account, None while a new one has no row; at is where  *)
(* the profile lies that a failure would sweep.                            *)
Runs == [pc : {"idle", "login", "insert", "pool", "rename", "publish", "unrow", "sweep"},
         no : 0..MaxRuns, new : BOOLEAN, id : Accounts \cup {None},
         at : {"temp", "canonical"}]

NoRun == [pc |-> "idle", no |-> 0, new |-> FALSE, id |-> None, at |-> "temp"]

OnboardingInit ==
  /\ row = [a \in Accounts |-> IF a \in Existing THEN "live" ELSE "none"]
  /\ given = Existing
  /\ projects = [a \in Accounts |-> 0] /\ current = [a \in Accounts |-> 0]
  /\ turns = [a \in Accounts |-> <<>>] /\ lock = [a \in Accounts |-> None]
  /\ profile = [a \in Accounts |-> a \in Existing] /\ temps = {}
  /\ call = [p \in Callers |-> NoCall] /\ run = NoRun
  /\ torn = {} /\ lost = {} /\ runs = 0 /\ upsets = 0

Upset == upsets < MaxUpsets /\ upsets' = upsets + 1
At(pc) == run.pc = pc
Goto(pc) == run' = [run EXCEPT !.pc = pc]

-----------------------------------------------------------------------------
(* ensure_project_pool, for the onboarding and for the requests *)

Stands(p, pc) == call[p].pc = pc
Step(p, pc) == call' = [call EXCEPT ![p].pc = pc]

(* The projects a caller ends with: the PoolSize oldest it knows of.       *)
Pool(list) == {n \in list : Cardinality({m \in list : m < n}) < PoolSize}
First(list) == CHOOSE n \in list : \A m \in list : n <= m

ReadToken(p) ==
  /\ Stands(p, "token")
  /\ call' = [call EXCEPT ![p].cur = current[call[p].account], ![p].pc = "list"]
  /\ UNCHANGED <<rows, pool, disk, run, history>>

ReadProjects(p) ==
  /\ Stands(p, "list")
  /\ call' = [call EXCEPT ![p].list = 1..projects[call[p].account], ![p].pc = "create"]
  /\ UNCHANGED <<rows, pool, disk, run, history>>

(* One project more at the upstream, then its row.                         *)
CreateProject(p) ==
  /\ Stands(p, "create") /\ Cardinality(call[p].list) < PoolSize /\ Step(p, "add")
  /\ UNCHANGED <<rows, pool, disk, run, history>>

AddProject(p) ==
  LET a == call[p].account
      n == projects[a] + 1
  IN /\ Stands(p, "add") /\ n <= MaxProjects
     /\ projects' = [projects EXCEPT ![a] = n]
     /\ call' = [call EXCEPT ![p].list = @ \cup {n}, ![p].pc = "create"]
     /\ UNCHANGED <<rows, current, turns, lock, disk, run, history>>

(* The pool is full: the request goes on to its project, the onboarding to *)
(* the profile or the publish.                                             *)
Provisioned(p) ==
  IF p = Cli
  THEN /\ call' = [call EXCEPT ![p] = NoCall]
       /\ Goto(IF run.new THEN "rename" ELSE "publish")
  ELSE Step(p, "pick") /\ UNCHANGED run

PoolFull(p) ==
  /\ Stands(p, "create") /\ Cardinality(call[p].list) >= PoolSize
  /\ IF call[p].cur \in Pool(call[p].list)
       THEN Provisioned(p)
       ELSE Step(p, "point") /\ UNCHANGED run
  /\ UNCHANGED <<rows, pool, disk, history>>

(* A current project outside the pool is replaced by its first.            *)
Point(p) ==
  LET first == First(call[p].list) IN
  /\ Stands(p, "point")
  /\ current' = [current EXCEPT ![call[p].account] = first]
  /\ IF p = Cli
       THEN Provisioned(p) /\ turns' = [turns EXCEPT ![call[p].account] = <<>>]
       ELSE /\ call' = [call EXCEPT ![p].cur = first, ![p].pc = "pick"]
            /\ UNCHANGED <<turns, run>>
  /\ UNCHANGED <<rows, projects, lock, disk, history>>

-----------------------------------------------------------------------------
(* ensure_project_exists *)

(* Mutant: requests provision the pool without the lock of the account.    *)
RequestUnlocked(c, a) ==
  /\ row[a] = "live" /\ Stands(c, "idle")
  /\ call' = [call EXCEPT ![c] = Called(a)]
  /\ lock' = [lock EXCEPT ![a] = c]
  /\ UNCHANGED <<rows, projects, current, turns, disk, run, history>>

(* A request takes the lock of its account.                                *)
Request(c, a) ==
  /\ row[a] = "live" /\ Stands(c, "idle") /\ lock[a] = None
  /\ call' = [call EXCEPT ![c] = Called(a)]
  /\ lock' = [lock EXCEPT ![a] = c]
  /\ UNCHANGED <<rows, projects, current, turns, disk, run, history>>

Unlocked(c) == [lock EXCEPT ![call[c].account] = None]

(* The project after the current one, round the pool.                      *)
NextProject(cur, list) ==
  LET later == {n \in list : n > cur}
  IN IF later = {} THEN First(list) ELSE First(later)

(* The last PoolSize projects taken.                                       *)
Taken(taken, n) ==
  Append(IF Len(taken) < PoolSize THEN taken ELSE Tail(taken), n)

Pick(c) ==
  LET a == call[c].account
      n == NextProject(call[c].cur, Pool(call[c].list))
  IN /\ Stands(c, "pick")
     /\ current' = [current EXCEPT ![a] = n]
     /\ turns' = [turns EXCEPT ![a] = Taken(@, n)]
     /\ lock' = Unlocked(c) /\ call' = [call EXCEPT ![c] = NoCall]
     /\ UNCHANGED <<rows, projects, disk, run, history>>

(* The upstream or the database fails, or the client leaves.               *)
RequestFails(c) ==
  /\ ~Stands(c, "idle") /\ lock' = Unlocked(c)
  /\ call' = [call EXCEPT ![c] = NoCall]
  /\ UNCHANGED <<rows, projects, current, turns, disk, run, history>>

-----------------------------------------------------------------------------
(* onboard_new and, from the pool on, onboard_existing *)

(* Another onboarding is refused at once (onboard_busy).                   *)
Start == run = NoRun /\ runs < MaxRuns /\ runs' = runs + 1

StartNew ==
  /\ Start
  /\ run' = [NoRun EXCEPT !.pc = "login", !.no = runs + 1, !.new = TRUE]
  /\ temps' = temps \cup {runs + 1}
  /\ UNCHANGED <<rows, pool, profile, call, torn, lost, upsets>>

(* The account (also one stranded by a kill) logs in to its own profile,   *)
(* which Chrome makes if it is missing, and the email matches.             *)
StartExisting(a) ==
  /\ Start /\ row[a] # "none"
  /\ run' = [NoRun EXCEPT !.pc = "pool", !.no = runs + 1, !.id = a]
  /\ call' = [call EXCEPT ![Cli] = Called(a)]
  /\ profile' = [profile EXCEPT ![a] = TRUE]
  /\ UNCHANGED <<rows, pool, temps, torn, lost, upsets>>

(* Chrome is closed by hand, the session is verified, the email matches.   *)
LoggedIn == /\ At("login") /\ Goto("insert")
            /\ UNCHANGED <<rows, pool, disk, call, history>>

(* add_token: row, statistics and lifecycle in one transaction.            *)
Insert == \E a \in Accounts \ given :
  /\ At("insert") /\ given' = given \cup {a}
  /\ row' = [row EXCEPT ![a] = "pending"]
  /\ run' = [run EXCEPT !.pc = "pool", !.id = a]
  /\ call' = [call EXCEPT ![Cli] = Called(a)]
  /\ UNCHANGED <<pool, disk, history>>

(* Mutant: the renamed profile is not the one a failure would sweep.       *)
RenameUnnoted ==
  /\ At("rename") /\ Goto("publish")
  /\ temps' = temps \ {run.no} /\ profile' = [profile EXCEPT ![run.id] = TRUE]
  /\ UNCHANGED <<rows, pool, call, history>>

Rename ==
  /\ At("rename") /\ run' = [run EXCEPT !.pc = "publish", !.at = "canonical"]
  /\ temps' = temps \ {run.no} /\ profile' = [profile EXCEPT ![run.id] = TRUE]
  /\ UNCHANGED <<rows, pool, call, history>>

(* publish_verified_account: the second transaction clears the placeholder *)
(* (the first writes the credentials; TokenPool has both).                 *)
Publish ==
  /\ At("publish") /\ row' = [row EXCEPT ![run.id] = "live"] /\ run' = NoRun
  /\ UNCHANGED <<given, pool, disk, call, history>>

(* A step fails: a new account is undone, an existing one keeps what it    *)
(* has, the new projects included.                                         *)
Fails ==
  /\ run.pc \in {"login", "insert", "pool", "rename", "publish"}
  /\ IF run.new THEN Goto("unrow") ELSE run' = NoRun
  /\ call' = [call EXCEPT ![Cli] = NoCall]
  /\ UNCHANGED <<rows, pool, disk, history>>

(* _compensate_new_account: the placeholder row goes, if it can ...        *)
DropRow ==
  /\ At("unrow") /\ Goto("sweep")
  /\ row' = [a \in Accounts |-> IF a = run.id THEN "none" ELSE row[a]]
  /\ projects' = [a \in Accounts |-> IF a = run.id THEN 0 ELSE projects[a]]
  /\ current' = [a \in Accounts |-> IF a = run.id THEN 0 ELSE current[a]]
  /\ UNCHANGED <<given, turns, lock, disk, call, history>>

Mine == {run.id} \ {None}

RowStays ==
  /\ At("unrow") /\ run.id # None /\ Upset /\ Goto("sweep")
  /\ torn' = torn \cup Mine
  /\ UNCHANGED <<rows, pool, disk, call, lost, runs>>

(* ... and then the profile, wherever the run left it.                     *)
Sweep ==
  /\ At("sweep") /\ run' = NoRun
  /\ IF run.at = "temp"
       THEN temps' = temps \ {run.no} /\ UNCHANGED profile
       ELSE profile' = [profile EXCEPT ![run.id] = FALSE] /\ UNCHANGED temps
  /\ UNCHANGED <<rows, pool, call, history>>

SweepMisses ==
  /\ At("sweep") /\ Upset /\ run' = NoRun
  /\ torn' = torn \cup Mine /\ lost' = lost \cup {run.no}
  /\ UNCHANGED <<rows, pool, disk, call, runs>>

(* The process is killed, or interrupted at the keyboard: its leases go    *)
(* and nothing else is undone.                                             *)
Killed ==
  /\ run # NoRun /\ Upset /\ run' = NoRun
  /\ call' = [call EXCEPT ![Cli] = NoCall]
  /\ torn' = torn \cup Mine /\ lost' = lost \cup {run.no}
  /\ UNCHANGED <<rows, pool, disk, runs>>

Provision(p) == \/ ReadToken(p) \/ ReadProjects(p) \/ CreateProject(p)
                \/ AddProject(p) \/ PoolFull(p) \/ Point(p)

Serve(c) == (\E a \in Accounts : Request(c, a)) \/ Pick(c) \/ RequestFails(c)

Onboard == \/ StartNew \/ \E a \in Accounts : StartExisting(a)
           \/ LoggedIn \/ Insert \/ Rename \/ Publish \/ Fails
           \/ DropRow \/ RowStays \/ Sweep \/ SweepMisses \/ Killed

OnboardingNext ==
  \/ \E p \in Callers : Provision(p)
  \/ \E c \in Clients : Serve(c)
  \/ Onboard

OnboardingSpec == OnboardingInit /\ [][OnboardingNext]_onboarding

-----------------------------------------------------------------------------
OnboardingTypeOK ==
  /\ row \in [Accounts -> {"none", "pending", "live"}]
  /\ given \subseteq Accounts /\ torn \subseteq Accounts
  /\ projects \in [Accounts -> 0..MaxProjects]
  /\ current \in [Accounts -> 0..MaxProjects]
  /\ turns \in [Accounts -> Seq(Numbers)]
  /\ profile \in [Accounts -> BOOLEAN] /\ temps \subseteq 1..MaxRuns
  /\ lock \in [Accounts -> Clients \cup {None}]
  /\ call \in [Callers -> Calls] /\ run \in Runs
  /\ lost \subseteq 1..MaxRuns
  /\ runs \in 0..MaxRuns /\ upsets \in 0..MaxUpsets

(* Whatever fails on the way, an onboarding that could clean up leaves a   *)
(* new account whole (published, with its profile and a full pool) or not  *)
(* at all: no placeholder row, no profile of either kind.                  *)
AllOrNothing ==
  /\ temps \subseteq lost \cup {run.no}
  /\ \A a \in Accounts \ (torn \cup {run.id}) :
       /\ row[a] # "pending"
       /\ profile[a] <=> row[a] = "live"
       /\ row[a] = "live" /\ a \notin Existing => projects[a] >= PoolSize

(* The requests of an account take its projects in turn: however the calls *)
(* interleave, none of the last PoolSize projects was taken twice (an      *)
(* onboarding that points the account at its first project, by what it     *)
(* read before, starts the round over).                                    *)
ProjectsTakeTurns == \A a \in Accounts : IsInjective(turns[a])
=============================================================================
