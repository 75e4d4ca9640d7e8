---------------------------- MODULE CaptchaPool ----------------------------
(***************************************************************************)
(* The pool of resident captcha tabs of BrowserCaptchaService              *)
(* (browser_captcha_personal.py): requests that solve a reCAPTCHA or       *)
(* submit through a tab, requests that report what the upstream thought of *)
(* it, Session Token refreshes, the idle reaper and the operator's stop.   *)
(*                                                                         *)
(* The service is one asyncio loop.  Sections under _resident_lock never   *)
(* suspend, so each is part of one step and the lock itself is not a       *)
(* variable.  Four locks are held across suspensions: the recovery lock    *)
(* (a request whose `phase` is not "none"), _browser_lock (one that is     *)
(* launching), _tab_build_lock (`build`) and the solve_lock of each tab    *)
(* (a request at one of LockingPcs).                                       *)
(*                                                                         *)
(* A step may end where the code runs on without suspending, so the model  *)
(* has every interleaving of the service and a few more; but picking an    *)
(* idle tab and taking its lock is one step, as it is there.               *)
(*                                                                         *)
(* A tab is a page of the browser and the number of the ResidentTabInfo    *)
(* that wraps it: a page that is taken over gets a new wrapper, with a     *)
(* lock of its own, while requests may still hold the old one.             *)
(***************************************************************************)
EXTENDS Integers, FiniteSets

CONSTANTS
    Callers,     \* concurrent requests of the service
    Projects,    \* Flow projects they ask for
    Slots,       \* names of pool slots
    Pages,       \* identities of browser pages
    Wraps,       \* numbers of the wrappers of one page
    Scenes,      \* pool limits and casts to consider
    Permits,     \* _legacy_semaphore
    RecreateAt,  \* browser_personal_recreate_threshold
    RestartAt,   \* browser_personal_restart_threshold
    None

Tabs == Pages \X Wraps
Operations == {"token", "submit", "session", "error", "success"}
AllEvents == {"crash", "age", "forget", "reap", "stop", "cancel"}

ASSUME CallersAssumption == IsFiniteSet(Callers) /\ Projects # {}
ASSUME SlotsAssumption == IsFiniteSet(Slots)
ASSUME NamesAssumption ==
    Slots \subseteq Nat /\ Pages \subseteq Nat /\ Wraps \subseteq Nat /\ Wraps # {}
ASSUME NoneAssumption == None \notin Slots \cup Tabs \cup Callers
ASSUME ThresholdsAssumption ==
    RecreateAt \in Nat /\ RestartAt \in Nat /\ 2 <= RecreateAt /\ 3 <= RestartAt
ASSUME PermitsAssumption == Permits \in Nat \ {0}
ASSUME ScenesAssumption ==
    \A e \in Scenes :
        /\ e.max \in Nat \ {0} /\ e.min \in 0..e.max
        /\ e.ops \subseteq Operations /\ e.events \subseteq AllEvents
        /\ e.calls \in Nat /\ e.upsets \in Nat

VARIABLES
    scene,       \* the limits of the pool and what happens in this behaviour
    browser,     \* the Chrome process: "none", "up" or "dead"
    healthy,     \* the cached verdict of the last health probe
    recent,      \* _was_runtime_restarted_recently
    open,        \* pages that the browser has
    closing,     \* pages that a removal is closing
    pool,        \* slot -> its tab, None for no such slot
    ready,       \* tabs of the pool with recaptcha_ready
    affinity,    \* project -> the slot that served it last
    strikes,     \* slot -> _resident_error_streaks
    doomed,      \* slots that the reaper has collected and not yet closed
    build,       \* holder of _tab_build_lock
    req,         \* caller -> what it is doing
    calls,       \* bound: calls that clients may still make
    upsets       \* bound: how much may still go wrong

vars == <<scene, browser, healthy, recent, open, closing, pool, ready, affinity, strikes,
          doomed, build, req, calls, upsets>>

Pcs == {"idle", "initialize", "launch", "ensure", "queue", "create", "rebuild", "retire",
        "solve", "solving", "clear", "clearing", "reloading", "recover", "shut",
        "legacy", "legacy_open", "legacy_solving"}

\* Where the request is in its operation: the call it will resume after.
Points == {"none", "start", "cold", "first", "rebuild", "again", "rebuilt", "last", "legacy",
           "submit", "prepare", "session", "reread", "heal", "strike"}

\* What the holder of the recovery lock is doing.
Phases == {"none", "reuse", "restart", "restored", "bare"}

LockingPcs == {"solving", "clearing", "reloading"}

Requests ==
    [op : Operations \cup {"none"}, project : Projects, pc : Pcs, at : Points,
     slot : Slots \cup {None}, tab : Tabs \cup {None}, new : Slots \cup {None},
     phase : Phases, left : Nat, warmed : BOOLEAN, retried : BOOLEAN, gone : BOOLEAN]

Idle ==
    [op |-> "none", project |-> CHOOSE p \in Projects : TRUE, pc |-> "idle", at |-> "none",
     slot |-> None, tab |-> None, new |-> None, phase |-> "none", left |-> 0,
     warmed |-> FALSE, retried |-> FALSE, gone |-> FALSE]

-----------------------------------------------------------------------------
(***************************************************************************)
(* The pool.                                                               *)
(***************************************************************************)
Pooled == {s \in Slots : pool[s] # None}

Occupied == Cardinality(Pooled)

Busy(t) == \E c \in Callers : req[c].tab = t /\ req[c].pc \in LockingPcs

\* The slots that a selection may return: ready and idle, else ready, else idle, else any.
Preferred ==
    LET idle == {s \in Pooled : ~Busy(pool[s])}
        warm == {s \in Pooled : pool[s] \in ready}
    IN  IF warm \cap idle # {} THEN warm \cap idle
        ELSE IF warm # {} THEN warm
        ELSE IF idle # {} THEN idle ELSE Pooled

Resolved(p) == IF affinity[p] \in Pooled THEN {affinity[p]} ELSE Preferred

\* Resolving a project forgets a mapping to a slot that is gone.
Settled(p) == [affinity EXCEPT ![p] = IF @ \in Pooled THEN @ ELSE None]

Forgotten(s) == [p \in Projects |-> IF affinity[p] = s THEN None ELSE affinity[p]]

HasRoom == Occupied < scene.max

Creates(force) ==
    HasRoom /\ (force \/ Pooled = {} \/ \A s \in Pooled : Busy(pool[s]))

\* Slot and page names that nothing refers to any more are as good as new ones.
FreshSlots ==
    {s \in Slots :
        /\ pool[s] = None /\ s \notin doomed
        /\ \A p \in Projects : affinity[p] # s
        /\ \A c \in Callers : req[c].slot # s}

UsedTabs == {pool[s] : s \in Pooled} \cup {req[c].tab : c \in Callers}

FreshPages ==
    {p \in Pages \ (open \cup closing) : \A w \in Wraps : <<p, w>> \notin UsedTabs}

Least(S) == CHOOSE x \in S : \A y \in S : x <= y

\* Mutant of Claims: any page of the browser will do.
ClaimsAny(pages) ==
    LET usable == IF pages # {} THEN pages ELSE {p \in FreshPages : p = Least(FreshPages)}
    IN  {t \in Tabs \ UsedTabs :
            t[1] \in usable /\ \A w \in Wraps : <<t[1], w>> \notin UsedTabs => t[2] <= w}

\* The tab that a build works on: an unclaimed page if there is one, else a new page.
Claims(pages) ==
    LET free == {p \in pages : \A s \in Pooled : \A w \in Wraps : pool[s] # <<p, w>>}
        usable == IF free # {} THEN free ELSE {p \in FreshPages : p = Least(FreshPages)}
    IN  {t \in Tabs \ UsedTabs :
            t[1] \in usable /\ \A w \in Wraps : <<t[1], w>> \notin UsedTabs => t[2] <= w}

Alive == browser = "up"

\* _is_browser_health_fresh: the verdict is about a browser that the service still has.
Fresh == healthy /\ browser # "none"

\* _probe_browser_runtime answers from its cache while that is fresh.
Probe == Fresh \/ Alive

Recovering == \E c \in Callers : req[c].phase # "none"
Launching == \E c \in Callers : req[c].pc = "launch"
LegacyHolders == {c \in Callers : req[c].at = "legacy" /\ req[c].pc # "legacy"}

PoolKept == UNCHANGED <<scene, browser, open, closing, pool, ready, doomed>>

Put(c, r) == req' = [req EXCEPT ![c] = r]

-----------------------------------------------------------------------------
(***************************************************************************)
(* Where a request goes when a call it made returns.                       *)
(***************************************************************************)
ToLegacy(r) ==
    [r EXCEPT !.pc = "legacy", !.at = "legacy", !.slot = None, !.tab = None, !.new = None,
              !.retried = FALSE]

Recover(r, at) == [r EXCEPT !.pc = "recover", !.at = at, !.tab = None]

Rebuild(r, at) == [r EXCEPT !.pc = "rebuild", !.at = at, !.tab = None]

\* The next solve of get_token, by the call that produced its tab.
SolveAfter(at) ==
    CASE at \in {"start", "cold"} -> "first"
      [] at = "rebuild" -> "rebuilt"
      [] at \in {"first", "again", "rebuilt"} -> "last"
      [] OTHER -> at

\* With a tab in hand the request takes its solve_lock, or waits for it.
Use(r, s, t, at) ==
    [r EXCEPT !.pc = IF Busy(t) THEN "solve"
                     ELSE IF r.op = "session" /\ at = "session" THEN "reloading" ELSE "solving",
              !.slot = s, !.tab = t, !.new = None, !.at = at, !.gone = FALSE]

\* _ensure_resident_tab returned a tab.
Got(r, s, t, warm) ==
    CASE ~warm /\ r.at = "start" -> Rebuild([r EXCEPT !.slot = s, !.new = None], "cold")
      [] ~warm /\ r.op = "submit" -> Rebuild([r EXCEPT !.slot = s, !.new = None], "submit")
      [] ~warm /\ r.op = "token" /\ r.at # "start" -> ToLegacy(r)
      [] OTHER -> Use(r, s, t, SolveAfter(r.at))

\* _ensure_resident_tab returned none: some calls look whether the browser is to blame.
Probes(r) ==
    \/ r.op = "token" /\ (r.at = "rebuild" \/ (r.at = "start" /\ ~r.retried))
    \/ r.op = "session" /\ ~r.retried

Missed(r) ==
    IF Probes(r) /\ ~Probe
    THEN Recover(r, CASE r.at = "start" -> "start"
                      [] r.at = "rebuild" -> "again"
                      [] r.op = "session" -> "prepare")
    ELSE IF r.op = "token" THEN ToLegacy(r) ELSE Idle

RebuildFailed(r) ==
    IF r.at \in {"cold", "rebuild"} THEN Recover(r, r.at) ELSE Idle

\* The recovery lock is released; _recover_browser_runtime returned ok.
Recovered(r0, ok) ==
    LET r == [r0 EXCEPT !.phase = "none", !.left = 0, !.warmed = FALSE]
        again == [r EXCEPT !.pc = "ensure", !.retried = (r.at = "start"), !.slot = None]
        restart == [r EXCEPT !.pc = "initialize", !.at = "session", !.retried = TRUE,
                             !.slot = None]
    IN  CASE r.at = "strike" -> Idle
          [] r.at = "legacy" -> [r EXCEPT !.pc = "legacy_open", !.retried = TRUE]
          [] r.at = "prepare" -> restart
          [] r.at \in {"session", "reread"} /\ ok -> restart
          [] r.at = "session" /\ ~ok -> Rebuild(r, "reread")
          [] r.at = "reread" /\ ~ok -> Idle
          [] r.at = "first" /\ ~ok -> Rebuild(r, "rebuild")
          [] r.at = "rebuild" /\ ~ok -> Recover(r, "again")
          [] r.at \in {"start", "cold", "again", "rebuilt"} /\ ~ok -> ToLegacy(r)
          [] OTHER -> again

\* Mutant of Restart: it warms up as many tabs as there were, none included.
RestartBare(r) ==
    [r EXCEPT !.pc = "shut", !.phase = "restart", !.tab = None, !.new = None, !.warmed = FALSE,
              !.left = Occupied]

\* _restart_browser_for_project_unlocked begins.
Restart(r) ==
    [r EXCEPT !.pc = "shut", !.phase = "restart", !.tab = None, !.new = None, !.warmed = FALSE,
              !.left = IF Occupied = 0 THEN 1
                       ELSE IF Occupied < scene.max THEN Occupied ELSE scene.max]

\* It failed: a recovery falls back to a bare relaunch, a strike gives up.
RestartFailed(r) ==
    IF r.at = "strike" THEN Idle
    ELSE [r EXCEPT !.pc = "shut", !.phase = "bare", !.left = 0, !.warmed = FALSE]

-----------------------------------------------------------------------------
(***************************************************************************)
(* The browser: initialize, recovery, restart, and what befalls it.        *)
(***************************************************************************)
BeginUse(c) ==
    /\ req[c].pc = "idle"
    /\ \E p \in Projects, op \in scene.ops \cap {"token", "submit", "session"} :
          Put(c, [Idle EXCEPT !.op = op, !.project = p, !.pc = "initialize",
                              !.at = IF op = "token" THEN "start" ELSE op])
    /\ PoolKept
    /\ UNCHANGED <<healthy, recent, affinity, strikes, build>>

\* initialize returned: on to the call that needed it.
Initialized(r) ==
    CASE r.phase = "bare" -> Recovered(r, TRUE)
      [] r.phase # "bare" /\ r.at = "legacy" /\ r.phase = "none" -> [r EXCEPT !.pc = "legacy_open"]
      [] r.phase # "bare" /\ (r.at # "legacy" \/ r.phase # "none") -> [r EXCEPT !.pc = "ensure"]

\* initialize finds a browser that a probe, or its cache, says is alive.
Initialize(c) ==
    /\ req[c].pc = "initialize"
    /\ Fresh \/ (Alive /\ ~Launching)
    /\ healthy' = TRUE
    /\ recent' = (recent \/ req[c].phase = "bare")
    /\ Put(c, Initialized(req[c]))
    /\ PoolKept
    /\ UNCHANGED <<affinity, strikes, build>>

\* _shutdown_browser_runtime_locked.
Cleared ==
    /\ browser' = "none"
    /\ healthy' = FALSE
    /\ open' = {}
    /\ closing' = {}
    /\ pool' = [s \in Slots |-> None]
    /\ ready' = {}
    /\ affinity' = [p \in Projects |-> None]
    /\ strikes' = [s \in Slots |-> 0]
    /\ UNCHANGED <<scene, recent, doomed, build>>

\* initialize takes _browser_lock and starts a browser in place of a lost one.
Launch(c) ==
    /\ req[c].pc = "initialize"
    /\ ~Probe /\ ~Launching
    /\ Cleared
    /\ Put(c, [req[c] EXCEPT !.pc = "launch"])

Launched(c) ==
    /\ req[c].pc = "launch"
    /\ browser' = "up"
    /\ healthy' = TRUE
    /\ recent' = (recent \/ req[c].phase = "bare")
    /\ Put(c, Initialized(req[c]))
    /\ UNCHANGED <<scene, open, closing, pool, ready, affinity, strikes, doomed, build>>

\* The launch raises: out of the operation, or into the recovery that wanted it.
LaunchFails(c) ==
    /\ req[c].pc = "launch"
    /\ Put(c, CASE req[c].phase = "none" -> Idle
                [] req[c].phase = "bare" -> Recovered(req[c], FALSE)
                [] req[c].phase \notin {"none", "bare"} -> RestartFailed(req[c]))
    /\ PoolKept
    /\ UNCHANGED <<healthy, recent, affinity, strikes, build>>

\* _recover_browser_runtime has the lock: whoever held it may have repaired the browser.
EnterRecover(c) ==
    /\ req[c].pc = "recover"
    /\ req[c].at # "strike"
    /\ ~Recovering
    /\ healthy' = Probe
    /\ Put(c, IF Probe THEN Recovered(req[c], TRUE) ELSE Restart(req[c]))
    /\ PoolKept
    /\ UNCHANGED <<recent, affinity, strikes, build>>

\* _restart_browser_for_project has the lock: a restart of the last minute is reused.
EnterStrike(c) ==
    /\ req[c].pc = "recover"
    /\ req[c].at = "strike"
    /\ ~Recovering
    /\ IF recent
       THEN /\ healthy' = Probe
            /\ Put(c, IF Probe THEN [req[c] EXCEPT !.pc = "ensure", !.phase = "reuse"]
                      ELSE Restart(req[c]))
       ELSE Put(c, Restart(req[c])) /\ UNCHANGED healthy
    /\ PoolKept
    /\ UNCHANGED <<recent, affinity, strikes, build>>

\* _shutdown_browser_runtime.
Shut(c) ==
    /\ req[c].pc = "shut"
    /\ ~Launching
    /\ Cleared
    /\ Put(c, [req[c] EXCEPT !.pc = "initialize"])

Crash ==
    /\ "crash" \in scene.events
    /\ Alive
    /\ browser' = "dead"
    /\ healthy' \in {healthy, FALSE}
    /\ UNCHANGED <<scene, recent, open, closing, pool, ready, affinity, strikes, doomed, build,
                   req>>

\* The health verdict expires, and so does the memory of the last restart.
Age ==
    /\ \/ "age" \in scene.events /\ healthy /\ healthy' = FALSE /\ UNCHANGED recent
       \/ "forget" \in scene.events /\ recent /\ recent' = FALSE /\ UNCHANGED healthy
    /\ PoolKept
    /\ UNCHANGED <<affinity, strikes, build, req>>

-----------------------------------------------------------------------------
(***************************************************************************)
(* _ensure_resident_tab, _rebuild_resident_tab and _create_resident_tab.   *)
(***************************************************************************)
\* A session refresh reloads the tab from the moment it has its lock.
Reloads(r, t) == r.op = "session" /\ r.phase = "none" /\ ~Busy(t)

\* _ensure_resident_tab returns tab t of slot s; rd are the ready tabs.
Gives(c, s, t, rd) ==
    LET r == req[c] IN
    CASE r.phase = "none" ->
            /\ Put(c, Got(r, s, t, t \in rd))
            /\ ready' = IF Reloads(r, t) THEN rd \ {t} ELSE rd
            /\ UNCHANGED <<recent, affinity, strikes>>
      [] r.phase = "restart" ->
            /\ Put(c, [r EXCEPT !.pc = "ensure", !.left = @ - 1, !.warmed = TRUE, !.new = None,
                                !.tab = None, !.phase = IF r.left = 1 THEN "restored" ELSE @])
            /\ ready' = rd
            /\ UNCHANGED <<recent, affinity, strikes>>
      [] r.phase \in {"restored", "reuse"} ->
            /\ Put(c, Recovered([r EXCEPT !.new = None, !.tab = None], TRUE))
            /\ ready' = rd
            /\ affinity' = [affinity EXCEPT ![r.project] = s]
            /\ strikes' = [strikes EXCEPT ![s] = 0]
            /\ recent' = (recent \/ r.phase = "restored")

\* It returns none.
GivesNone(c) ==
    LET r == [req[c] EXCEPT !.new = None, !.tab = None] IN
    /\ healthy' = IF r.phase = "none" /\ Probes(r) THEN Probe ELSE healthy
    /\ Put(c, CASE r.phase = "none" -> Missed(r)
                [] r.phase = "restart" /\ r.left > 1 -> [r EXCEPT !.pc = "ensure", !.left = @ - 1]
                [] r.phase = "restart" /\ r.left <= 1 /\ r.warmed ->
                      [r EXCEPT !.pc = "ensure", !.left = 0, !.phase = "restored"]
                [] r.phase = "restart" /\ r.left <= 1 /\ ~r.warmed -> RestartFailed(r)
                [] r.phase = "restored" -> RestartFailed(r)
                [] r.phase = "reuse" -> Restart(r))
    /\ UNCHANGED <<recent, affinity, strikes, ready>>

Forced(c) == req[c].phase = "restart"

\* A session refresh goes to the slot that served its project last, if it still exists.
Keeps(c) == req[c].op = "session" /\ req[c].phase = "none" /\ affinity[req[c].project] \in Pooled

\* The fast path: a tab of the pool will do, or the pool is full.
Ensure(c) ==
    /\ req[c].pc = "ensure"
    /\ Keeps(c) \/ ~Creates(Forced(c))
    /\ \E s \in IF Keeps(c) THEN {affinity[req[c].project]} ELSE Preferred :
          Gives(c, s, pool[s], ready)
    /\ UNCHANGED <<scene, browser, healthy, open, closing, pool, doomed, build>>

EnsureQueues(c) ==
    /\ req[c].pc = "ensure"
    /\ ~Keeps(c) /\ Creates(Forced(c))
    /\ Put(c, [req[c] EXCEPT !.pc = "queue"])
    /\ PoolKept
    /\ UNCHANGED <<healthy, recent, affinity, strikes, build>>

\* While others build, a request that may not force one takes a tab that became idle; and
\* with the lock in hand it looks again before it builds.
Reuse(c) ==
    /\ req[c].pc = "queue"
    /\ IF build # None THEN ~Forced(c) ELSE ~Creates(Forced(c))
    /\ \E s \in Preferred :
          /\ build # None => pool[s] \in ready /\ ~Busy(pool[s])
          /\ Gives(c, s, pool[s], ready)
    /\ UNCHANGED <<scene, browser, healthy, open, closing, pool, doomed, build>>

\* No tab could be built: any tab of the pool will do.
FallBack(c) ==
    IF Pooled = {} THEN GivesNone(c)
    ELSE /\ \E s \in Preferred : Gives(c, s, pool[s], ready)
         /\ UNCHANGED healthy

\* _create_resident_tab takes an unclaimed page of those that are open, or opens one.
Claim(c, r, pages) ==
    \E t \in Claims(pages) :
        /\ Put(c, [r EXCEPT !.pc = "create", !.tab = t])
        /\ open' = pages \cup {t[1]}

\* Mutant of Build: the check made before the wait is not repeated.
BuildUnchecked(c) ==
    /\ req[c].pc = "queue"
    /\ build = None
    /\ browser # "none"
    /\ \E s \in FreshSlots :
          s = Least(FreshSlots) /\ Claim(c, [req[c] EXCEPT !.new = s], open)
    /\ build' = c
    /\ UNCHANGED <<scene, browser, healthy, recent, closing, pool, ready, affinity, strikes,
                   doomed>>

Build(c) ==
    /\ req[c].pc = "queue"
    /\ build = None
    /\ Creates(Forced(c))
    /\ browser # "none"
    /\ \E s \in FreshSlots :
          s = Least(FreshSlots) /\ Claim(c, [req[c] EXCEPT !.new = s], open)
    /\ build' = c
    /\ UNCHANGED <<scene, browser, healthy, recent, closing, pool, ready, affinity, strikes,
                   doomed>>

BuildsNothing(c) ==
    /\ req[c].pc = "queue"
    /\ build = None
    /\ Creates(Forced(c))
    /\ browser = "none"
    /\ FallBack(c)
    /\ UNCHANGED <<scene, browser, open, closing, pool, doomed, build>>

\* Mutant of Pop: the strikes stay behind.
PopTabOnly(s) ==
    /\ pool' = [pool EXCEPT ![s] = None]
    /\ ready' = ready \ {pool[s]}
    /\ affinity' = Forgotten(s)
    /\ UNCHANGED strikes

\* What _close_resident_tab and a rebuild forget with a slot.
Pop(s) ==
    /\ pool' = [pool EXCEPT ![s] = None]
    /\ ready' = ready \ {pool[s]}
    /\ affinity' = Forgotten(s)
    /\ strikes' = [strikes EXCEPT ![s] = 0]

\* Mutant of RebuildStart: the new tab gets a slot of its own beside the old one.
RebuildBeside(c) ==
    /\ req[c].pc = "rebuild"
    /\ build = None
    /\ build' = c
    /\ \E s \in {x \in FreshSlots : x = Least(FreshSlots)} :
          Put(c, [req[c] EXCEPT !.pc = "retire", !.slot = s, !.gone = FALSE])
    /\ UNCHANGED <<scene, browser, healthy, recent, open, closing, pool, ready, affinity,
                   strikes, doomed>>

\* _rebuild_resident_tab has the build lock: the slot leaves the pool.
RebuildStart(c) ==
    LET r == req[c]
        targets == IF r.at # "heal" THEN {r.slot}
                   ELSE IF Pooled # {} THEN Resolved(r.project)
                   ELSE {s \in FreshSlots : s = Least(FreshSlots)}
    IN
    /\ r.pc = "rebuild"
    /\ build = None
    /\ build' = c
    /\ \E s \in targets :
          /\ Pop(s)
          /\ Put(c, [r EXCEPT !.pc = "retire", !.slot = s, !.tab = pool[s],
                              !.gone = (pool[s] = None)])
    /\ UNCHANGED <<scene, browser, healthy, recent, open, closing, doomed>>

\* Once the old tab is idle it is closed, unless that fails quietly, and the new one begun.
Retire(c, stays) ==
    LET r == req[c] IN
    /\ r.pc = "retire"
    /\ r.tab # None => ~Busy(r.tab)
    /\ LET pages == IF stays \/ r.tab = None THEN open ELSE open \ {r.tab[1]} IN
          IF browser = "none"
          THEN Put(c, RebuildFailed(r)) /\ open' = pages /\ build' = None
          ELSE Claim(c, r, pages) /\ UNCHANGED build
    /\ UNCHANGED <<scene, browser, healthy, recent, closing, pool, ready, affinity, strikes,
                   doomed>>

\* The page loaded and its reCAPTCHA is ready.  A page that was closed under it in its last
\* await (the fingerprint, whose errors are swallowed) joins the pool all the same.
Create(c) ==
    LET r == req[c] IN
    /\ r.pc = "create"
    /\ r.new # None
    /\ pool' = [pool EXCEPT ![r.new] = r.tab]
    /\ healthy' = TRUE
    /\ build' = None
    /\ Gives(c, r.new, r.tab, ready \cup {r.tab})
    /\ UNCHANGED <<scene, browser, open, closing, doomed>>

Recreate(c) ==
    LET r == req[c] IN
    /\ r.pc = "create"
    /\ r.new = None
    /\ pool' = [pool EXCEPT ![r.slot] = r.tab]
    /\ ready' = ready \cup {r.tab}
    /\ affinity' = [affinity EXCEPT ![r.project] = r.slot]
    /\ healthy' = TRUE
    /\ build' = None
    /\ Put(c, IF r.at = "heal" THEN Idle ELSE Use(r, r.slot, r.tab, SolveAfter(r.at)))
    /\ UNCHANGED <<scene, browser, recent, open, closing, strikes, doomed>>

\* Mutant of CreateFails: an early return that does not release the build lock.
CreateFailsLocked(c) ==
    LET r == req[c] IN
    /\ r.pc = "create"
    /\ IF r.new # None
       THEN FallBack(c)
       ELSE /\ Put(c, RebuildFailed(r))
            /\ UNCHANGED <<healthy, recent, ready, affinity, strikes>>
    /\ UNCHANGED <<scene, browser, open, closing, pool, doomed, build>>

\* A page that did not load, or has no reCAPTCHA, is closed; one that raised stays behind.
CreateFails(c) ==
    LET r == req[c] IN
    /\ r.pc = "create"
    /\ open' \in {open, open \ {r.tab[1]}}
    /\ build' = None
    /\ IF r.new # None
       THEN FallBack(c)
       ELSE /\ Put(c, RebuildFailed(r))
            /\ UNCHANGED <<healthy, recent, ready, affinity, strikes>>
    /\ UNCHANGED <<scene, browser, closing, pool, doomed>>

-----------------------------------------------------------------------------
(***************************************************************************)
(* What requests do with a tab.                                            *)
(***************************************************************************)
\* A waiter gets the solve_lock of its tab.
Lock(c) ==
    LET r == req[c]
        reload == r.op = "session" /\ r.at = "session"
    IN
    /\ r.pc \in {"solve", "clear"}
    /\ ~Busy(r.tab)
    /\ Put(c, [r EXCEPT !.pc = IF r.pc = "clear" THEN "clearing"
                               ELSE IF reload THEN "reloading" ELSE "solving"])
    /\ ready' = IF reload THEN ready \ {r.tab} ELSE ready
    /\ UNCHANGED <<scene, browser, healthy, recent, open, closing, pool, affinity, strikes,
                   doomed, build>>

Works(t) == Alive /\ t[1] \in open

\* A reCAPTCHA token, or an answer of any status to a submission.
Solved(c) ==
    LET r == req[c] IN
    /\ r.pc = "solving"
    /\ r.op \in {"token", "submit"}
    /\ Works(r.tab)
    /\ affinity' = [affinity EXCEPT ![r.project] = r.slot]
    /\ healthy' = (healthy \/ r.op = "token")
    /\ Put(c, Idle)
    /\ PoolKept
    /\ UNCHANGED <<recent, strikes, build>>

\* No token, a timeout, or (runtime) a connection that is gone.
SolveFails(c, runtime) ==
    LET r == req[c] IN
    /\ r.pc = "solving"
    /\ r.op \in {"token", "submit"}
    /\ Put(c, CASE r.op = "submit" -> Idle
                [] r.at \in {"first", "rebuilt"} /\ runtime -> Recover(r, r.at)
                [] r.at = "first" /\ ~runtime -> Rebuild(r, "rebuild")
                [] r.at = "rebuilt" /\ ~runtime -> ToLegacy(r)
                [] r.at = "last" -> ToLegacy(r))
    /\ PoolKept
    /\ UNCHANGED <<healthy, recent, affinity, strikes, build>>

\* A tab may be marked ready only while it is in the pool; elsewhere nobody reads the mark.
Marked(t) == ready \cup {x \in {t} : \E s \in Slots : pool[s] = t}

\* refresh_session_token reads the cookies, after a reload or on a rebuilt tab.
SessionRead(c) ==
    LET r == req[c] IN
    /\ r.op = "session"
    /\ r.pc \in {"solving", "reloading"}
    /\ ready' \in {ready, IF r.pc = "reloading" THEN Marked(r.tab) ELSE ready}
    /\ \/ UNCHANGED <<affinity, strikes, healthy>>
       \/ /\ Works(r.tab)
          /\ affinity' = [affinity EXCEPT ![r.project] = r.slot]
          /\ strikes' = [strikes EXCEPT ![r.slot] = 0]
          /\ healthy' = TRUE
    /\ Put(c, Idle)
    /\ UNCHANGED <<scene, browser, recent, open, closing, pool, doomed, build>>

SessionFails(c, runtime) ==
    LET r == req[c] IN
    /\ r.op = "session"
    /\ r.pc \in {"solving", "reloading"}
    /\ Put(c, CASE ~r.retried /\ runtime -> Recover(r, r.at)
                [] (r.retried \/ ~runtime) /\ r.at = "session" -> Rebuild(r, "reread")
                [] (r.retried \/ ~runtime) /\ r.at = "reread" -> Idle)
    /\ PoolKept
    /\ UNCHANGED <<healthy, recent, affinity, strikes, build>>

\* report_flow_success.
ReportSuccess(c) ==
    /\ "success" \in scene.ops
    /\ req[c].pc = "idle"
    /\ \E p \in Projects : \E s \in Resolved(p) :
          /\ strikes' = [strikes EXCEPT ![s] = 0]
          /\ affinity' = Settled(p)
    /\ PoolKept
    /\ UNCHANGED <<healthy, recent, build, req>>

\* report_flow_error: the slot gets a strike, and its tab the treatment that its strikes
\* call for.  An error of neither Google's nor the captcha's making has the tab rebuilt.
ReportError(c, upstream) ==
    /\ "error" \in scene.ops
    /\ req[c].pc = "idle"
    /\ \E p \in Projects : \E s \in Resolved(p) :
          LET n == strikes[s] + 1
              r == [Idle EXCEPT !.op = "error", !.project = p]
              t == pool[s]
          IN
          /\ strikes' = [strikes EXCEPT ![s] = IF n > RestartAt THEN RestartAt ELSE n]
          /\ affinity' = Settled(p)
          /\ Put(c, CASE browser = "none" -> Idle
                      [] browser # "none" /\ upstream /\ n >= RestartAt -> Recover(r, "strike")
                      [] browser # "none" /\ upstream /\ n < RecreateAt ->
                            [r EXCEPT !.pc = IF Busy(t) THEN "clear" ELSE "clearing",
                                      !.at = "heal", !.slot = s, !.tab = t]
                      [] OTHER -> Rebuild(r, "heal"))
    /\ PoolKept
    /\ UNCHANGED <<healthy, recent, build>>

\* _clear_resident_storage_and_reload: the storage is cleared, the page reloads.
Clear(c) ==
    /\ req[c].pc = "clearing"
    /\ Put(c, [req[c] EXCEPT !.pc = "reloading"])
    /\ ready' = ready \ {req[c].tab}
    /\ UNCHANGED <<scene, browser, healthy, recent, open, closing, pool, affinity, strikes,
                   doomed, build>>

Healed(c) ==
    LET r == req[c] IN
    /\ r.op = "error"
    /\ r.pc = "reloading"
    /\ Works(r.tab)
    /\ ready' = Marked(r.tab)
    /\ affinity' = [affinity EXCEPT ![r.project] = r.slot]
    /\ Put(c, Idle)
    /\ UNCHANGED <<scene, browser, healthy, recent, open, closing, pool, strikes, doomed,
                   build>>

HealFails(c) ==
    /\ req[c].op = "error"
    /\ req[c].pc \in {"clearing", "reloading"}
    /\ Put(c, Rebuild(req[c], "heal"))
    /\ PoolKept
    /\ UNCHANGED <<healthy, recent, affinity, strikes, build>>

\* _get_token_legacy: at most Permits requests, each on a page of its own.
LegacyOpen(c) ==
    LET r == req[c] IN
    /\ r.pc \in {"legacy", "legacy_open"}
    /\ r.pc = "legacy" => Cardinality(LegacyHolders) < Permits
    /\ IF browser = "none"
       THEN Put(c, [r EXCEPT !.pc = "initialize"]) /\ UNCHANGED open
       ELSE \E p \in FreshPages :
               /\ p = Least(FreshPages)
               /\ Put(c, [r EXCEPT !.pc = "legacy_solving", !.tab = <<p, Least(Wraps)>>])
               /\ open' = open \cup {p}
    /\ UNCHANGED <<scene, browser, healthy, recent, closing, pool, ready, affinity, strikes,
                   doomed, build>>

\* The page is closed whatever came of it; a lost connection is retried once.
LegacyEnds(c, runtime, stays) ==
    LET r == req[c] IN
    /\ r.pc = "legacy_solving"
    /\ healthy' \in {healthy, healthy \/ (Works(r.tab) /\ ~runtime)}
    /\ open' = IF stays THEN open ELSE open \ {r.tab[1]}
    /\ Put(c, IF runtime /\ ~r.retried THEN Recover(r, "legacy") ELSE Idle)
    /\ UNCHANGED <<scene, browser, recent, closing, pool, ready, affinity, strikes, doomed,
                   build>>

\* The client goes away: the request unwinds, its locks with it, but not its pages, nor a
\* tab that it was reloading.
Cancel(c) ==
    /\ "cancel" \in scene.events
    /\ req[c].pc # "idle"
    /\ Put(c, Idle)
    /\ build' = IF build = c THEN None ELSE build
    /\ open' \in {open, IF req[c].pc = "legacy_solving" THEN open \ {req[c].tab[1]} ELSE open}
    /\ UNCHANGED <<scene, browser, healthy, recent, closing, pool, ready, affinity, strikes,
                   doomed>>

-----------------------------------------------------------------------------
(***************************************************************************)
(* The idle reaper and the operator.                                       *)
(***************************************************************************)
\* _collect_idle_tabs_to_close: idle slots, never more than the pool has to spare.
Collect ==
    /\ "reap" \in scene.events
    /\ doomed = {}
    /\ \E S \in SUBSET {s \in Pooled : ~Busy(pool[s])} :
          /\ S # {}
          /\ Cardinality(S) <= Occupied - scene.min
          /\ doomed' = S
    /\ UNCHANGED <<scene, browser, healthy, recent, open, closing, pool, ready, affinity,
                   strikes, build, req>>

\* _close_resident_tab.
CloseSlot(s) ==
    /\ Pop(s)
    /\ closing' = closing \cup ({pool[s][1] : x \in {s} \cap Pooled} \cap open)

Reap ==
    /\ \E s \in doomed :
          /\ doomed' = doomed \ {s}
          /\ CloseSlot(s)
    /\ UNCHANGED <<scene, browser, healthy, recent, open, build, req>>

\* stop_resident_mode, for one slot or for all.
Stop ==
    /\ "stop" \in scene.events
    /\ \E s \in Pooled : CloseSlot(s)
    /\ UNCHANGED <<scene, browser, healthy, recent, open, doomed, build, req>>

StopAll ==
    /\ "stop" \in scene.events
    /\ Pooled # {}
    /\ closing' = closing \cup ({pool[s][1] : s \in Pooled} \cap open)
    /\ pool' = [s \in Slots |-> None]
    /\ ready' = {}
    /\ affinity' = [p \in Projects |-> None]
    /\ strikes' = [s \in Slots |-> 0]
    /\ UNCHANGED <<scene, browser, healthy, recent, open, doomed, build, req>>

\* _close_tab_quietly ends, whether or not it closed the page.
Closed(stays) ==
    /\ \E p \in closing :
          /\ closing' = closing \ {p}
          /\ open' = IF stays THEN open ELSE open \ {p}
    /\ UNCHANGED <<scene, browser, healthy, recent, pool, ready, affinity, strikes, doomed,
                   build, req>>

-----------------------------------------------------------------------------
Init ==
    /\ scene \in Scenes
    /\ browser = "none"
    /\ healthy = FALSE
    /\ recent = FALSE
    /\ open = {}
    /\ closing = {}
    /\ pool = [s \in Slots |-> None]
    /\ ready = {}
    /\ affinity = [p \in Projects |-> None]
    /\ strikes = [s \in Slots |-> 0]
    /\ doomed = {}
    /\ build = None
    /\ req = [c \in Callers |-> Idle]
    /\ calls = scene.calls
    /\ upsets = scene.upsets

\* What a request does of itself once it has begun, when all goes well.
Proceed(c) ==
    \/ Initialize(c) \/ Launch(c) \/ Launched(c)
    \/ EnterRecover(c) \/ EnterStrike(c) \/ Shut(c)
    \/ Ensure(c) \/ EnsureQueues(c) \/ Reuse(c) \/ Build(c) \/ BuildsNothing(c)
    \/ RebuildStart(c) \/ Retire(c, FALSE) \/ Create(c) \/ Recreate(c)
    \/ Lock(c) \/ Solved(c) \/ SessionRead(c) \/ Clear(c) \/ Healed(c)
    \/ LegacyOpen(c) \/ LegacyEnds(c, FALSE, FALSE)

\* What the browser makes of a request.
Fail(c) ==
    \/ CreateFails(c) \/ HealFails(c)
    \/ \E runtime \in BOOLEAN :
          SolveFails(c, runtime) \/ SessionFails(c, runtime) \/ LegacyEnds(c, runtime, FALSE)

\* A request on a page that is gone fails of necessity, one on a live page by an upset.
Hopeless(c) == req[c].tab # None /\ ~Works(req[c].tab)

Step(c) ==
    \/ Proceed(c) /\ UNCHANGED <<calls, upsets>>
    \/ Hopeless(c) /\ Fail(c) /\ UNCHANGED <<calls, upsets>>

Upset(c) ==
    \/ ~Hopeless(c) /\ Fail(c)
    \/ LaunchFails(c) \/ Retire(c, TRUE) \/ Cancel(c)
    \/ \E runtime \in BOOLEAN : LegacyEnds(c, runtime, TRUE)

Begin(c) ==
    \/ BeginUse(c) \/ ReportSuccess(c)
    \/ \E upstream \in BOOLEAN : ReportError(c, upstream)

Disturb == Crash \/ Collect \/ Stop \/ StopAll \/ Closed(TRUE)

Next ==
    \/ \E c \in Callers : Step(c)
    \/ (Age \/ Reap \/ Closed(FALSE)) /\ UNCHANGED <<calls, upsets>>
    \/ /\ calls > 0
       /\ calls' = calls - 1
       /\ UNCHANGED upsets
       /\ \E c \in Callers : Begin(c)
    \/ /\ upsets > 0
       /\ upsets' = upsets - 1
       /\ UNCHANGED calls
       /\ Disturb \/ \E c \in Callers : Upset(c)

Spec == Init /\ [][Next]_vars

\* The event loop runs on while some request can: awaited calls of the browser return or
\* time out.
FairSpec == Spec /\ WF_vars(\E c \in Callers : Step(c))

-----------------------------------------------------------------------------
TypeOK ==
    /\ scene \in Scenes
    /\ browser \in {"none", "up", "dead"}
    /\ healthy \in BOOLEAN
    /\ recent \in BOOLEAN
    /\ open \subseteq Pages
    /\ closing \subseteq Pages
    /\ pool \in [Slots -> Tabs \cup {None}]
    /\ ready \subseteq Tabs
    /\ affinity \in [Projects -> Slots \cup {None}]
    /\ strikes \in [Slots -> 0..RestartAt]
    /\ doomed \subseteq Slots
    /\ build \in Callers \cup {None}
    /\ req \in [Callers -> Requests]
    /\ calls \in Nat
    /\ upsets \in Nat


\* Strikes are held against tabs of the pool: whatever takes a slot out of it (a rebuild,
\* the reaper, a stop, a restart) starts its successor with a clean sheet.
StrikesArePooled == \A s \in Slots : strikes[s] > 0 => pool[s] # None

\* Two slots never share a page, although a build takes over any page that the pool does
\* not list, closing and legacy ones too, and removals run while it waits for the page.
PagesDistinct ==
    \A s, z \in Pooled : s # z => pool[s][1] # pool[z][1]

\* A build never takes the pool past its limit, however many requests queued for the lock
\* when there was room: each looks again once it holds it.
BuildsFitPool ==
    [][\A c \in Callers :
          req[c].pc = "create" /\ req[c].new # None /\ pool' # pool => Occupied' <= scene.max]_vars

\* Rebuilds do not look for room: the slot was in the pool when they were called for, and it
\* may be gone when they come to it.  So the pool may outgrow its limit, by one tab for every
\* request but one.
PoolBounded == Occupied < scene.max + Cardinality(Callers)

\* Every call comes to its end: no lock is left behind and no two requests wait for each
\* other, whatever fails, dies, is reaped or cancelled.
CallsEnd == <>[](\A c \in Callers : req[c].pc = "idle")
=============================================================================
