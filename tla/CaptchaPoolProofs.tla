-------------------------- MODULE CaptchaPoolProofs --------------------------
(***************************************************************************)
(* Theorems about CaptchaPool, for any requests, projects, slots, pages    *)
(* and scenes: its types (no branch of the recovery is left without a      *)
(* case), that strikes are held against tabs of the pool, that no two      *)
(* slots share a page, and how far the pool may grow.                      *)
(***************************************************************************)
EXTENDS CaptchaPool, FiniteSetTheorems, TLAPS

-----------------------------------------------------------------------------
(***************************************************************************)
(* The inductive invariant.                                                *)
(***************************************************************************)
Building == {"retire", "create"}

\* Where _ensure_resident_tab was called from.
EnsurePoints ==
    {"start", "cold", "first", "rebuild", "again", "rebuilt", "submit", "session"}

\* Where _rebuild_resident_tab was called from.
RebuildPoints == {"cold", "rebuild", "submit", "reread", "heal"}

Running == {"token", "submit", "session", "error"}

\* The calls of each operation.
Belongs(op, at) ==
    /\ op = "token" =>
          at \in {"start", "cold", "first", "rebuild", "again", "rebuilt", "last", "legacy"}
    /\ op = "submit" => at = "submit"
    /\ op = "session" => at \in {"session", "prepare", "reread"}
    /\ op = "error" => at \in {"strike", "heal"}

OpFits(r) == Belongs(r.op, r.at) /\ (r.pc # "idle" => r.op \in Running)

\* A recovery is in order: its attempts are counted, and it remembers the slot to rebuild.
PhaseFits(r) ==
    /\ r.pc \in {"rebuild", "retire", "solve", "solving", "clear", "clearing", "reloading",
                 "recover", "legacy", "legacy_open", "legacy_solving"} => r.phase = "none"
    /\ r.pc = "shut" => r.phase \in {"restart", "bare"}
    /\ r.pc \in {"initialize", "launch"} => r.phase \in {"none", "restart", "bare"}
    /\ r.pc \in {"ensure", "queue", "create"} => r.phase # "bare"
    /\ r.phase = "restart" => r.left >= 1
    /\ (r.pc = "recover" \/ r.phase # "none") /\ r.at \in {"first", "session"} => r.slot \in Slots
    /\ r.pc = "recover" \/ r.phase # "none" =>
          r.at \in {"start", "cold", "again", "rebuild", "first", "rebuilt", "session", "prepare",
                    "reread", "legacy", "strike"}

\* A call that looks for a tab has no slot yet; one that rebuilds has.
SlotFits(r) ==
    /\ r.at = "legacy" => r.slot = None
    /\ r.pc # "create" => r.new = None
    /\ r.pc \in {"initialize", "launch"} /\ r.phase = "none" =>
          r.slot = None /\ r.at \in {"start", "submit", "session", "legacy"}
    /\ (r.pc \in {"ensure", "queue"} \/ (r.pc = "create" /\ r.new # None)) /\ r.phase = "none" =>
          r.slot = None /\ r.at \in EnsurePoints
    /\ r.pc = "create" /\ r.new = None => r.phase = "none"
    /\ r.pc \in {"rebuild", "retire"} \/ (r.pc = "create" /\ r.new = None) => r.at \in RebuildPoints
    /\ r.pc = "rebuild" /\ r.at # "heal" => r.slot \in Slots
    /\ r.pc = "retire" \/ (r.pc = "create" /\ r.new = None) => r.slot \in Slots

\* A request that works on a tab.
TabFits(r) ==
    /\ r.pc \in {"create", "solve", "solving", "clear", "clearing", "reloading",
                 "legacy_solving"} => r.tab \in Tabs
    /\ r.pc \in {"solve", "solving"} =>
          /\ r.slot \in Slots /\ r.op \in {"token", "submit", "session"}
          /\ r.op = "token" => r.at \in {"first", "rebuilt", "last"}
          /\ r.op = "session" => r.at \in {"session", "reread"}
    /\ r.pc \in {"clear", "clearing"} => r.slot \in Slots /\ r.op = "error" /\ r.at = "heal"
    /\ r.pc = "reloading" =>
          /\ r.slot \in Slots
          /\ (r.op = "session" /\ r.at = "session") \/ (r.op = "error" /\ r.at = "heal")
    /\ r.pc \in {"legacy", "legacy_open", "legacy_solving"} => r.at = "legacy"

Shape(r) == OpFits(r) /\ PhaseFits(r) /\ SlotFits(r) /\ TabFits(r)

\* The slot that a request may still rebuild; a restart empties the pool first.
Wants(r) == IF r.phase = "none" \/ (r.phase = "bare" /\ r.pc # "shut") THEN r.slot ELSE None

Wanted == {Wants(req[c]) : c \in Callers} \ {None}

\* The request c builds with the lock in hand, on a page that no slot has.
BuildFits(c) ==
    /\ req[c].pc \in Building <=> build = c
    /\ req[c].pc = "create" =>
          /\ \A s \in Pooled : pool[s][1] # req[c].tab[1]
          /\ req[c].new # None => Occupied < scene.max

WantedFits == Cardinality(Pooled \cup Wanted) < scene.max + Cardinality(Callers)

Inv ==
    /\ TypeOK /\ StrikesArePooled /\ PagesDistinct /\ WantedFits
    /\ \A c \in Callers : Shape(req[c]) /\ BuildFits(c)

\* What a step does: it keeps the invariant, and no build fills the pool past its limit.
Kept ==
    /\ Inv'
    /\ \A c \in Callers :
          req[c].pc = "create" /\ req[c].new # None /\ pool' # pool => Occupied' <= scene.max

Bounds == calls \in Nat /\ upsets \in Nat

-----------------------------------------------------------------------------
(***************************************************************************)
(* Where requests go.                                                      *)
(***************************************************************************)
RecoverPoints ==
    {"start", "cold", "again", "rebuild", "first", "rebuilt", "session", "prepare", "reread",
     "legacy", "strike"}

\* The request r goes on without the build lock, and wants no slot but those of S.
Goes(r, S) ==
    r \in Requests /\ Shape(r) /\ r.pc \notin Building /\ Wants(r) \in S \cup {None}

\* The request r may ask for a recovery, or is in one.
Recovers(r) ==
    /\ r \in Requests /\ Belongs(r.op, r.at) /\ r.op \in Running /\ r.at \in RecoverPoints
    /\ r.at \in {"first", "session"} => r.slot \in Slots
    /\ r.at = "legacy" => r.slot = None
    /\ r.new = None

LEMMA IdleGoes ==
    ASSUME NEW S
    PROVE  Goes(Idle, S) /\ Idle.pc = "idle" /\ Idle.slot = None /\ Idle.new = None /\
           Idle.phase = "none" /\ Idle \in Requests
<1>1. Idle \in Requests
  <2>1. (CHOOSE p \in Projects : TRUE) \in Projects
    BY CallersAssumption
  <2> QED BY <2>1 DEF Idle, Requests, Operations, Pcs, Points, Phases
<1>2. /\ Idle.pc = "idle" /\ Idle.slot = None /\ Idle.new = None /\ Idle.phase = "none"
      /\ Idle.op = "none" /\ Idle.at = "none"
  BY DEF Idle
<1> HIDE DEF Idle
<1> QED BY <1>1, <1>2
    DEF Goes, Shape, OpFits, Belongs, Running, PhaseFits, SlotFits, TabFits, Wants, Building

LEMMA ToLegacyGoes ==
    ASSUME NEW S, NEW r \in Requests, r.op = "token", r.phase = "none"
    PROVE  Goes(ToLegacy(r), S)
<1> DEFINE q == ToLegacy(r)
<1>1. /\ q \in Requests /\ q.pc = "legacy" /\ q.at = "legacy" /\ q.slot = None /\ q.new = None
      /\ q.phase = "none" /\ q.op = "token"
  BY DEF ToLegacy, Requests, Pcs, Points
<1> HIDE DEF q
<1>2. Goes(q, S)
  BY <1>1 DEF Goes, Shape, OpFits, Belongs, Running, PhaseFits, SlotFits, TabFits, Wants, Building
<1> QED BY <1>2 DEF q

LEMMA RecoverGoes ==
    ASSUME NEW S, NEW r \in Requests, NEW at \in RecoverPoints, r.phase = "none", r.new = None,
           r.op \in Running, Belongs(r.op, at),
           at \in {"first", "session"} => r.slot \in Slots,
           at = "legacy" => r.slot = None,
           r.slot \in S \cup {None}
    PROVE  Goes(Recover(r, at), S)
<1> DEFINE q == Recover(r, at)
<1>1. /\ q \in Requests /\ q.pc = "recover" /\ q.at = at /\ q.slot = r.slot /\ q.new = None
      /\ q.phase = "none" /\ q.op = r.op
  <2>1. at \in Points
    BY DEF Points, RecoverPoints
  <2> QED BY <2>1 DEF Recover, Requests, Pcs
<1> HIDE DEF q
<1>2. OpFits(q)
  BY <1>1 DEF OpFits
<1>3. Goes(q, S)
  BY <1>1, <1>2 DEF Goes, Shape, PhaseFits, SlotFits, TabFits, Wants, Building, RecoverPoints
<1> QED BY <1>3 DEF q

LEMMA RebuildGoes ==
    ASSUME NEW S, NEW r \in Requests, NEW at \in RebuildPoints, r.phase = "none", r.new = None,
           r.op \in Running, Belongs(r.op, at),
           at # "heal" => r.slot \in Slots,
           r.slot \in S \cup {None}
    PROVE  Goes(Rebuild(r, at), S)
<1> DEFINE q == Rebuild(r, at)
<1>1. /\ q \in Requests /\ q.pc = "rebuild" /\ q.at = at /\ q.slot = r.slot /\ q.new = None
      /\ q.phase = "none" /\ q.op = r.op
  <2>1. at \in Points
    BY DEF Points, RebuildPoints
  <2> QED BY <2>1 DEF Rebuild, Requests, Pcs
<1> HIDE DEF q
<1>2. OpFits(q)
  BY <1>1 DEF OpFits
<1>3. Goes(q, S)
  BY <1>1, <1>2 DEF Goes, Shape, PhaseFits, SlotFits, TabFits, Wants, Building, RebuildPoints
<1> QED BY <1>3 DEF q

LEMMA UseGoes ==
    ASSUME NEW S, NEW r \in Requests, NEW s \in Slots, NEW t \in Tabs, NEW at \in Points,
           r.phase = "none", s \in S, r.op \in {"token", "submit", "session"},
           r.op = "token" => at \in {"first", "rebuilt", "last"},
           r.op = "submit" => at = "submit",
           r.op = "session" => at \in {"session", "reread"}
    PROVE  Goes(Use(r, s, t, at), S)
<1> DEFINE q == Use(r, s, t, at)
<1>1. /\ q \in Requests /\ q.pc \in {"solve", "solving", "reloading"} /\ q.at = at
      /\ q.slot = s /\ q.tab = t /\ q.new = None /\ q.phase = "none" /\ q.op = r.op
      /\ q.pc = "reloading" => r.op = "session" /\ at = "session"
  <2> DEFINE pc == IF Busy(t) THEN "solve"
                   ELSE IF r.op = "session" /\ at = "session" THEN "reloading" ELSE "solving"
  <2>1. /\ pc \in {"solve", "solving", "reloading"}
        /\ pc = "reloading" => r.op = "session" /\ at = "session"
    OBVIOUS
  <2>2. q = [r EXCEPT !.pc = pc, !.slot = s, !.tab = t, !.new = None, !.at = at, !.gone = FALSE]
    BY DEF Use
  <2> HIDE DEF pc, q
  <2>3. q \in Requests
    BY <2>1, <2>2 DEF Requests, Pcs
  <2> QED BY <2>1, <2>2, <2>3 DEF Requests
<1> HIDE DEF q
<1>2. OpFits(q)
  BY <1>1 DEF OpFits, Belongs, Running
<1>3. Goes(q, S)
  BY <1>1, <1>2, NoneAssumption
  DEF Goes, Shape, PhaseFits, SlotFits, TabFits, Wants, Building
<1> QED BY <1>3 DEF q

LEMMA GotGoes ==
    ASSUME NEW S, NEW r \in Requests, NEW s \in Slots, NEW t \in Tabs, NEW warm \in BOOLEAN,
           r.phase = "none", r.at \in EnsurePoints, Belongs(r.op, r.at), r.op \in Running,
           s \in S
    PROVE  Goes(Got(r, s, t, warm), S)
<1> DEFINE z == [r EXCEPT !.slot = s, !.new = None]
<1>1. z \in Requests /\ z.phase = "none" /\ z.slot = s /\ z.new = None /\ z.op = r.op
  BY DEF Requests
<1>2. r.op \in {"token", "submit", "session"}
  BY DEF Belongs, EnsurePoints, Running
<1>3. CASE ~warm /\ r.at = "start"
  <2>1. Got(r, s, t, warm) = Rebuild(z, "cold")
    <3>1. r.op # "submit"
      BY <1>3 DEF Belongs
    <3> QED BY <1>3, <3>1 DEF Got
  <2>2. Belongs(z.op, "cold") /\ "cold" \in RebuildPoints
    BY <1>1, <1>2, <1>3 DEF Belongs, RebuildPoints
  <2> HIDE DEF z
  <2> QED BY <1>1, <1>2, <2>1, <2>2, RebuildGoes DEF Running
<1>4. CASE ~warm /\ r.op = "submit"
  <2>1. r.at = "submit"
    BY <1>4 DEF Belongs
  <2>2. Got(r, s, t, warm) = Rebuild(z, "submit")
    BY <1>4, <2>1 DEF Got
  <2>3. Belongs(z.op, "submit") /\ "submit" \in RebuildPoints
    BY <1>1, <1>4 DEF Belongs, RebuildPoints
  <2> HIDE DEF z
  <2> QED BY <1>1, <1>2, <2>2, <2>3, RebuildGoes DEF Running
<1>5. CASE ~warm /\ r.op = "token" /\ r.at # "start"
  <2>1. Got(r, s, t, warm) = ToLegacy(r)
    BY <1>5 DEF Got
  <2> QED BY <1>5, <2>1, ToLegacyGoes
<1>6. CASE warm \/ (r.at # "start" /\ r.op = "session")
  <2>1. Got(r, s, t, warm) = Use(r, s, t, SolveAfter(r.at))
    BY <1>6 DEF Got
  <2>2. /\ SolveAfter(r.at) \in Points
        /\ r.op = "token" => SolveAfter(r.at) \in {"first", "rebuilt", "last"}
        /\ r.op = "submit" => SolveAfter(r.at) = "submit"
        /\ r.op = "session" => SolveAfter(r.at) \in {"session", "reread"}
    BY <1>2 DEF SolveAfter, Belongs, EnsurePoints, Points
  <2> QED BY <1>2, <2>1, <2>2, UseGoes
<1> QED BY <1>2, <1>3, <1>4, <1>5, <1>6

LEMMA MissedGoes ==
    ASSUME NEW S, NEW r \in Requests, r.phase = "none", r.at \in EnsurePoints,
           Belongs(r.op, r.at), r.op \in Running, r.slot = None, r.new = None
    PROVE  Goes(Missed(r), S)
<1>1. r.op \in {"token", "submit", "session"}
  BY DEF Belongs, EnsurePoints, Running
<1>2. CASE Probes(r) /\ ~Probe
  <2>1. PICK at \in {"start", "again", "prepare"} :
           Missed(r) = Recover(r, at) /\ Belongs(r.op, at)
    BY <1>2 DEF Missed, Probes, Belongs
  <2>2. at \in RecoverPoints /\ at # "first" /\ at # "session" /\ at # "legacy"
    BY <2>1 DEF RecoverPoints
  <2> QED BY <2>1, <2>2, RecoverGoes
<1>3. CASE ~(Probes(r) /\ ~Probe) /\ r.op = "token"
  BY <1>3, ToLegacyGoes DEF Missed
<1>4. CASE ~(Probes(r) /\ ~Probe) /\ r.op # "token"
  BY <1>4, IdleGoes DEF Missed
<1> QED BY <1>2, <1>3, <1>4

LEMMA RebuildFailedGoes ==
    ASSUME NEW S, NEW r \in Requests, r.phase = "none", r.at \in RebuildPoints,
           Belongs(r.op, r.at), r.op \in Running, r.new = None, r.slot \in S \cup {None}
    PROVE  Goes(RebuildFailed(r), S)
<1>1. CASE r.at \in {"cold", "rebuild"}
  <2>1. RebuildFailed(r) = Recover(r, r.at)
    BY <1>1 DEF RebuildFailed
  <2>2. r.at \in RecoverPoints /\ r.at # "first" /\ r.at # "session" /\ r.at # "legacy"
    BY <1>1 DEF RecoverPoints
  <2> QED BY <2>1, <2>2, RecoverGoes
<1>2. CASE r.at \notin {"cold", "rebuild"}
  BY <1>2, IdleGoes DEF RebuildFailed
<1> QED BY <1>1, <1>2

LEMMA RestartGoes ==
    ASSUME NEW S, NEW r, Recovers(r), Occupied \in Nat, scene \in Scenes
    PROVE  Goes(Restart(r), S)
<1> DEFINE q == Restart(r)
           left == IF Occupied = 0 THEN 1
                   ELSE IF Occupied < scene.max THEN Occupied ELSE scene.max
<1>1. left \in Nat /\ left >= 1
  <2>1. scene.max \in Nat /\ scene.max >= 1
    BY ScenesAssumption
  <2> HIDE DEF Occupied
  <2> QED BY <2>1
<1>2. q = [r EXCEPT !.pc = "shut", !.phase = "restart", !.tab = None, !.new = None,
                    !.warmed = FALSE, !.left = left]
  BY DEF Restart
<1> HIDE DEF left, q
<1>3. r \in Requests
  BY DEF Recovers
<1>4. q \in Requests
  BY <1>1, <1>2, <1>3 DEF Requests, Pcs, Phases
<1>5. /\ q.pc = "shut" /\ q.phase = "restart" /\ q.new = None /\ q.left >= 1
      /\ q.op = r.op /\ q.at = r.at /\ q.slot = r.slot
  BY <1>1, <1>2, <1>3 DEF Requests
<1>6. /\ Belongs(r.op, r.at) /\ r.op \in Running /\ r.at \in RecoverPoints
      /\ r.at \in {"first", "session"} => r.slot \in Slots
      /\ r.at = "legacy" => r.slot = None
  BY DEF Recovers
<1>7. Goes(q, S)
  BY <1>4, <1>5, <1>6
  DEF Goes, Shape, OpFits, PhaseFits, SlotFits, TabFits, Wants, Building, RecoverPoints
<1> QED BY <1>7 DEF q

LEMMA RestartFailedGoes ==
    ASSUME NEW S, NEW r, Recovers(r)
    PROVE  Goes(RestartFailed(r), S)
<1> DEFINE q == [r EXCEPT !.pc = "shut", !.phase = "bare", !.left = 0, !.warmed = FALSE]
<1>1. CASE r.at = "strike"
  BY <1>1, IdleGoes DEF RestartFailed
<1>2. CASE r.at # "strike"
  <2>1. RestartFailed(r) = q
    BY <1>2 DEF RestartFailed
  <2>2. r \in Requests
    BY DEF Recovers
  <2>3. q \in Requests
    BY <2>2 DEF Requests, Pcs, Phases
  <2>4. /\ q.pc = "shut" /\ q.phase = "bare" /\ q.new = r.new
        /\ q.op = r.op /\ q.at = r.at /\ q.slot = r.slot
    BY <2>2 DEF Requests
  <2>5. /\ Belongs(r.op, r.at) /\ r.op \in Running /\ r.at \in RecoverPoints
        /\ r.at \in {"first", "session"} => r.slot \in Slots
        /\ r.at = "legacy" => r.slot = None
        /\ r.new = None
    BY DEF Recovers
  <2> HIDE DEF q
  <2>6. Goes(q, S)
    BY <2>3, <2>4, <2>5
    DEF Goes, Shape, OpFits, PhaseFits, SlotFits, TabFits, Wants, Building, RecoverPoints
  <2> QED BY <2>1, <2>6
<1> QED BY <1>1, <1>2

LEMMA SearchesAgain ==
    ASSUME NEW r \in Requests, NEW retried \in BOOLEAN
    PROVE  [r EXCEPT !.pc = "ensure", !.retried = retried, !.slot = None] \in Requests
BY DEF Requests, Pcs

\* Whatever the call that asked for a recovery, it knows where to go on.
LEMMA RecoveredGoes ==
    ASSUME NEW S, NEW r0, Recovers(r0), NEW ok \in BOOLEAN, ~ok => r0.slot \in S \cup {None}
    PROVE  Goes(Recovered(r0, ok), S)
<1> DEFINE r == [r0 EXCEPT !.phase = "none", !.left = 0, !.warmed = FALSE]
           again == [r EXCEPT !.pc = "ensure", !.retried = (r.at = "start"), !.slot = None]
           restart == [r EXCEPT !.pc = "initialize", !.at = "session", !.retried = TRUE,
                                !.slot = None]
           q == Recovered(r0, ok)
<1> SUFFICES Goes(q, S)
  OBVIOUS
<1>1. /\ r0 \in Requests /\ Belongs(r0.op, r0.at) /\ r0.op \in Running /\ r0.at \in RecoverPoints
      /\ r0.at \in {"first", "session"} => r0.slot \in Slots
      /\ r0.at = "legacy" => r0.slot = None
      /\ r0.new = None
  BY DEF Recovers
<1>2. /\ r \in Requests /\ r.phase = "none" /\ r.op = r0.op /\ r.at = r0.at
      /\ r.slot = r0.slot /\ r.new = None
  <2>1. r \in Requests
    BY <1>1 DEF Requests, Phases
  <2> QED BY <1>1, <2>1 DEF Requests
<1>3. q = CASE r.at = "strike" -> Idle
            [] r.at = "legacy" -> [r EXCEPT !.pc = "legacy_open", !.retried = TRUE]
            [] r.at = "prepare" -> restart
            [] r.at \in {"session", "reread"} /\ ok -> restart
            [] r.at = "session" /\ ~ok -> Rebuild(r, "reread")
            [] r.at = "reread" /\ ~ok -> Idle
            [] r.at = "first" /\ ~ok -> Rebuild(r, "rebuild")
            [] r.at = "rebuild" /\ ~ok -> Recover(r, "again")
            [] r.at \in {"start", "cold", "again", "rebuilt"} /\ ~ok -> ToLegacy(r)
            [] OTHER -> again
  BY DEF Recovered
<1> HIDE DEF r
<1>4. Goes(again, S) \/ r.at \notin {"start", "cold", "again", "rebuilt", "first", "rebuild"}
  <2> SUFFICES ASSUME r.at \in {"start", "cold", "again", "rebuilt", "first", "rebuild"}
               PROVE  Goes(again, S)
    OBVIOUS
  <2>1. (r.at = "start") \in BOOLEAN
    OBVIOUS
  <2>2. again \in Requests
    <3>1. r \in Requests
      BY <1>2
    <3> QED BY <2>1, <3>1, SearchesAgain
  <2>3. /\ again.pc = "ensure" /\ again.slot = None /\ again.phase = "none" /\ again.new = None
        /\ again.op = r.op /\ again.at = r.at
    BY <1>2 DEF Requests
  <2>4. r.op = "token"
    BY <1>1, <1>2 DEF Belongs, Running
  <2> HIDE DEF again
  <2> QED BY <2>2, <2>3, <2>4
      DEF Goes, Shape, OpFits, Belongs, Running, PhaseFits, SlotFits, TabFits, Wants, Building,
          EnsurePoints
<1>5. Goes(restart, S) \/ r.at \notin {"prepare", "session", "reread"}
  <2> SUFFICES ASSUME r.at \in {"prepare", "session", "reread"}
               PROVE  Goes(restart, S)
    OBVIOUS
  <2>1. restart \in Requests
    <3>1. r \in Requests
      BY <1>2
    <3> QED BY <3>1 DEF Requests, Pcs, Points
  <2>2. /\ restart.pc = "initialize" /\ restart.slot = None /\ restart.phase = "none"
        /\ restart.new = None /\ restart.op = r.op /\ restart.at = "session"
    BY <1>2 DEF Requests
  <2>3. r.op = "session"
    BY <1>1, <1>2 DEF Belongs, Running
  <2> HIDE DEF restart
  <2> QED BY <2>1, <2>2, <2>3
      DEF Goes, Shape, OpFits, Belongs, Running, PhaseFits, SlotFits, TabFits, Wants, Building
<1> HIDE DEF again, restart, q
<1>6. CASE r.at = "strike"
  BY <1>3, <1>6, IdleGoes
<1>7. CASE r.at = "legacy"
  <2> DEFINE z == [r EXCEPT !.pc = "legacy_open", !.retried = TRUE]
  <2>1. q = z
    BY <1>3, <1>7
  <2>2. z \in Requests
    BY <1>2 DEF Requests, Pcs
  <2>3. /\ z.pc = "legacy_open" /\ z.slot = None /\ z.phase = "none" /\ z.new = None
        /\ z.op = r.op /\ z.at = "legacy"
    BY <1>1, <1>2, <1>7 DEF Requests
  <2>4. r.op = "token"
    BY <1>1, <1>2, <1>7 DEF Belongs, Running
  <2> HIDE DEF z
  <2>5. Goes(z, S)
    BY <2>2, <2>3, <2>4
    DEF Goes, Shape, OpFits, Belongs, Running, PhaseFits, SlotFits, TabFits, Wants, Building
  <2> QED BY <2>1, <2>5
<1>8. CASE r.at \in {"prepare", "session", "reread"} /\ (ok \/ r.at = "prepare")
  <2>1. q = restart
    BY <1>3, <1>8
  <2> QED BY <1>5, <1>8, <2>1
<1>9. CASE r.at = "session" /\ ~ok
  <2>1. q = Rebuild(r, "reread")
    BY <1>3, <1>9
  <2>2. Belongs(r.op, "reread") /\ "reread" \in RebuildPoints /\ r.slot \in Slots
    BY <1>1, <1>2, <1>9 DEF Belongs, Running, RebuildPoints
  <2> QED BY <1>1, <1>2, <1>9, <2>1, <2>2, RebuildGoes
<1>10. CASE r.at = "reread" /\ ~ok
  BY <1>3, <1>10, IdleGoes
<1>11. CASE r.at = "first" /\ ~ok
  <2>1. q = Rebuild(r, "rebuild")
    BY <1>3, <1>11
  <2>2. Belongs(r.op, "rebuild") /\ "rebuild" \in RebuildPoints /\ r.slot \in Slots
    BY <1>1, <1>2, <1>11 DEF Belongs, Running, RebuildPoints
  <2> QED BY <1>1, <1>2, <1>11, <2>1, <2>2, RebuildGoes
<1>12. CASE r.at = "rebuild" /\ ~ok
  <2>1. q = Recover(r, "again")
    BY <1>3, <1>12
  <2>2. Belongs(r.op, "again") /\ "again" \in RecoverPoints
    BY <1>1, <1>2, <1>12 DEF Belongs, Running, RecoverPoints
  <2> QED BY <1>1, <1>2, <1>12, <2>1, <2>2, RecoverGoes
<1>13. CASE r.at \in {"start", "cold", "again", "rebuilt"} /\ ~ok
  <2>1. q = ToLegacy(r)
    BY <1>3, <1>13
  <2>2. r.op = "token"
    BY <1>1, <1>2, <1>13 DEF Belongs, Running
  <2> QED BY <1>2, <2>1, <2>2, ToLegacyGoes
<1>14. CASE r.at \in {"start", "cold", "again", "rebuilt", "first", "rebuild"} /\ ok
  <2>1. q = again
    BY <1>3, <1>14
  <2> QED BY <1>4, <1>14, <2>1
<1> QED
  BY <1>1, <1>2, <1>6, <1>7, <1>8, <1>9, <1>10, <1>11, <1>12, <1>13, <1>14 DEF RecoverPoints

\* A request that recovers knows what it recovers for.
LEMMA InRecovery ==
    ASSUME NEW r \in Requests, Shape(r), r.pc # "idle", r.new = None,
           r.pc = "recover" \/ r.phase # "none"
    PROVE  Recovers(r)
BY DEF Recovers, Shape, OpFits, PhaseFits, SlotFits, RecoverPoints

LEMMA InitializedGoes ==
    ASSUME NEW S, NEW r \in Requests, Shape(r), r.pc \in {"initialize", "launch"}
    PROVE  Goes(Initialized(r), S)
<1>1. /\ Belongs(r.op, r.at) /\ r.op \in Running /\ r.phase \in {"none", "restart", "bare"}
      /\ r.new = None /\ (r.at = "legacy" => r.slot = None)
      /\ r.phase = "none" =>
            r.slot = None /\ r.at \in {"start", "submit", "session", "legacy"}
      /\ r.phase = "restart" => r.left >= 1
  BY DEF Shape, OpFits, PhaseFits, SlotFits
<1>2. CASE r.phase = "bare"
  <2>1. Recovers(r)
    BY <1>1, <1>2, InRecovery
  <2> QED BY <1>2, <2>1, RecoveredGoes DEF Initialized
<1>3. CASE r.at = "legacy" /\ r.phase = "none"
  <2> DEFINE z == [r EXCEPT !.pc = "legacy_open"]
  <2>1. Initialized(r) = z
    BY <1>3 DEF Initialized
  <2>2. z \in Requests
    BY DEF Requests, Pcs
  <2>3. /\ z.pc = "legacy_open" /\ z.slot = None /\ z.phase = "none" /\ z.new = None
        /\ z.op = r.op /\ z.at = "legacy"
    BY <1>1, <1>3 DEF Requests
  <2> HIDE DEF z
  <2>4. Goes(z, S)
    BY <1>1, <1>3, <2>2, <2>3
    DEF Goes, Shape, OpFits, PhaseFits, SlotFits, TabFits, Wants, Building
  <2> QED BY <2>1, <2>4
<1>4. CASE r.phase # "bare" /\ (r.at # "legacy" \/ r.phase # "none")
  <2> DEFINE z == [r EXCEPT !.pc = "ensure"]
  <2>1. Initialized(r) = z
    BY <1>4 DEF Initialized
  <2>2. z \in Requests
    BY DEF Requests, Pcs
  <2>3. /\ z.pc = "ensure" /\ z.slot = r.slot /\ z.phase = r.phase /\ z.new = None
        /\ z.op = r.op /\ z.at = r.at /\ z.left = r.left
    BY <1>1 DEF Requests
  <2>4. r.phase # "none" => Recovers(r)
    BY <1>1, InRecovery
  <2>5. /\ r.phase # "none" => /\ r.at \in RecoverPoints
                               /\ r.at \in {"first", "session"} => r.slot \in Slots
        /\ r.phase = "none" => r.at \in EnsurePoints
    BY <1>1, <1>4, <2>4 DEF Recovers, EnsurePoints
  <2> HIDE DEF z
  <2>6. Goes(z, S)
    BY <1>1, <1>4, <2>2, <2>3, <2>5
    DEF Goes, Shape, OpFits, PhaseFits, SlotFits, TabFits, Wants, Building, RecoverPoints
  <2> QED BY <2>1, <2>6
<1> QED BY <1>2, <1>3, <1>4

-----------------------------------------------------------------------------
(***************************************************************************)
(* What steps do to the pool.                                              *)
(***************************************************************************)
LEMMA Names ==
    /\ \A s \in Slots : s # None
    /\ \A t \in Tabs : t # None /\ t[1] \in Pages
    /\ \A c \in Callers : c # None
BY NoneAssumption DEF Tabs

\* No more values than arguments.
LEMMA ImageBound ==
    ASSUME NEW C, IsFiniteSet(C), NEW S, NEW f, \A y \in S : \E x \in C : y = f[x]
    PROVE  IsFiniteSet(S) /\ Cardinality(S) <= Cardinality(C)
<1> DEFINE image == {f[x] : x \in C}
           g == [x \in C |-> f[x]]
<1>1. g \in Surjection(C, image)
  BY DEF Surjection
<1>2. IsFiniteSet(image) /\ Cardinality(image) <= Cardinality(C)
  BY <1>1, FS_Surjection
<1>3. S \in SUBSET image
  OBVIOUS
<1> HIDE DEF image
<1>4. IsFiniteSet(S) /\ Cardinality(S) <= Cardinality(image)
  BY <1>2, <1>3, FS_Subset
<1> QED BY <1>2, <1>4, FS_CardinalityType

LEMMA PoolFinite ==
    /\ IsFiniteSet(Pooled) /\ Occupied \in Nat
    /\ IsFiniteSet(Wanted)
    /\ IsFiniteSet(Pooled \cup Wanted) /\ Cardinality(Pooled \cup Wanted) \in Nat
    /\ Cardinality(Callers) \in Nat
<1>1. IsFiniteSet(Pooled)
  BY SlotsAssumption, FS_Subset DEF Pooled
<1>3. IsFiniteSet(Wanted)
  <2> DEFINE f == [c \in Callers |-> Wants(req[c])]
  <2>1. \A y \in Wanted : \E c \in Callers : y = f[c]
    BY DEF Wanted
  <2> HIDE DEF f
  <2> QED BY <2>1, CallersAssumption, ImageBound
<1>4. IsFiniteSet(Pooled \cup Wanted)
  BY <1>1, <1>3, FS_Union
<1> QED BY <1>1, <1>3, <1>4, FS_CardinalityType, CallersAssumption DEF Occupied

\* Slots leave the pool, or none does.
LEMMA Shrinks ==
    ASSUME Inv, TypeOK', StrikesArePooled', scene' = scene,
           \A s \in Slots : pool'[s] = pool[s] \/ pool'[s] = None,
           \A c \in Callers : Shape(req'[c]) /\ (req'[c].pc \in Building <=> build' = c),
           \A c \in Callers :
              req'[c].pc = "create" =>
                 /\ \A s \in Pooled : pool[s][1] # req'[c].tab[1]
                 /\ req'[c].new # None => Occupied < scene.max,
           \/ \A s \in Slots : pool'[s] = None
           \/ \A c \in Callers : Wants(req'[c]) \in Pooled \cup Wanted \cup {None}
    PROVE  Kept
<1>1. \A s \in Pooled' : s \in Pooled /\ pool'[s] = pool[s]
  BY DEF Pooled
<1>2. Occupied' \in Nat /\ Occupied' <= Occupied /\ Occupied \in Nat
  <2>1. Pooled' \in SUBSET Pooled
    BY <1>1
  <2>2. Occupied' = Cardinality(Pooled') /\ Occupied = Cardinality(Pooled)
    BY DEF Occupied
  <2> QED BY <2>1, <2>2, PoolFinite, FS_Subset, FS_CardinalityType
<1>3. scene.max \in Nat \ {0}
  BY ScenesAssumption DEF Inv, TypeOK
<1>4. PagesDistinct'
  <2>1. PagesDistinct
    BY DEF Inv
  <2> QED BY <1>1, <2>1 DEF PagesDistinct
<1>5. WantedFits'
  <2> DEFINE f == [c \in Callers |-> Wants(req'[c])]
  <2>1. \A y \in Wanted' : \E c \in Callers : y = Wants(req'[c]) /\ y # None
    BY DEF Wanted, Wants
  <2>2. CASE \A s \in Slots : pool'[s] = None
    <3>1. Pooled' = {}
      BY <2>2 DEF Pooled
    <3>2. Cardinality(Wanted') <= Cardinality(Callers) /\ IsFiniteSet(Wanted')
      <4>1. \A y \in Wanted' : \E c \in Callers : y = f[c]
        BY <2>1
      <4> HIDE DEF f
      <4> QED BY <4>1, CallersAssumption, ImageBound
    <3>3. (Pooled \cup Wanted)' = Wanted'
      BY <3>1
    <3>4. Cardinality(Wanted') \in Nat
      BY <3>2, FS_CardinalityType
    <3>5. Cardinality(Wanted') < scene'.max + Cardinality(Callers)
      BY <1>3, <3>2, <3>4, PoolFinite
    <3> QED BY <3>3, <3>5 DEF WantedFits
  <2>3. CASE \A c \in Callers : Wants(req'[c]) \in Pooled \cup Wanted \cup {None}
    <3>1. (Pooled \cup Wanted)' \in SUBSET (Pooled \cup Wanted)
      BY <1>1, <2>1, <2>3
    <3>2. Cardinality((Pooled \cup Wanted)') <= Cardinality(Pooled \cup Wanted)
      BY <3>1, PoolFinite, FS_Subset
    <3>3. Cardinality((Pooled \cup Wanted)') \in Nat
      BY <3>1, PoolFinite, FS_Subset, FS_CardinalityType
    <3>4. WantedFits
      BY DEF Inv
    <3> QED BY <1>3, <3>2, <3>3, <3>4, PoolFinite DEF WantedFits
  <2> QED BY <2>2, <2>3
<1>6. \A c \in Callers : (Shape(req[c]) /\ BuildFits(c))'
  <2> SUFFICES ASSUME NEW c \in Callers PROVE Shape(req[c])' /\ BuildFits(c)'
    OBVIOUS
  <2>1. Shape(req[c])'
    BY DEF Shape, OpFits, PhaseFits, SlotFits, TabFits
  <2>2. BuildFits(c)'
    BY <1>1, <1>2, <1>3 DEF BuildFits
  <2> QED BY <2>1, <2>2
<1>7. Inv'
  BY <1>4, <1>5, <1>6 DEF Inv
<1>8. ASSUME NEW c \in Callers, req[c].pc = "create", req[c].new # None
      PROVE  Occupied' <= scene'.max
  <2>1. Occupied < scene.max
    BY <1>8 DEF Inv, BuildFits
  <2> QED BY <1>2, <1>3, <2>1
<1> QED BY <1>7, <1>8 DEF Kept

LEMMA CallerFits ==
    ASSUME Inv, NEW c \in Callers
    PROVE  /\ req[c] \in Requests /\ Shape(req[c]) /\ BuildFits(c)
           /\ req \in [Callers -> Requests]
BY DEF Inv, TypeOK

\* A step of the browser, the reaper or the operator.
LEMMA Stays ==
    ASSUME Inv, TypeOK', StrikesArePooled', scene' = scene,
           \A s \in Slots : pool'[s] = pool[s] \/ pool'[s] = None,
           req' = req, build' = build
    PROVE  Kept
<1>1. \A c \in Callers : Shape(req'[c]) /\ (req'[c].pc \in Building <=> build' = c)
  BY CallerFits DEF BuildFits
<1>2. \A c \in Callers :
         req'[c].pc = "create" =>
            /\ \A s \in Pooled : pool[s][1] # req'[c].tab[1]
            /\ req'[c].new # None => Occupied < scene.max
  BY CallerFits DEF BuildFits
<1>3. \A c \in Callers : Wants(req'[c]) \in Pooled \cup Wanted \cup {None}
  BY DEF Wanted
<1> QED BY <1>1, <1>2, <1>3, Shrinks

\* A step of the request c.
LEMMA Moves ==
    ASSUME Inv, NEW c \in Callers, NEW q, Put(c, q), q \in Requests, Shape(q),
           TypeOK', StrikesArePooled', scene' = scene,
           \A s \in Slots : pool'[s] = pool[s] \/ pool'[s] = None,
           \A d \in Callers : d # c => (build' = d <=> build = d),
           q.pc \in Building <=> build' = c,
           q.pc = "create" =>
              /\ \A s \in Pooled : pool[s][1] # q.tab[1]
              /\ q.new # None => Occupied < scene.max,
           \/ \A s \in Slots : pool'[s] = None
           \/ Wants(q) \in Pooled \cup {Wants(req[c]), None}
    PROVE  Kept
<1>1. \A d \in Callers : req'[d] = IF d = c THEN q ELSE req[d]
  BY CallerFits DEF Put
<1>2. \A d \in Callers : Shape(req'[d]) /\ (req'[d].pc \in Building <=> build' = d)
  BY <1>1, CallerFits DEF BuildFits
<1>3. \A d \in Callers :
         req'[d].pc = "create" =>
            /\ \A s \in Pooled : pool[s][1] # req'[d].tab[1]
            /\ req'[d].new # None => Occupied < scene.max
  BY <1>1, CallerFits DEF BuildFits
<1>4. ASSUME Wants(q) \in Pooled \cup {Wants(req[c]), None}, NEW d \in Callers
      PROVE  Wants(req'[d]) \in Pooled \cup Wanted \cup {None}
  <2>1. \A e \in Callers : Wants(req[e]) \in Wanted \cup {None}
    BY DEF Wanted
  <2>2. Wants(q) \in Pooled \cup Wanted \cup {None}
    BY <1>4, <2>1
  <2>3. req'[d] = q \/ req'[d] = req[d]
    BY <1>1
  <2> QED BY <2>1, <2>2, <2>3
<1> QED BY <1>2, <1>3, <1>4, Shrinks

\* The step most requests make: the pool is kept, and the build lock too unless the request
\* gives it back.
LEMMA GoesOn ==
    ASSUME Inv, NEW c \in Callers, NEW q, Put(c, q),
           Goes(q, Pooled \cup {Wants(req[c])}),
           TypeOK', StrikesArePooled', scene' = scene, pool' = pool,
           build' = (IF build = c THEN None ELSE build)
    PROVE  Kept
<1>1. c # None /\ \A d \in Callers : d # None
  BY Names
<1>2. q \in Requests /\ Shape(q) /\ q.pc \notin Building
  BY DEF Goes
<1>3. Wants(q) \in Pooled \cup {Wants(req[c]), None}
  BY DEF Goes
<1>4. q.pc # "create" /\ build' # c /\ \A d \in Callers : d # c => (build' = d <=> build = d)
  BY <1>1, <1>2 DEF Building
<1> QED BY <1>2, <1>3, <1>4, Moves

\* A tab joins the pool: a build was checked against the limit, a rebuild was wanted.
LEMMA Joins ==
    ASSUME Inv, NEW c \in Callers, NEW q, NEW s \in Slots,
           req[c].pc = "create",
           IF req[c].new # None THEN s = req[c].new ELSE s = req[c].slot,
           pool' = [pool EXCEPT ![s] = req[c].tab], build' = None, scene' = scene,
           Put(c, q), Goes(q, {s}), TypeOK', StrikesArePooled'
    PROVE  Kept
<1>1. \A d \in Callers : req'[d] = IF d = c THEN q ELSE req[d]
  BY CallerFits DEF Put
<1>2. /\ req[c].tab \in Tabs /\ req[c].tab # None
      /\ build = c /\ (\A d \in Callers : d # c => req[d].pc \notin Building)
      /\ \A z \in Pooled : pool[z][1] # req[c].tab[1]
      /\ req[c].new # None => Occupied < scene.max
      /\ req[c].new = None => req[c].phase = "none"
  BY CallerFits, Names DEF Shape, TabFits, SlotFits, BuildFits, Building
<1>3. /\ Pooled' = Pooled \cup {s}
      /\ \A z \in Slots : pool'[z] = IF z = s THEN req[c].tab ELSE pool[z]
  BY <1>2 DEF Pooled, Inv, TypeOK
<1>4. q \in Requests /\ Shape(q) /\ q.pc \notin Building /\ Wants(q) \in {s, None}
  BY DEF Goes
<1>5. scene.max \in Nat \ {0}
  BY ScenesAssumption DEF Inv, TypeOK
<1>6. IsFiniteSet(Pooled') /\ Occupied' \in Nat /\ Occupied \in Nat /\ Occupied' <= Occupied + 1
  <2>1. Occupied' = Cardinality(Pooled') /\ Occupied = Cardinality(Pooled)
    BY DEF Occupied
  <2>2. IsFiniteSet(Pooled) /\ Cardinality(Pooled) \in Nat
    BY <2>1, PoolFinite
  <2>3. /\ IsFiniteSet(Pooled \cup {s})
        /\ Cardinality(Pooled \cup {s})
              = IF s \in Pooled THEN Cardinality(Pooled) ELSE Cardinality(Pooled) + 1
    BY <2>2, FS_AddElement
  <2>4. /\ IsFiniteSet(Pooled')
        /\ Cardinality(Pooled') \in {Cardinality(Pooled), Cardinality(Pooled) + 1}
    BY <1>3, <2>3
  <2> QED BY <2>1, <2>2, <2>4
<1>7. req[c].new # None => Occupied' <= scene.max
  BY <1>2, <1>5, <1>6
<1>8. PagesDistinct'
  <2>1. PagesDistinct
    BY DEF Inv
  <2>2. \A z \in Pooled' : z \in Pooled \/ z = s
    BY <1>3
  <2>3. \A z \in Pooled' : z \in Slots
    BY DEF Pooled
  <2> QED BY <1>2, <1>3, <2>1, <2>2, <2>3 DEF PagesDistinct
<1>9. WantedFits'
  <2>1. CASE req[c].new = None
    <3>1. s = Wants(req[c]) /\ s # None
      BY <1>2, <2>1, Names DEF Wants
    <3>2. s \in Wanted
      BY <3>1 DEF Wanted
    <3>3. \A y \in Wanted' : y = s \/ y \in Wanted
      <4>1. \A y \in Wanted' : y # None /\ \E d \in Callers : y = Wants(req'[d])
        BY DEF Wanted, Wants
      <4>2. ASSUME NEW d \in Callers PROVE Wants(req'[d]) \in {s, None} \cup Wanted
        <5>1. req'[d] = q \/ req'[d] = req[d]
          BY <1>1
        <5> QED BY <1>4, <5>1 DEF Wanted
      <4> QED BY <4>1, <4>2
    <3>4. (Pooled \cup Wanted)' \in SUBSET (Pooled \cup Wanted)
      BY <1>3, <3>2, <3>3
    <3>5. Cardinality((Pooled \cup Wanted)') <= Cardinality(Pooled \cup Wanted)
      BY <3>4, PoolFinite, FS_Subset
    <3>6. Cardinality((Pooled \cup Wanted)') \in Nat
      BY <3>4, PoolFinite, FS_Subset, FS_CardinalityType
    <3>7. WantedFits
      BY DEF Inv
    <3> QED BY <1>5, <3>5, <3>6, <3>7, PoolFinite DEF WantedFits
  <2>2. CASE req[c].new # None
    <3> DEFINE C == Callers \ {c}
               f == [d \in C |-> Wants(req[d])]
               others == {Wants(req[d]) : d \in C}
    <3>1. IsFiniteSet(C) /\ Cardinality(C) = Cardinality(Callers) - 1
      BY CallersAssumption, FS_RemoveElement
    <3>2. \A y \in others : \E d \in C : y = f[d]
      OBVIOUS
    <3>3. \A d \in C : Wants(req[d]) \in others
      OBVIOUS
    <3>4. (Pooled \cup Wanted)' \subseteq Pooled' \cup others
      <4>1. \A y \in Wanted' : y # None /\ \E d \in Callers : y = Wants(req'[d])
        BY DEF Wanted, Wants
      <4>2. ASSUME NEW d \in Callers PROVE Wants(req'[d]) \in {s, None} \cup others
        <5>1. (d = c /\ req'[d] = q) \/ (d \in C /\ req'[d] = req[d])
          BY <1>1
        <5> QED BY <1>4, <3>3, <5>1
      <4>3. s \in Pooled'
        BY <1>3
      <4> HIDE DEF others
      <4> QED BY <4>1, <4>2, <4>3
    <3>5. IsFiniteSet(others) /\ Cardinality(others) <= Cardinality(C)
      <4> HIDE DEF f, others, C
      <4> QED BY <3>1, <3>2, ImageBound
    <3> HIDE DEF others, f, C
    <3>6. /\ IsFiniteSet(Pooled' \cup others)
          /\ Cardinality(Pooled' \cup others)
                = Cardinality(Pooled') + Cardinality(others) - Cardinality(Pooled' \cap others)
      BY <1>6, <3>5, FS_Union
    <3>7. Cardinality(Pooled' \cap others) \in Nat /\ Cardinality(others) \in Nat
      BY <1>6, <3>5, FS_Intersection, FS_CardinalityType
    <3>8. Cardinality((Pooled \cup Wanted)') <= Cardinality(Pooled' \cup others)
      BY <3>4, <3>6, FS_Subset
    <3>9. Cardinality((Pooled \cup Wanted)') \in Nat
      BY <3>4, <3>6, FS_Subset, FS_CardinalityType
    <3>10. Occupied' = Cardinality(Pooled') /\ Cardinality(Callers) \in Nat
      BY PoolFinite DEF Occupied
    <3>11. Cardinality((Pooled \cup Wanted)') < scene.max + Cardinality(Callers)
      BY <1>5, <1>6, <1>7, <2>2, <3>1, <3>5, <3>6, <3>7, <3>8, <3>9, <3>10
    <3> QED BY <3>11 DEF WantedFits
  <2> QED BY <2>1, <2>2
<1>10. ASSUME NEW d \in Callers PROVE (Shape(req[d]) /\ BuildFits(d))'
  <2>1. Shape(req'[d])
    BY <1>1, <1>4, CallerFits
  <2>2. req'[d].pc \notin Building /\ d # None
    BY <1>1, <1>2, <1>4, Names
  <2>3. Shape(req[d])'
    BY <2>1 DEF Shape, OpFits, PhaseFits, SlotFits, TabFits
  <2>4. BuildFits(d)'
    BY <2>2 DEF BuildFits, Building
  <2> QED BY <2>3, <2>4
<1>11. Inv'
  BY <1>8, <1>9, <1>10 DEF Inv
<1>12. ASSUME NEW d \in Callers, req[d].pc = "create", req[d].new # None
       PROVE  Occupied' <= scene'.max
  <2>1. d = c
    BY <1>2, <1>12 DEF Building
  <2> QED BY <1>7, <1>12, <2>1
<1> QED BY <1>11, <1>12 DEF Kept

-----------------------------------------------------------------------------
(***************************************************************************)
(* What _ensure_resident_tab returns to.                                   *)
(***************************************************************************)
Searching(r) == r.pc \in {"ensure", "queue"} \/ (r.pc = "create" /\ r.new # None)

LEMMA SearchFits ==
    ASSUME Inv, NEW c \in Callers, Searching(req[c])
    PROVE  LET r == req[c] IN
           /\ r \in Requests /\ Belongs(r.op, r.at) /\ r.op \in Running
           /\ r.phase \in {"none", "restart", "restored", "reuse"}
           /\ r.phase = "none" => r.slot = None /\ r.at \in EnsurePoints
           /\ r.phase # "none" => /\ r.at \in RecoverPoints
                                  /\ r.at \in {"first", "session"} => r.slot \in Slots
           /\ r.at = "legacy" => r.slot = None
           /\ r.phase = "restart" => r.left >= 1
           /\ r.left \in Nat
<1> DEFINE r == req[c]
<1>1. r \in Requests /\ Shape(r) /\ Searching(r)
  BY CallerFits
<1> HIDE DEF r
<1>2. /\ Belongs(r.op, r.at) /\ r.op \in Running
      /\ r.phase # "bare" /\ (r.phase = "restart" => r.left >= 1)
      /\ r.phase # "none" => /\ r.at \in RecoverPoints
                             /\ r.at \in {"first", "session"} => r.slot \in Slots
  BY <1>1 DEF Shape, OpFits, PhaseFits, Searching, RecoverPoints
<1>3. /\ r.phase = "none" => r.slot = None /\ r.at \in EnsurePoints
      /\ r.at = "legacy" => r.slot = None
  BY <1>1 DEF Shape, SlotFits, Searching
<1>4. r.phase \in Phases /\ r.left \in Nat
  BY <1>1 DEF Requests
<1> QED BY <1>1, <1>2, <1>3, <1>4 DEF Phases, r

LEMMA GivesGoes ==
    ASSUME Inv, NEW c \in Callers, Searching(req[c]), NEW s \in Slots, NEW t \in Tabs,
           NEW rd \in SUBSET Tabs, Gives(c, s, t, rd)
    PROVE  /\ \E q : Put(c, q) /\ Goes(q, {s})
           /\ ready' \in SUBSET Tabs /\ recent' \in BOOLEAN
           /\ affinity' \in [Projects -> Slots \cup {None}]
           /\ strikes' \in [Slots -> 0..RestartAt]
           /\ \A z \in Slots : strikes'[z] = strikes[z] \/ strikes'[z] = 0
<1> DEFINE r == req[c]
<1>1. /\ r \in Requests /\ Belongs(r.op, r.at) /\ r.op \in Running
      /\ r.phase \in {"none", "restart", "restored", "reuse"}
      /\ r.phase = "none" => r.slot = None /\ r.at \in EnsurePoints
      /\ r.phase # "none" => /\ r.at \in RecoverPoints
                             /\ r.at \in {"first", "session"} => r.slot \in Slots
      /\ r.at = "legacy" => r.slot = None
      /\ r.phase = "restart" => r.left >= 1
      /\ r.left \in Nat
  BY SearchFits
<1>2. /\ recent \in BOOLEAN /\ affinity \in [Projects -> Slots \cup {None}]
      /\ strikes \in [Slots -> 0..RestartAt] /\ 0 \in 0..RestartAt
  BY ThresholdsAssumption DEF Inv, TypeOK
<1>3. CASE r.phase = "none"
  <2>1. Put(c, Got(r, s, t, t \in rd)) /\ ready' \in {rd, rd \ {t}}
        /\ UNCHANGED <<recent, affinity, strikes>>
    BY <1>3 DEF Gives
  <2>2. (t \in rd) \in BOOLEAN /\ s \in {s}
    OBVIOUS
  <2> HIDE DEF r
  <2>3. Goes(Got(r, s, t, t \in rd), {s})
    BY <1>1, <1>3, <2>2, GotGoes
  <2> QED BY <1>2, <2>1, <2>3
<1>4. CASE r.phase = "restart"
  <2> DEFINE phase == IF r.left = 1 THEN "restored" ELSE "restart"
             left == r.left - 1
             q == [r EXCEPT !.pc = "ensure", !.left = left, !.warmed = TRUE, !.new = None,
                            !.tab = None, !.phase = phase]
  <2>1. Put(c, q) /\ ready' = rd /\ UNCHANGED <<recent, affinity, strikes>>
    BY <1>4 DEF Gives
  <2>2. left \in Nat /\ (phase = "restart" => left >= 1) /\ phase \in {"restored", "restart"}
    BY <1>1, <1>4
  <2> HIDE DEF r, left, phase
  <2>3. q \in Requests
    <3>1. r \in Requests /\ phase \in Phases
      BY <1>1, <2>2 DEF Phases
    <3> QED BY <2>2, <3>1 DEF Requests, Pcs
  <2>4. /\ q.pc = "ensure" /\ q.phase = phase /\ q.new = None /\ q.left = left
        /\ q.op = r.op /\ q.at = r.at /\ q.slot = r.slot
    <3>1. r \in Requests
      BY <1>1
    <3> QED BY <3>1 DEF Requests
  <2> HIDE DEF q
  <2>5. Goes(q, {s})
    BY <1>1, <1>4, <2>2, <2>3, <2>4
    DEF Goes, Shape, OpFits, PhaseFits, SlotFits, TabFits, Wants, Building, RecoverPoints
  <2> QED BY <1>2, <2>1, <2>5
<1>5. CASE r.phase \in {"restored", "reuse"}
  <2> DEFINE z == [r EXCEPT !.new = None, !.tab = None]
  <2>1. /\ Put(c, Recovered(z, TRUE)) /\ ready' = rd
        /\ affinity' = [affinity EXCEPT ![r.project] = s]
        /\ strikes' = [strikes EXCEPT ![s] = 0]
        /\ recent' = (recent \/ r.phase = "restored")
    BY <1>5 DEF Gives
  <2>2. Recovers(z)
    <3>1. r \in Requests
      BY <1>1
    <3>2. z \in Requests
      BY <3>1 DEF Requests
    <3>3. z.new = None /\ z.op = r.op /\ z.at = r.at /\ z.slot = r.slot
      BY <3>1 DEF Requests
    <3> HIDE DEF z, r
    <3> QED BY <1>1, <1>5, <3>2, <3>3 DEF Recovers
  <2> HIDE DEF z
  <2>3. Goes(Recovered(z, TRUE), {s})
    BY <2>2, RecoveredGoes
  <2>4. recent' \in BOOLEAN
    BY <1>2, <2>1
  <2>5. affinity' \in [Projects -> Slots \cup {None}] /\ strikes' \in [Slots -> 0..RestartAt]
    BY <1>2, <2>1
  <2>6. \A x \in Slots : strikes'[x] = strikes[x] \/ strikes'[x] = 0
    BY <1>2, <2>1
  <2> QED BY <2>1, <2>3, <2>4, <2>5, <2>6
<1> QED BY <1>1, <1>3, <1>4, <1>5

LEMMA GivesNoneGoes ==
    ASSUME Inv, NEW c \in Callers, Searching(req[c]), GivesNone(c)
    PROVE  /\ \E q : Put(c, q) /\ Goes(q, {})
           /\ healthy' \in BOOLEAN /\ UNCHANGED <<recent, affinity, strikes, ready>>
<1> DEFINE k == req[c]
           r == [k EXCEPT !.new = None, !.tab = None]
<1>1. /\ k \in Requests /\ Belongs(k.op, k.at) /\ k.op \in Running
      /\ k.phase \in {"none", "restart", "restored", "reuse"}
      /\ k.phase = "none" => k.slot = None /\ k.at \in EnsurePoints
      /\ k.phase # "none" => /\ k.at \in RecoverPoints
                             /\ k.at \in {"first", "session"} => k.slot \in Slots
      /\ k.at = "legacy" => k.slot = None
      /\ k.phase = "restart" => k.left >= 1
      /\ k.left \in Nat
  BY SearchFits
<1>2. /\ healthy' = IF r.phase = "none" /\ Probes(r) THEN Probe ELSE healthy
      /\ UNCHANGED <<recent, affinity, strikes, ready>>
      /\ Put(c, CASE r.phase = "none" -> Missed(r)
                [] r.phase = "restart" /\ r.left > 1 -> [r EXCEPT !.pc = "ensure", !.left = @ - 1]
                [] r.phase = "restart" /\ r.left <= 1 /\ r.warmed ->
                      [r EXCEPT !.pc = "ensure", !.left = 0, !.phase = "restored"]
                [] r.phase = "restart" /\ r.left <= 1 /\ ~r.warmed -> RestartFailed(r)
                [] r.phase = "restored" -> RestartFailed(r)
                [] r.phase = "reuse" -> Restart(r))
  BY DEF GivesNone
<1>3. healthy' \in BOOLEAN
  <2>1. healthy \in BOOLEAN /\ Probe \in BOOLEAN
    BY DEF Inv, TypeOK, Probe, Fresh, Alive
  <2> QED BY <1>2, <2>1
<1>4. /\ r \in Requests /\ r.new = None /\ r.op = k.op /\ r.at = k.at /\ r.slot = k.slot
      /\ r.phase = k.phase /\ r.left = k.left /\ r.warmed \in BOOLEAN
  <2>1. k \in Requests
    BY <1>1
  <2>2. r \in Requests
    BY <2>1 DEF Requests
  <2> HIDE DEF k
  <2> QED BY <2>1, <2>2 DEF Requests
<1> HIDE DEF r, k
<1>5. r.phase # "none" => Recovers(r)
  BY <1>1, <1>4 DEF Recovers
<1>6. CASE r.phase = "none"
  <2>1. Put(c, Missed(r))
    BY <1>2, <1>6
  <2>2. Goes(Missed(r), {})
    BY <1>1, <1>4, <1>6, MissedGoes
  <2> QED BY <1>2, <1>3, <2>1, <2>2
<1>7. CASE r.phase = "restart" /\ r.left > 1
  <2> DEFINE q == [r EXCEPT !.pc = "ensure", !.left = @ - 1]
  <2>1. Put(c, q)
    <3>1. ~(r.left <= 1)
      BY <1>1, <1>4, <1>7
    <3> QED BY <1>2, <1>7, <3>1
  <2>2. r \in Requests /\ r.left - 1 \in Nat /\ r.left - 1 >= 1
    BY <1>1, <1>4, <1>7
  <2>3. q \in Requests
    BY <2>2 DEF Requests, Pcs
  <2>4. /\ q.pc = "ensure" /\ q.phase = "restart" /\ q.new = None /\ q.left = r.left - 1
        /\ q.op = r.op /\ q.at = r.at /\ q.slot = r.slot
    BY <1>4, <1>7, <2>2 DEF Requests
  <2> HIDE DEF q
  <2>5. Goes(q, {})
    BY <1>1, <1>4, <1>7, <2>2, <2>3, <2>4
    DEF Goes, Shape, OpFits, PhaseFits, SlotFits, TabFits, Wants, Building, RecoverPoints
  <2> QED BY <1>2, <1>3, <2>1, <2>5
<1>8. CASE r.phase = "restart" /\ r.left <= 1 /\ r.warmed
  <2> DEFINE q == [r EXCEPT !.pc = "ensure", !.left = 0, !.phase = "restored"]
  <2>1. Put(c, q)
    <3>1. ~(r.left > 1)
      BY <1>1, <1>4, <1>8
    <3> QED BY <1>2, <1>8, <3>1
  <2>2. r \in Requests
    BY <1>4
  <2>3. q \in Requests
    BY <2>2 DEF Requests, Pcs, Phases
  <2>4. /\ q.pc = "ensure" /\ q.phase = "restored" /\ q.new = None
        /\ q.op = r.op /\ q.at = r.at /\ q.slot = r.slot
    BY <1>4, <2>2 DEF Requests
  <2> HIDE DEF q
  <2>5. Goes(q, {})
    BY <1>1, <1>4, <1>8, <2>3, <2>4
    DEF Goes, Shape, OpFits, PhaseFits, SlotFits, TabFits, Wants, Building, RecoverPoints
  <2> QED BY <1>2, <1>3, <2>1, <2>5
<1>9. CASE (r.phase = "restart" /\ r.left <= 1 /\ ~r.warmed) \/ r.phase = "restored"
  <2>1. Put(c, RestartFailed(r))
    <3>1. r.left <= 1 => ~(r.left > 1)
      BY <1>1, <1>4
    <3> QED BY <1>2, <1>9, <3>1
  <2>2. Goes(RestartFailed(r), {})
    BY <1>5, <1>9, RestartFailedGoes
  <2> QED BY <1>2, <1>3, <2>1, <2>2
<1>10. CASE r.phase = "reuse"
  <2>1. Put(c, Restart(r))
    BY <1>2, <1>10
  <2>2. Goes(Restart(r), {})
    BY <1>5, <1>10, RestartGoes, PoolFinite DEF Inv, TypeOK
  <2> QED BY <1>2, <1>3, <2>1, <2>2
<1>11. r.left > 1 \/ r.left <= 1
  BY <1>1, <1>4
<1> QED BY <1>1, <1>4, <1>6, <1>7, <1>8, <1>9, <1>10, <1>11

-----------------------------------------------------------------------------
(***************************************************************************)
(* The steps of a request, from its start to the browser it needs.         *)
(***************************************************************************)
\* What a step that leaves the pool and its record alone has to show.
LEMMA Continues ==
    ASSUME Inv, Bounds', NEW c \in Callers, NEW q, Put(c, q),
           Goes(q, Pooled \cup {Wants(req[c])}),
           UNCHANGED <<scene, pool, doomed>>, build' = (IF build = c THEN None ELSE build),
           browser' \in {"none", "up", "dead"}, healthy' \in BOOLEAN, recent' \in BOOLEAN,
           open' \subseteq Pages, closing' \subseteq Pages, ready' \subseteq Tabs,
           affinity' \in [Projects -> Slots \cup {None}],
           strikes' \in [Slots -> 0..RestartAt],
           \A s \in Slots : strikes'[s] = strikes[s] \/ strikes'[s] = 0
    PROVE  Kept
<1>1. q \in Requests /\ req' \in [Callers -> Requests]
  BY CallerFits DEF Put, Goes
<1>2. build' \in Callers \cup {None}
  BY DEF Inv, TypeOK
<1>3. TypeOK'
  BY <1>1, <1>2 DEF Inv, TypeOK, Bounds
<1>4. StrikesArePooled'
  BY DEF Inv, TypeOK, StrikesArePooled
<1> QED BY <1>3, <1>4, GoesOn

LEMMA NotBuilding ==
    ASSUME Inv, NEW c \in Callers, req[c].pc \notin Building
    PROVE  build = (IF build = c THEN None ELSE build)
BY CallerFits DEF BuildFits

LEMMA BeginUseKept ==
    ASSUME Inv, Bounds', NEW c \in Callers, BeginUse(c)
    PROVE  Kept
<1> DEFINE at(op) == IF op = "token" THEN "start" ELSE op
<1>1. PICK p \in Projects, op \in {"token", "submit", "session"} :
         Put(c, [Idle EXCEPT !.op = op, !.project = p, !.pc = "initialize", !.at = at(op)])
  BY DEF BeginUse
<1> DEFINE q == [Idle EXCEPT !.op = op, !.project = p, !.pc = "initialize", !.at = at(op)]
<1>2. at(op) \in Points
  BY DEF Points
<1>3. Idle \in Requests /\ Idle.slot = None /\ Idle.new = None /\ Idle.phase = "none"
  BY IdleGoes
<1>4. q \in Requests
  BY <1>2, <1>3 DEF Requests, Pcs, Operations
<1>5. /\ q.op = op /\ q.pc = "initialize" /\ q.at = at(op) /\ q.slot = None /\ q.new = None
      /\ q.phase = "none"
  BY <1>3 DEF Requests
<1>6. Put(c, q)
  BY <1>1
<1> HIDE DEF q
<1>7. Goes(q, Pooled \cup {Wants(req[c])})
  BY <1>4, <1>5
  DEF Goes, Shape, OpFits, Belongs, Running, PhaseFits, SlotFits, TabFits, Wants, Building
<1>8. build' = (IF build = c THEN None ELSE build)
  BY NotBuilding DEF BeginUse, Building
<1>9. UNCHANGED <<scene, browser, healthy, recent, open, closing, pool, ready, affinity,
                  strikes, doomed>>
  BY DEF BeginUse, PoolKept
<1> QED BY <1>6, <1>7, <1>8, <1>9, Continues DEF Inv, TypeOK

LEMMA InitializeKept ==
    ASSUME Inv, Bounds', NEW c \in Callers, Initialize(c)
    PROVE  Kept
<1>1. /\ req[c].pc = "initialize" /\ healthy' = TRUE
      /\ recent' = (recent \/ req[c].phase = "bare")
      /\ Put(c, Initialized(req[c]))
      /\ UNCHANGED <<scene, browser, open, closing, pool, ready, affinity, strikes, doomed,
                     build>>
  BY DEF Initialize, PoolKept
<1>2. Goes(Initialized(req[c]), Pooled \cup {Wants(req[c])})
  BY <1>1, CallerFits, InitializedGoes
<1>3. build' = (IF build = c THEN None ELSE build)
  BY <1>1, NotBuilding DEF Building
<1>4. recent' \in BOOLEAN
  BY <1>1 DEF Inv, TypeOK
<1> QED BY <1>1, <1>2, <1>3, <1>4, Continues DEF Inv, TypeOK

LEMMA LaunchedKept ==
    ASSUME Inv, Bounds', NEW c \in Callers, Launched(c)
    PROVE  Kept
<1>1. /\ req[c].pc = "launch" /\ healthy' = TRUE /\ browser' = "up"
      /\ recent' = (recent \/ req[c].phase = "bare")
      /\ Put(c, Initialized(req[c]))
      /\ UNCHANGED <<scene, open, closing, pool, ready, affinity, strikes, doomed, build>>
  BY DEF Launched
<1>2. Goes(Initialized(req[c]), Pooled \cup {Wants(req[c])})
  BY <1>1, CallerFits, InitializedGoes
<1>3. build' = (IF build = c THEN None ELSE build)
  BY <1>1, NotBuilding DEF Building
<1>4. recent' \in BOOLEAN
  BY <1>1 DEF Inv, TypeOK
<1> QED BY <1>1, <1>2, <1>3, <1>4, Continues DEF Inv, TypeOK

LEMMA LaunchFailsKept ==
    ASSUME Inv, Bounds', NEW c \in Callers, LaunchFails(c)
    PROVE  Kept
<1> DEFINE r == req[c]
           S == Pooled \cup {Wants(r)}
<1>1. /\ r.pc = "launch"
      /\ Put(c, CASE r.phase = "none" -> Idle
                  [] r.phase = "bare" -> Recovered(r, FALSE)
                  [] r.phase \notin {"none", "bare"} -> RestartFailed(r))
      /\ UNCHANGED <<scene, browser, healthy, recent, open, closing, pool, ready, affinity,
                     strikes, doomed, build>>
  BY DEF LaunchFails, PoolKept
<1>2. r \in Requests /\ Shape(r)
  BY CallerFits
<1>3. r.phase # "none" => Recovers(r)
  <2> HIDE DEF r
  <2>1. r.new = None
    BY <1>1, <1>2 DEF Shape, SlotFits
  <2> QED BY <1>1, <1>2, <2>1, InRecovery
<1>4. r.phase = "bare" => r.slot \in S \cup {None}
  <2>1. r.phase = "bare" => Wants(r) = r.slot
    BY <1>1 DEF Wants
  <2> QED BY <2>1
<1>5. PICK q : Put(c, q) /\ Goes(q, S)
  <2> HIDE DEF r, S
  <2>1. CASE r.phase = "none"
    BY <1>1, <2>1, IdleGoes
  <2>2. CASE r.phase = "bare"
    BY <1>1, <1>3, <1>4, <2>2, RecoveredGoes
  <2>3. CASE r.phase \notin {"none", "bare"}
    BY <1>1, <1>3, <2>3, RestartFailedGoes
  <2> QED BY <2>1, <2>2, <2>3
<1>6. build' = (IF build = c THEN None ELSE build)
  BY <1>1, NotBuilding DEF Building
<1> QED BY <1>1, <1>5, <1>6, Continues DEF Inv, TypeOK

LEMMA EnterRecoverKept ==
    ASSUME Inv, Bounds', NEW c \in Callers, EnterRecover(c)
    PROVE  Kept
<1> DEFINE r == req[c]
           S == Pooled \cup {Wants(r)}
<1>1. /\ r.pc = "recover" /\ healthy' = Probe
      /\ Put(c, IF Probe THEN Recovered(r, TRUE) ELSE Restart(r))
      /\ UNCHANGED <<scene, browser, recent, open, closing, pool, ready, affinity,
                     strikes, doomed, build>>
  BY DEF EnterRecover, PoolKept
<1>2. r \in Requests /\ Shape(r)
  BY CallerFits
<1>3. Recovers(r)
  <2> HIDE DEF r
  <2>1. r.new = None
    BY <1>1, <1>2 DEF Shape, SlotFits
  <2> QED BY <1>1, <1>2, <2>1, InRecovery
<1>4. PICK q : Put(c, q) /\ Goes(q, S)
  <2>1. Goes(Recovered(r, TRUE), S) /\ Goes(Restart(r), S)
    <3> HIDE DEF r, S
    <3> QED BY <1>3, RecoveredGoes, RestartGoes, PoolFinite DEF Inv, TypeOK
  <2> HIDE DEF r, S
  <2> QED BY <1>1, <2>1
<1>5. build' = (IF build = c THEN None ELSE build)
  BY <1>1, NotBuilding DEF Building
<1>6. healthy' \in BOOLEAN
  BY <1>1 DEF Inv, TypeOK, Probe, Fresh, Alive
<1> QED BY <1>1, <1>4, <1>5, <1>6, Continues DEF Inv, TypeOK

LEMMA EnterStrikeKept ==
    ASSUME Inv, Bounds', NEW c \in Callers, EnterStrike(c)
    PROVE  Kept
<1> DEFINE r == req[c]
           S == Pooled \cup {Wants(r)}
           z == [r EXCEPT !.pc = "ensure", !.phase = "reuse"]
<1>1. /\ r.pc = "recover" /\ r.at = "strike"
      /\ Put(c, z) \/ Put(c, Restart(r))
      /\ healthy' = Probe \/ healthy' = healthy
      /\ UNCHANGED <<scene, browser, recent, open, closing, pool, ready, affinity,
                     strikes, doomed, build>>
  BY DEF EnterStrike, PoolKept
<1>2. r \in Requests /\ Shape(r)
  BY CallerFits
<1>3. Recovers(r)
  <2> HIDE DEF r
  <2>1. r.new = None
    BY <1>1, <1>2 DEF Shape, SlotFits
  <2> QED BY <1>1, <1>2, <2>1, InRecovery
<1>4. Goes(Restart(r), S)
  <2> HIDE DEF r, S
  <2> QED BY <1>3, RestartGoes, PoolFinite DEF Inv, TypeOK
<1>5. Goes(z, S)
  <2> HIDE DEF r, S
  <2>1. z \in Requests
    BY <1>2 DEF Requests, Pcs, Phases
  <2>2. /\ z.pc = "ensure" /\ z.phase = "reuse" /\ z.at = "strike" /\ z.op = r.op
        /\ z.new = r.new /\ z.slot = r.slot
    BY <1>1, <1>2 DEF Requests
  <2> HIDE DEF z
  <2> QED BY <1>1, <1>3, <2>1, <2>2
      DEF Goes, Recovers, Shape, OpFits, PhaseFits, SlotFits, TabFits, Wants, Building
<1>6. PICK q : Put(c, q) /\ Goes(q, S)
  BY <1>1, <1>4, <1>5
<1>7. build' = (IF build = c THEN None ELSE build)
  BY <1>1, NotBuilding DEF Building
<1>8. healthy' \in BOOLEAN
  BY <1>1 DEF Inv, TypeOK, Probe, Fresh, Alive
<1> QED BY <1>1, <1>6, <1>7, <1>8, Continues DEF Inv, TypeOK

\* A browser is given up, and the pool with it.
LEMMA Empties ==
    ASSUME Inv, Bounds', NEW c \in Callers, NEW q, Cleared, Put(c, q),
           q \in Requests, Shape(q), q.pc \notin Building, req[c].pc \notin Building
    PROVE  Kept
<1>1. /\ browser' = "none" /\ healthy' = FALSE /\ open' = {} /\ closing' = {}
      /\ pool' = [s \in Slots |-> None] /\ ready' = {}
      /\ affinity' = [p \in Projects |-> None] /\ strikes' = [s \in Slots |-> 0]
      /\ UNCHANGED <<scene, recent, doomed, build>>
  BY DEF Cleared
<1>2. req' \in [Callers -> Requests]
  BY CallerFits DEF Put
<1>3. TypeOK'
  <2>1. /\ pool' \in [Slots -> Tabs \cup {None}]
        /\ affinity' \in [Projects -> Slots \cup {None}]
    BY <1>1
  <2>2. strikes' \in [Slots -> 0..RestartAt]
    BY <1>1, ThresholdsAssumption
  <2> QED BY <1>1, <1>2, <2>1, <2>2 DEF Inv, TypeOK, Bounds
<1>4. StrikesArePooled'
  BY <1>1 DEF StrikesArePooled
<1>5. build # c /\ q.pc # "create"
  BY CallerFits DEF BuildFits, Building
<1> QED BY <1>1, <1>3, <1>4, <1>5, Moves

LEMMA LaunchKept ==
    ASSUME Inv, Bounds', NEW c \in Callers, Launch(c)
    PROVE  Kept
<1> DEFINE r == req[c]
           q == [r EXCEPT !.pc = "launch"]
<1>1. r.pc = "initialize" /\ Cleared /\ Put(c, q)
  BY DEF Launch
<1>2. r \in Requests /\ Shape(r)
  BY CallerFits
<1>3. r.pc \notin Building
  BY <1>1 DEF Building
<1>4. q \in Requests /\ Shape(q) /\ q.pc \notin Building
  <2> HIDE DEF r
  <2>1. q \in Requests
    BY <1>2 DEF Requests, Pcs
  <2>2. /\ q.pc = "launch" /\ q.phase = r.phase /\ q.at = r.at /\ q.op = r.op
        /\ q.new = r.new /\ q.slot = r.slot /\ q.left = r.left
    BY <1>2 DEF Requests
  <2> HIDE DEF q
  <2> QED BY <1>1, <1>2, <2>1, <2>2
      DEF Shape, OpFits, PhaseFits, SlotFits, TabFits, Building
<1> HIDE DEF q
<1> QED BY <1>1, <1>3, <1>4, Empties

LEMMA ShutKept ==
    ASSUME Inv, Bounds', NEW c \in Callers, Shut(c)
    PROVE  Kept
<1> DEFINE r == req[c]
           q == [r EXCEPT !.pc = "initialize"]
<1>1. r.pc = "shut" /\ Cleared /\ Put(c, q)
  BY DEF Shut
<1>2. r \in Requests /\ Shape(r)
  BY CallerFits
<1>3. r.pc \notin Building
  BY <1>1 DEF Building
<1>4. q \in Requests /\ Shape(q) /\ q.pc \notin Building
  <2> HIDE DEF r
  <2>1. q \in Requests
    BY <1>2 DEF Requests, Pcs
  <2>2. /\ q.pc = "initialize" /\ q.phase = r.phase /\ q.at = r.at /\ q.op = r.op
        /\ q.new = r.new /\ q.slot = r.slot /\ q.left = r.left
    BY <1>2 DEF Requests
  <2> HIDE DEF q
  <2> QED BY <1>1, <1>2, <2>1, <2>2
      DEF Shape, OpFits, PhaseFits, SlotFits, TabFits, Building
<1> HIDE DEF q
<1> QED BY <1>1, <1>3, <1>4, Empties

-----------------------------------------------------------------------------
(***************************************************************************)
(* Finding, building and rebuilding a tab.                                 *)
(***************************************************************************)
LEMMA Chosen ==
    ASSUME Inv, NEW s \in Preferred
    PROVE  s \in Pooled /\ s \in Slots /\ pool[s] \in Tabs
BY DEF Preferred, Pooled, Inv, TypeOK

\* A search that ends with a tab of the pool.
LEMMA FoundKept ==
    ASSUME Inv, Bounds', NEW c \in Callers, Searching(req[c]), NEW s \in Pooled,
           Gives(c, s, pool[s], ready),
           UNCHANGED <<scene, pool, doomed>>, build' = (IF build = c THEN None ELSE build),
           browser' = browser, healthy' \in BOOLEAN, open' \subseteq Pages, closing' = closing
    PROVE  Kept
<1>1. s \in Slots /\ pool[s] \in Tabs /\ ready \in SUBSET Tabs
  BY DEF Pooled, Inv, TypeOK
<1>2. /\ \E q : Put(c, q) /\ Goes(q, {s})
      /\ ready' \in SUBSET Tabs /\ recent' \in BOOLEAN
      /\ affinity' \in [Projects -> Slots \cup {None}]
      /\ strikes' \in [Slots -> 0..RestartAt]
      /\ \A z \in Slots : strikes'[z] = strikes[z] \/ strikes'[z] = 0
  BY <1>1, GivesGoes
<1>3. PICK q : Put(c, q) /\ Goes(q, {s})
  BY <1>2
<1>4. Goes(q, Pooled \cup {Wants(req[c])})
  BY <1>3 DEF Goes
<1> QED BY <1>2, <1>3, <1>4, Continues DEF Inv, TypeOK

\* A search that ends with none.
LEMMA NoneKept ==
    ASSUME Inv, Bounds', NEW c \in Callers, Searching(req[c]), GivesNone(c),
           UNCHANGED <<scene, pool, doomed>>, build' = (IF build = c THEN None ELSE build),
           browser' = browser, open' \subseteq Pages, closing' = closing
    PROVE  Kept
<1>1. /\ \E q : Put(c, q) /\ Goes(q, {})
      /\ healthy' \in BOOLEAN /\ UNCHANGED <<recent, affinity, strikes, ready>>
  BY GivesNoneGoes
<1>2. PICK q : Put(c, q) /\ Goes(q, {})
  BY <1>1
<1>3. Goes(q, Pooled \cup {Wants(req[c])})
  BY <1>2 DEF Goes
<1> QED BY <1>1, <1>2, <1>3, Continues DEF Inv, TypeOK

LEMMA FallBackKept ==
    ASSUME Inv, Bounds', NEW c \in Callers, Searching(req[c]), FallBack(c),
           UNCHANGED <<scene, pool, doomed>>, build' = (IF build = c THEN None ELSE build),
           browser' = browser, open' \subseteq Pages, closing' = closing
    PROVE  Kept
<1>1. CASE Pooled = {}
  BY <1>1, NoneKept DEF FallBack
<1>2. CASE Pooled # {}
  <2>1. PICK s \in Preferred : Gives(c, s, pool[s], ready) /\ healthy' = healthy
    BY <1>2 DEF FallBack
  <2>2. healthy' \in BOOLEAN
    BY <2>1 DEF Inv, TypeOK
  <2> QED BY <2>1, <2>2, Chosen, FoundKept
<1> QED BY <1>1, <1>2

LEMMA EnsureKept ==
    ASSUME Inv, Bounds', NEW c \in Callers, Ensure(c)
    PROVE  Kept
<1>1. PICK s \in IF Keeps(c) THEN {affinity[req[c].project]} ELSE Preferred :
         Gives(c, s, pool[s], ready)
  BY DEF Ensure
<1>2. s \in Pooled
  BY Chosen DEF Keeps
<1>3. /\ req[c].pc = "ensure"
      /\ UNCHANGED <<scene, browser, healthy, open, closing, pool, doomed, build>>
  BY DEF Ensure
<1>4. Searching(req[c]) /\ build' = (IF build = c THEN None ELSE build)
  BY <1>3, NotBuilding DEF Searching, Building
<1> QED BY <1>1, <1>2, <1>3, <1>4, FoundKept DEF Inv, TypeOK

LEMMA ReuseKept ==
    ASSUME Inv, Bounds', NEW c \in Callers, Reuse(c)
    PROVE  Kept
<1>1. PICK s \in Preferred : Gives(c, s, pool[s], ready)
  BY DEF Reuse
<1>2. s \in Pooled
  BY Chosen
<1>3. /\ req[c].pc = "queue"
      /\ UNCHANGED <<scene, browser, healthy, open, closing, pool, doomed, build>>
  BY DEF Reuse
<1>4. Searching(req[c]) /\ build' = (IF build = c THEN None ELSE build)
  BY <1>3, NotBuilding DEF Searching, Building
<1> QED BY <1>1, <1>2, <1>3, <1>4, FoundKept DEF Inv, TypeOK

LEMMA BuildsNothingKept ==
    ASSUME Inv, Bounds', NEW c \in Callers, BuildsNothing(c)
    PROVE  Kept
<1>1. /\ req[c].pc = "queue" /\ FallBack(c)
      /\ UNCHANGED <<scene, browser, open, closing, pool, doomed, build>>
  BY DEF BuildsNothing
<1>2. Searching(req[c]) /\ build' = (IF build = c THEN None ELSE build)
  BY <1>1, NotBuilding DEF Searching, Building
<1> QED BY <1>1, <1>2, FallBackKept DEF Inv, TypeOK

LEMMA EnsureQueuesKept ==
    ASSUME Inv, Bounds', NEW c \in Callers, EnsureQueues(c)
    PROVE  Kept
<1> DEFINE r == req[c]
           q == [r EXCEPT !.pc = "queue"]
<1>1. /\ r.pc = "ensure" /\ Put(c, q)
      /\ UNCHANGED <<scene, browser, healthy, recent, open, closing, pool, ready, affinity,
                     strikes, doomed, build>>
  BY DEF EnsureQueues, PoolKept
<1>2. r \in Requests /\ Shape(r)
  BY CallerFits
<1>3. build' = (IF build = c THEN None ELSE build)
  BY <1>1, NotBuilding DEF Building
<1>4. Goes(q, Pooled \cup {Wants(r)})
  <2> HIDE DEF r
  <2>1. q \in Requests
    BY <1>2 DEF Requests, Pcs
  <2>2. /\ q.pc = "queue" /\ q.phase = r.phase /\ q.at = r.at /\ q.op = r.op
        /\ q.new = r.new /\ q.slot = r.slot /\ q.left = r.left
    BY <1>2 DEF Requests
  <2> HIDE DEF q
  <2> QED BY <1>1, <1>2, <2>1, <2>2
      DEF Goes, Shape, OpFits, PhaseFits, SlotFits, TabFits, Building, Wants
<1> HIDE DEF q
<1> QED BY <1>1, <1>3, <1>4, Continues DEF Inv, TypeOK

\* A page that is claimed is no slot's.
LEMMA ClaimFits ==
    ASSUME Inv, NEW pages, NEW t \in Claims(pages)
    PROVE  t \in Tabs /\ \A s \in Pooled : pool[s][1] # t[1]
<1>1. t \in Tabs
  BY DEF Claims
<1>2. ASSUME NEW s \in Pooled, pool[s][1] = t[1] PROVE FALSE
  <2>1. pool[s] \in Tabs
    BY DEF Pooled, Inv, TypeOK
  <2>2. PICK w \in Wraps : pool[s] = <<t[1], w>>
    BY <1>2, <2>1 DEF Tabs
  <2>3. t[1] \notin {p \in pages : \A z \in Pooled : \A x \in Wraps : pool[z] # <<p, x>>}
    BY <2>2
  <2>4. t[1] \notin FreshPages
    BY <2>2 DEF FreshPages, UsedTabs
  <2> QED BY <2>3, <2>4 DEF Claims
<1> QED BY <1>1, <1>2

\* A request begins a tab, with the build lock in hand.
LEMMA ClaimKept ==
    ASSUME Inv, Bounds', NEW c \in Callers, NEW k \in Requests, NEW pages, pages \subseteq Pages,
           Claim(c, k, pages), build' = c, build \in {None, c},
           UNCHANGED <<scene, browser, healthy, recent, closing, pool, ready, affinity, strikes,
                       doomed>>,
           Shape(req[c]), req[c].pc \in {"queue", "retire"},
           k.op = req[c].op, k.at = req[c].at, k.phase = req[c].phase, k.slot = req[c].slot,
           k.left = req[c].left,
           IF req[c].pc = "queue" THEN k.new \in Slots /\ Occupied < scene.max ELSE k.new = None
    PROVE  Kept
<1>1. PICK t \in Claims(pages) :
         Put(c, [k EXCEPT !.pc = "create", !.tab = t]) /\ open' = pages \cup {t[1]}
  BY DEF Claim
<1> DEFINE q == [k EXCEPT !.pc = "create", !.tab = t]
           r == req[c]
<1>2. t \in Tabs /\ t[1] \in Pages /\ \A s \in Pooled : pool[s][1] # t[1]
  BY ClaimFits, Names
<1>3. q \in Requests
  BY <1>2 DEF Requests, Pcs
<1>4. /\ q.pc = "create" /\ q.tab = t /\ q.op = r.op /\ q.at = r.at /\ q.phase = r.phase
      /\ q.slot = r.slot /\ q.left = r.left /\ q.new = k.new
  BY DEF Requests
<1>5. Put(c, q) /\ Shape(r) /\ r.pc \in {"queue", "retire"}
  BY <1>1
<1> HIDE DEF q
<1>6. Shape(q) /\ Wants(q) = Wants(r)
  <2>1. IF r.pc = "queue" THEN k.new # None ELSE k.new = None
    BY Names
  <2> HIDE DEF r
  <2> QED BY <1>2, <1>4, <1>5, <2>1
      DEF Shape, OpFits, PhaseFits, SlotFits, TabFits, Wants, EnsurePoints
<1>7. req' \in [Callers -> Requests]
  BY <1>3, <1>5, CallerFits DEF Put
<1>8. TypeOK'
  BY <1>1, <1>2, <1>7 DEF Inv, TypeOK, Bounds
<1>9. StrikesArePooled'
  BY DEF Inv, StrikesArePooled
<1>10. /\ q.pc \in Building /\ \A d \in Callers : d # c => (build' = d <=> build = d)
       /\ q.new # None => Occupied < scene.max
  BY <1>4, <1>5, Names DEF Building
<1> QED BY <1>2, <1>3, <1>4, <1>5, <1>6, <1>8, <1>9, <1>10, Moves

LEMMA BuildKept ==
    ASSUME Inv, Bounds', NEW c \in Callers, Build(c)
    PROVE  Kept
<1>1. /\ req[c].pc = "queue" /\ build = None /\ build' = c /\ Occupied < scene.max
      /\ UNCHANGED <<scene, browser, healthy, recent, closing, pool, ready, affinity, strikes,
                     doomed>>
  BY DEF Build, Creates, HasRoom
<1>2. PICK s \in Slots : Claim(c, [req[c] EXCEPT !.new = s], open)
  BY DEF Build, FreshSlots
<1> DEFINE r == req[c]
           k == [r EXCEPT !.new = s]
<1>3. r \in Requests /\ Shape(r)
  BY CallerFits
<1>4. /\ k \in Requests /\ k.new = s /\ k.op = r.op /\ k.at = r.at /\ k.phase = r.phase
      /\ k.slot = r.slot /\ k.left = r.left
  <2> HIDE DEF r
  <2>1. k \in Requests
    BY <1>3 DEF Requests
  <2> QED BY <1>3, <2>1 DEF Requests
<1>5. Claim(c, k, open)
  BY <1>2
<1>6. open \subseteq Pages
  BY DEF Inv, TypeOK
<1> HIDE DEF k
<1> QED BY <1>1, <1>3, <1>4, <1>5, <1>6, ClaimKept

LEMMA RetireKept ==
    ASSUME Inv, Bounds', NEW c \in Callers, NEW stays \in BOOLEAN, Retire(c, stays)
    PROVE  Kept
<1> DEFINE r == req[c]
           pages == IF stays \/ r.tab = None THEN open ELSE open \ {r.tab[1]}
<1>1. /\ r.pc = "retire"
      /\ IF browser = "none"
         THEN Put(c, RebuildFailed(r)) /\ open' = pages /\ build' = None
         ELSE Claim(c, r, pages) /\ UNCHANGED build
      /\ UNCHANGED <<scene, browser, healthy, recent, closing, pool, ready, affinity, strikes,
                     doomed>>
  BY DEF Retire
<1>2. r \in Requests /\ Shape(r) /\ build = c
  BY <1>1, CallerFits DEF BuildFits, Building
<1>3. pages \subseteq Pages
  BY DEF Inv, TypeOK
<1>4. /\ Belongs(r.op, r.at) /\ r.op \in Running /\ r.phase = "none" /\ r.new = None
      /\ r.at \in RebuildPoints /\ Wants(r) = r.slot
  BY <1>1, <1>2 DEF Shape, OpFits, PhaseFits, SlotFits, Wants
<1>5. CASE browser = "none"
  <2>1. Goes(RebuildFailed(r), Pooled \cup {Wants(r)})
    <3> HIDE DEF r
    <3> QED BY <1>2, <1>4, RebuildFailedGoes
  <2>2. build' = (IF build = c THEN None ELSE build) /\ Put(c, RebuildFailed(r))
    BY <1>1, <1>2, <1>5
  <2>3. open' \subseteq Pages
    BY <1>1, <1>3, <1>5
  <2> QED BY <1>1, <2>1, <2>2, <2>3, Continues DEF Inv, TypeOK
<1>6. CASE browser # "none"
  <2> HIDE DEF pages
  <2>1. Claim(c, r, pages) /\ build' = c
    BY <1>1, <1>2, <1>6
  <2> QED BY <1>1, <1>2, <1>3, <1>4, <2>1, ClaimKept
<1> QED BY <1>5, <1>6

\* A slot leaves the pool, with all that is on record about it.
LEMMA PopFits ==
    ASSUME Inv, NEW s \in Slots, Pop(s)
    PROVE  /\ \A z \in Slots : pool'[z] = pool[z] \/ pool'[z] = None
           /\ Pooled = {} => \A z \in Slots : pool'[z] = None
           /\ pool' \in [Slots -> Tabs \cup {None}] /\ ready' \subseteq Tabs
           /\ affinity' \in [Projects -> Slots \cup {None}]
           /\ strikes' \in [Slots -> 0..RestartAt]
           /\ StrikesArePooled'
<1>1. /\ pool \in [Slots -> Tabs \cup {None}] /\ ready \subseteq Tabs
      /\ affinity \in [Projects -> Slots \cup {None}] /\ strikes \in [Slots -> 0..RestartAt]
      /\ StrikesArePooled /\ 0 \in 0..RestartAt
  BY ThresholdsAssumption DEF Inv, TypeOK
<1>2. /\ pool' = [pool EXCEPT ![s] = None] /\ ready' = ready \ {pool[s]}
      /\ affinity' = [p \in Projects |-> IF affinity[p] = s THEN None ELSE affinity[p]]
      /\ strikes' = [strikes EXCEPT ![s] = 0]
  BY DEF Pop, Forgotten
<1>3. pool' \in [Slots -> Tabs \cup {None}] /\ ready' \subseteq Tabs
  BY <1>1, <1>2
<1>4. affinity' \in [Projects -> Slots \cup {None}]
  BY <1>1, <1>2
<1>5. strikes' \in [Slots -> 0..RestartAt]
  BY <1>1, <1>2
<1>6. StrikesArePooled'
  BY <1>1, <1>2 DEF StrikesArePooled
<1>7. /\ \A z \in Slots : pool'[z] = pool[z] \/ pool'[z] = None
      /\ Pooled = {} => \A z \in Slots : pool'[z] = None
  BY <1>1, <1>2 DEF Pooled
<1> QED BY <1>3, <1>4, <1>5, <1>6, <1>7

LEMMA RebuildStartKept ==
    ASSUME Inv, Bounds', NEW c \in Callers, RebuildStart(c)
    PROVE  Kept
<1> DEFINE r == req[c]
<1>1. r \in Requests /\ Shape(r)
  BY CallerFits
<1>2. /\ r.pc = "rebuild" /\ build = None /\ build' = c
      /\ UNCHANGED <<scene, browser, healthy, recent, open, closing, doomed>>
  BY DEF RebuildStart
<1>3. /\ r.op \in Running /\ Belongs(r.op, r.at) /\ r.phase = "none" /\ r.new = None
      /\ r.at \in RebuildPoints /\ (r.at # "heal" => r.slot \in Slots)
      /\ Wants(r) = r.slot
  <2> HIDE DEF r
  <2> QED BY <1>1, <1>2 DEF Shape, OpFits, PhaseFits, SlotFits, Wants
<1>4. PICK s \in Slots :
         /\ Pop(s)
         /\ Put(c, [r EXCEPT !.pc = "retire", !.slot = s, !.tab = pool[s],
                             !.gone = (pool[s] = None)])
         /\ Pooled = {} \/ s \in Pooled \cup {Wants(r)}
  <2>1. CASE r.at # "heal"
    BY <1>3, <2>1 DEF RebuildStart
  <2>2. CASE r.at = "heal" /\ Pooled # {}
    <3>1. Resolved(r.project) \subseteq Pooled /\ Pooled \subseteq Slots
      BY DEF Resolved, Preferred, Pooled
    <3> QED BY <2>2, <3>1 DEF RebuildStart
  <2>3. CASE r.at = "heal" /\ Pooled = {}
    <3>1. FreshSlots \subseteq Slots
      BY DEF FreshSlots
    <3> QED BY <2>3, <3>1 DEF RebuildStart
  <2> QED BY <2>1, <2>2, <2>3
<1> DEFINE q == [r EXCEPT !.pc = "retire", !.slot = s, !.tab = pool[s],
                          !.gone = (pool[s] = None)]
<1>5. pool[s] \in Tabs \cup {None} /\ (pool[s] = None) \in BOOLEAN
  BY DEF Inv, TypeOK
<1>6. /\ q \in Requests /\ q.pc = "retire" /\ q.slot = s /\ q.op = r.op /\ q.at = r.at
      /\ q.phase = r.phase /\ q.new = r.new /\ Put(c, q)
  <2>1. Put(c, q)
    BY <1>4
  <2> HIDE DEF r
  <2>2. r \in Requests
    BY <1>1
  <2>3. q \in Requests
    BY <1>5, <2>2 DEF Requests, Pcs
  <2> QED BY <2>1, <2>2, <2>3 DEF Requests
<1> HIDE DEF q, r
<1>7. Shape(q) /\ Wants(q) = s /\ q.pc # "create" /\ q.pc \in Building
  BY <1>3, <1>6
  DEF Shape, OpFits, PhaseFits, SlotFits, TabFits, Wants, Building, RebuildPoints
<1>8. /\ \A z \in Slots : pool'[z] = pool[z] \/ pool'[z] = None
      /\ Pooled = {} => \A z \in Slots : pool'[z] = None
      /\ pool' \in [Slots -> Tabs \cup {None}] /\ ready' \subseteq Tabs
      /\ affinity' \in [Projects -> Slots \cup {None}]
      /\ strikes' \in [Slots -> 0..RestartAt]
      /\ StrikesArePooled'
  BY <1>4, PopFits
<1>9. req' \in [Callers -> Requests]
  BY <1>6, CallerFits DEF Put
<1>10. TypeOK'
  BY <1>2, <1>8, <1>9 DEF Inv, TypeOK, Bounds
<1>11. \A d \in Callers : d # c => (build' = d <=> build = d)
  BY <1>2, Names
<1>12. (\A z \in Slots : pool'[z] = None) \/ Wants(q) \in Pooled \cup {Wants(req[c]), None}
  BY <1>4, <1>7, <1>8 DEF r
<1> QED BY <1>2, <1>6, <1>7, <1>8, <1>10, <1>11, <1>12, Moves

LEMMA CreateKept ==
    ASSUME Inv, Bounds', NEW c \in Callers, Create(c)
    PROVE  Kept
<1> DEFINE r == req[c]
<1>1. /\ r.pc = "create" /\ r.new # None
      /\ pool' = [pool EXCEPT ![r.new] = r.tab] /\ healthy' = TRUE /\ build' = None
      /\ Gives(c, r.new, r.tab, ready \cup {r.tab})
      /\ UNCHANGED <<scene, browser, open, closing, doomed>>
  BY DEF Create
<1>2. r.new \in Slots /\ r.tab \in Tabs /\ Searching(r)
  <2>1. r \in Requests /\ Shape(r)
    BY CallerFits
  <2> HIDE DEF r
  <2> QED BY <1>1, <2>1 DEF Requests, Shape, TabFits, Searching
<1>3. ready \cup {r.tab} \in SUBSET Tabs
  BY <1>2 DEF Inv, TypeOK
<1>4. /\ \E q : Put(c, q) /\ Goes(q, {r.new})
      /\ ready' \in SUBSET Tabs /\ recent' \in BOOLEAN
      /\ affinity' \in [Projects -> Slots \cup {None}]
      /\ strikes' \in [Slots -> 0..RestartAt]
      /\ \A z \in Slots : strikes'[z] = strikes[z] \/ strikes'[z] = 0
  BY <1>1, <1>2, <1>3, GivesGoes
<1>5. PICK q : Put(c, q) /\ Goes(q, {r.new})
  BY <1>4
<1>6. req' \in [Callers -> Requests]
  BY <1>5, CallerFits DEF Put, Goes
<1>7. pool' \in [Slots -> Tabs \cup {None}] /\ pool'[r.new] # None
  BY <1>1, <1>2, Names DEF Inv, TypeOK
<1>8. TypeOK'
  BY <1>1, <1>4, <1>6, <1>7 DEF Inv, TypeOK, Bounds
<1>9. StrikesArePooled'
  <2>1. \A z \in Slots : pool'[z] = None => pool[z] = None
    BY <1>1, <1>2, <1>7 DEF Inv, TypeOK
  <2> QED BY <1>4, <2>1 DEF Inv, TypeOK, StrikesArePooled
<1> QED BY <1>1, <1>2, <1>5, <1>8, <1>9, Joins

LEMMA RecreateKept ==
    ASSUME Inv, Bounds', NEW c \in Callers, Recreate(c)
    PROVE  Kept
<1> DEFINE r == req[c]
           q == IF r.at = "heal" THEN Idle ELSE Use(r, r.slot, r.tab, SolveAfter(r.at))
<1>1. /\ r.pc = "create" /\ r.new = None
      /\ pool' = [pool EXCEPT ![r.slot] = r.tab] /\ healthy' = TRUE /\ build' = None
      /\ ready' = ready \cup {r.tab}
      /\ affinity' = [affinity EXCEPT ![r.project] = r.slot]
      /\ Put(c, q)
      /\ UNCHANGED <<scene, browser, recent, open, closing, strikes, doomed>>
  BY DEF Recreate
<1>2. /\ r \in Requests /\ r.slot \in Slots /\ r.tab \in Tabs /\ r.phase = "none"
      /\ Belongs(r.op, r.at) /\ r.op \in Running /\ r.at \in RebuildPoints
  <2>1. r \in Requests /\ Shape(r)
    BY CallerFits
  <2> HIDE DEF r
  <2> QED BY <1>1, <2>1 DEF Shape, OpFits, PhaseFits, SlotFits, TabFits
<1>3. Goes(q, {r.slot})
  <2> HIDE DEF r
  <2>1. CASE r.at = "heal"
    BY <2>1, IdleGoes
  <2>2. CASE r.at # "heal"
    <3>1. /\ r.op \in {"token", "submit", "session"} /\ SolveAfter(r.at) \in Points
          /\ r.op = "token" => SolveAfter(r.at) \in {"first", "rebuilt", "last"}
          /\ r.op = "submit" => SolveAfter(r.at) = "submit"
          /\ r.op = "session" => SolveAfter(r.at) \in {"session", "reread"}
      BY <1>2, <2>2 DEF SolveAfter, Belongs, Running, RebuildPoints, Points
    <3> QED BY <1>2, <2>2, <3>1, UseGoes
  <2> QED BY <2>1, <2>2
<1> HIDE DEF q
<1>4. req' \in [Callers -> Requests]
  BY <1>1, <1>3, CallerFits DEF Put, Goes
<1>5. pool' \in [Slots -> Tabs \cup {None}] /\ pool'[r.slot] # None
  BY <1>1, <1>2, Names DEF Inv, TypeOK
<1>6. TypeOK'
  <2>1. affinity' \in [Projects -> Slots \cup {None}] /\ ready' \subseteq Tabs
    BY <1>1, <1>2 DEF Inv, TypeOK
  <2> QED BY <1>1, <1>4, <1>5, <2>1 DEF Inv, TypeOK, Bounds
<1>7. StrikesArePooled'
  <2>1. \A z \in Slots : pool'[z] = None => pool[z] = None
    BY <1>1, <1>2, <1>5 DEF Inv, TypeOK
  <2> QED BY <1>1, <2>1 DEF Inv, TypeOK, StrikesArePooled
<1> QED BY <1>1, <1>2, <1>3, <1>6, <1>7, Joins

LEMMA CreateFailsKept ==
    ASSUME Inv, Bounds', NEW c \in Callers, CreateFails(c)
    PROVE  Kept
<1> DEFINE r == req[c]
<1>1. /\ r.pc = "create" /\ open' \in {open, open \ {r.tab[1]}} /\ build' = None
      /\ IF r.new # None
         THEN FallBack(c)
         ELSE Put(c, RebuildFailed(r)) /\ UNCHANGED <<healthy, recent, ready, affinity, strikes>>
      /\ UNCHANGED <<scene, browser, closing, pool, doomed>>
  BY DEF CreateFails
<1>2. r \in Requests /\ Shape(r) /\ build' = (IF build = c THEN None ELSE build)
  BY <1>1, CallerFits DEF BuildFits, Building
<1>3. open' \subseteq Pages
  BY <1>1 DEF Inv, TypeOK
<1>4. CASE r.new # None
  <2>1. Searching(r) /\ FallBack(c)
    BY <1>1, <1>4 DEF Searching
  <2> QED BY <1>1, <1>2, <1>3, <2>1, FallBackKept
<1>5. CASE r.new = None
  <2>1. /\ Belongs(r.op, r.at) /\ r.op \in Running /\ r.phase = "none"
        /\ r.at \in RebuildPoints /\ Wants(r) = r.slot
    BY <1>1, <1>2, <1>5 DEF Shape, OpFits, PhaseFits, SlotFits, Wants
  <2>2. Goes(RebuildFailed(r), Pooled \cup {Wants(r)})
    <3> HIDE DEF r
    <3> QED BY <1>2, <1>5, <2>1, RebuildFailedGoes
  <2>3. Put(c, RebuildFailed(r))
    BY <1>1, <1>5
  <2> QED BY <1>1, <1>2, <1>3, <1>5, <2>2, <2>3, Continues DEF Inv, TypeOK
<1> QED BY <1>4, <1>5

-----------------------------------------------------------------------------
(***************************************************************************)
(* Working on a tab.                                                       *)
(***************************************************************************)
\* A request with a tab in hand.
Working == {"solve", "solving", "clear", "clearing", "reloading"}

LEMMA WorkFits ==
    ASSUME Inv, NEW c \in Callers, req[c].pc \in Working
    PROVE  LET r == req[c] IN
           /\ r \in Requests /\ Belongs(r.op, r.at) /\ r.op \in Running
           /\ r.phase = "none" /\ r.new = None /\ r.tab \in Tabs
           /\ r.pc \in {"solve", "solving"} =>
                 /\ r.op \in {"token", "submit", "session"}
                 /\ r.op = "token" => r.at \in {"first", "rebuilt", "last"}
                 /\ r.op = "session" => r.at \in {"session", "reread"}
           /\ r.slot \in Slots
           /\ r.pc \in {"clear", "clearing"} => r.op = "error" /\ r.at = "heal"
           /\ r.pc = "reloading" =>
                 /\ (r.op = "session" /\ r.at = "session") \/ (r.op = "error" /\ r.at = "heal")
           /\ Wants(r) = r.slot /\ (build = c => FALSE)
<1> DEFINE r == req[c]
<1>1. r \in Requests /\ Shape(r) /\ r.pc \in Working /\ BuildFits(c)
  BY CallerFits
<1>2. build # c
  BY <1>1 DEF BuildFits, Working, Building
<1> HIDE DEF r
<1> QED BY <1>1, <1>2
    DEF Shape, OpFits, PhaseFits, SlotFits, TabFits, Wants, Working, r

\* It may fail and be rebuilt, or recovered with the browser.
LEMMA WorkRebuilds ==
    ASSUME Inv, NEW c \in Callers, req[c].pc \in Working, NEW at \in RebuildPoints,
           Belongs(req[c].op, at)
    PROVE  Goes(Rebuild(req[c], at), Pooled \cup {Wants(req[c])})
<1> DEFINE r == req[c]
<1>1. /\ r \in Requests /\ r.op \in Running /\ r.phase = "none" /\ r.new = None
      /\ Wants(r) = r.slot /\ r.slot \in Slots
  BY WorkFits
<1> HIDE DEF r
<1> QED BY <1>1, RebuildGoes DEF r

LEMMA WorkRecovers ==
    ASSUME Inv, NEW c \in Callers, req[c].pc \in Working,
           req[c].at \in {"first", "rebuilt", "session", "reread"}
    PROVE  Goes(Recover(req[c], req[c].at), Pooled \cup {Wants(req[c])})
<1> DEFINE r == req[c]
<1>1. /\ r \in Requests /\ r.op \in Running /\ r.phase = "none" /\ r.new = None
      /\ Wants(r) = r.slot /\ r.slot \in Slots /\ Belongs(r.op, r.at)
  BY WorkFits
<1>2. r.at \in RecoverPoints /\ r.at # "legacy"
  BY DEF RecoverPoints
<1> HIDE DEF r
<1> QED BY <1>1, <1>2, RecoverGoes DEF r

\* It takes the solve_lock, or goes from clearing its tab to reloading it.
LEMMA WorkAdvances ==
    ASSUME Inv, NEW c \in Callers, req[c].pc \in Working,
           NEW pc \in {"solving", "clearing", "reloading"},
           pc = "solving" => req[c].pc = "solve",
           pc = "clearing" => req[c].pc = "clear",
           pc = "reloading" => \/ req[c].pc = "clearing"
                               \/ /\ req[c].pc = "solve"
                                  /\ req[c].op = "session" /\ req[c].at = "session"
    PROVE  Goes([req[c] EXCEPT !.pc = pc], Pooled \cup {Wants(req[c])})
<1> DEFINE r == req[c]
           q == [r EXCEPT !.pc = pc]
<1>1. /\ r \in Requests /\ Belongs(r.op, r.at) /\ r.op \in Running
      /\ r.phase = "none" /\ r.new = None /\ r.tab \in Tabs
      /\ r.pc \in {"solve", "solving"} =>
            /\ r.op \in {"token", "submit", "session"}
            /\ r.op = "token" => r.at \in {"first", "rebuilt", "last"}
            /\ r.op = "session" => r.at \in {"session", "reread"}
      /\ r.pc \in {"clear", "clearing"} => r.op = "error" /\ r.at = "heal"
      /\ Wants(r) = r.slot /\ r.slot \in Slots
  BY WorkFits
<1>2. pc \in Pcs
  BY DEF Pcs
<1>3. /\ pc = "solving" => r.pc = "solve"
      /\ pc = "clearing" => r.pc = "clear"
      /\ pc = "reloading" => \/ r.pc = "clearing"
                             \/ r.pc = "solve" /\ r.op = "session" /\ r.at = "session"
  OBVIOUS
<1> HIDE DEF r
<1>4. q \in Requests
  <2>1. r \in Requests
    BY <1>1
  <2> QED BY <1>2, <2>1 DEF Requests
<1>5. /\ q.pc = pc /\ q.op = r.op /\ q.at = r.at /\ q.phase = "none" /\ q.new = None
      /\ q.tab = r.tab /\ q.slot = r.slot
  <2>1. r \in Requests /\ r.phase = "none" /\ r.new = None
    BY <1>1
  <2> QED BY <2>1 DEF Requests
<1> HIDE DEF q
<1>6. r.at # "legacy"
  BY <1>1, <1>3 DEF Belongs, Running
<1>7. Goes(q, Pooled \cup {Wants(r)})
  BY <1>1, <1>3, <1>4, <1>5
  DEF Goes, Shape, OpFits, Belongs, Running, PhaseFits, SlotFits, TabFits, Wants, Building
<1> QED BY <1>7 DEF q, r

\* What is left to show of a step of a request that works on a tab.
LEMMA WorkContinues ==
    ASSUME Inv, Bounds', NEW c \in Callers, req[c].pc \in Working, NEW q, Put(c, q),
           Goes(q, Pooled \cup {Wants(req[c])}),
           UNCHANGED <<scene, browser, recent, open, closing, pool, doomed, build>>,
           healthy' \in BOOLEAN, ready' \subseteq Tabs,
           affinity' \in [Projects -> Slots \cup {None}],
           strikes' \in [Slots -> 0..RestartAt],
           \A s \in Slots : strikes'[s] = strikes[s] \/ strikes'[s] = 0
    PROVE  Kept
<1>1. build' = (IF build = c THEN None ELSE build)
  BY NotBuilding DEF Working, Building
<1> QED BY <1>1, Continues DEF Inv, TypeOK

LEMMA PoolTypes ==
    ASSUME Inv
    PROVE  /\ healthy \in BOOLEAN /\ ready \subseteq Tabs
           /\ affinity \in [Projects -> Slots \cup {None}]
           /\ strikes \in [Slots -> 0..RestartAt]
BY DEF Inv, TypeOK

\* A tab that is worked on serves its project.
LEMMA ServesType ==
    ASSUME Inv, NEW c \in Callers, req[c].slot \in Slots
    PROVE  [affinity EXCEPT ![req[c].project] = req[c].slot] \in [Projects -> Slots \cup {None}]
BY PoolTypes

LEMMA MarkedType ==
    ASSUME Inv, NEW t \in Tabs
    PROVE  Marked(t) \subseteq Tabs
BY PoolTypes DEF Marked

LEMMA LockKept ==
    ASSUME Inv, Bounds', NEW c \in Callers, Lock(c)
    PROVE  Kept
<1> DEFINE reload == req[c].op = "session" /\ req[c].at = "session"
           pc == IF req[c].pc = "clear" THEN "clearing"
                 ELSE IF reload THEN "reloading" ELSE "solving"
<1>1. /\ req[c].pc \in {"solve", "clear"}
      /\ Put(c, [req[c] EXCEPT !.pc = pc])
      /\ ready' = IF reload THEN ready \ {req[c].tab} ELSE ready
      /\ UNCHANGED <<scene, browser, healthy, recent, open, closing, pool, affinity, strikes,
                     doomed, build>>
  BY DEF Lock
<1>2. req[c].pc \in Working /\ ready' \subseteq Tabs
  BY <1>1, PoolTypes DEF Working
<1>3. /\ pc \in {"solving", "clearing", "reloading"}
      /\ pc = "solving" => req[c].pc = "solve"
      /\ pc = "clearing" => req[c].pc = "clear"
      /\ pc = "reloading" => req[c].pc = "solve" /\ reload
  BY <1>1
<1> HIDE DEF pc
<1>4. Goes([req[c] EXCEPT !.pc = pc], Pooled \cup {Wants(req[c])})
  BY <1>2, <1>3, WorkAdvances
<1> QED BY <1>1, <1>2, <1>4, WorkContinues, PoolTypes

LEMMA ClearKept ==
    ASSUME Inv, Bounds', NEW c \in Callers, Clear(c)
    PROVE  Kept
<1>1. /\ req[c].pc = "clearing" /\ Put(c, [req[c] EXCEPT !.pc = "reloading"])
      /\ ready' = ready \ {req[c].tab}
      /\ UNCHANGED <<scene, browser, healthy, recent, open, closing, pool, affinity, strikes,
                     doomed, build>>
  BY DEF Clear
<1>2. req[c].pc \in Working /\ ready' \subseteq Tabs
  BY <1>1, PoolTypes DEF Working
<1>3. Goes([req[c] EXCEPT !.pc = "reloading"], Pooled \cup {Wants(req[c])})
  BY <1>1, <1>2, WorkAdvances
<1> QED BY <1>1, <1>2, <1>3, WorkContinues, PoolTypes

LEMMA SolvedKept ==
    ASSUME Inv, Bounds', NEW c \in Callers, Solved(c)
    PROVE  Kept
<1>1. /\ req[c].pc = "solving" /\ Put(c, Idle)
      /\ affinity' = [affinity EXCEPT ![req[c].project] = req[c].slot]
      /\ healthy' = (healthy \/ req[c].op = "token")
      /\ UNCHANGED <<scene, browser, recent, open, closing, pool, ready, strikes, doomed, build>>
  BY DEF Solved, PoolKept
<1>2. req[c].pc \in Working
  BY <1>1 DEF Working
<1>3. affinity' \in [Projects -> Slots \cup {None}] /\ healthy' \in BOOLEAN
  BY <1>1, <1>2, WorkFits, ServesType, PoolTypes
<1>4. Goes(Idle, Pooled \cup {Wants(req[c])})
  BY IdleGoes
<1> QED BY <1>1, <1>2, <1>3, <1>4, WorkContinues, PoolTypes

LEMMA SolveFailsKept ==
    ASSUME Inv, Bounds', NEW c \in Callers, NEW runtime \in BOOLEAN, SolveFails(c, runtime)
    PROVE  Kept
<1> DEFINE r == req[c]
           S == Pooled \cup {Wants(req[c])}
<1>1. /\ r.pc = "solving" /\ r.op \in {"token", "submit"}
      /\ Put(c, CASE r.op = "submit" -> Idle
                  [] r.at \in {"first", "rebuilt"} /\ runtime -> Recover(r, r.at)
                  [] r.at = "first" /\ ~runtime -> Rebuild(r, "rebuild")
                  [] r.at = "rebuilt" /\ ~runtime -> ToLegacy(r)
                  [] r.at = "last" -> ToLegacy(r))
      /\ UNCHANGED <<scene, browser, healthy, recent, open, closing, pool, ready, affinity,
                     strikes, doomed, build>>
  BY DEF SolveFails, PoolKept
<1>2. r.pc \in Working
  BY <1>1 DEF Working
<1>3. /\ r \in Requests /\ Belongs(r.op, r.at) /\ r.phase = "none" /\ r.slot \in Slots
      /\ r.op = "token" => r.at \in {"first", "rebuilt", "last"}
  BY <1>1, <1>2, WorkFits
<1>4. PICK q : Put(c, q) /\ Goes(q, S)
  <2>1. CASE r.op = "submit"
    <3>1. r.at = "submit"
      BY <1>3, <2>1 DEF Belongs
    <3> QED BY <1>1, <2>1, <3>1, IdleGoes
  <2>2. CASE r.op = "token" /\ r.at \in {"first", "rebuilt"} /\ runtime
    <3>1. Put(c, Recover(r, r.at))
      BY <1>1, <2>2
    <3>2. Goes(Recover(r, r.at), S)
      BY <1>2, <1>3, <2>2, WorkRecovers
    <3> QED BY <3>1, <3>2
  <2>3. CASE r.op = "token" /\ r.at = "first" /\ ~runtime
    <3>1. Put(c, Rebuild(r, "rebuild"))
      BY <1>1, <2>3
    <3>2. "rebuild" \in RebuildPoints /\ Belongs(r.op, "rebuild")
      BY <2>3 DEF RebuildPoints, Belongs
    <3>3. Goes(Rebuild(r, "rebuild"), S)
      BY <1>2, <3>2, WorkRebuilds
    <3> QED BY <3>1, <3>3
  <2>4. CASE r.op = "token" /\ (r.at = "last" \/ (r.at = "rebuilt" /\ ~runtime))
    <3>1. Put(c, ToLegacy(r))
      BY <1>1, <2>4
    <3>2. Goes(ToLegacy(r), S)
      BY <1>3, <2>4, ToLegacyGoes
    <3> QED BY <3>1, <3>2
  <2> QED BY <1>1, <1>3, <2>1, <2>2, <2>3, <2>4
<1> QED BY <1>1, <1>2, <1>4, WorkContinues, PoolTypes

LEMMA SessionReadKept ==
    ASSUME Inv, Bounds', NEW c \in Callers, SessionRead(c)
    PROVE  Kept
<1>1. /\ req[c].op = "session" /\ req[c].pc \in {"solving", "reloading"} /\ Put(c, Idle)
      /\ ready' \in {ready, IF req[c].pc = "reloading" THEN Marked(req[c].tab) ELSE ready}
      /\ \/ UNCHANGED <<affinity, strikes, healthy>>
         \/ /\ affinity' = [affinity EXCEPT ![req[c].project] = req[c].slot]
            /\ strikes' = [strikes EXCEPT ![req[c].slot] = 0]
            /\ healthy' = TRUE
      /\ UNCHANGED <<scene, browser, recent, open, closing, pool, doomed, build>>
  BY DEF SessionRead
<1>2. req[c].pc \in Working
  BY <1>1 DEF Working
<1>3. req[c].slot \in Slots /\ req[c].tab \in Tabs
  BY <1>2, WorkFits
<1>4. affinity' \in [Projects -> Slots \cup {None}] /\ healthy' \in BOOLEAN
  BY <1>1, <1>3, ServesType, PoolTypes
<1>5. ready' \subseteq Tabs
  BY <1>1, <1>3, MarkedType, PoolTypes
<1>6. /\ strikes' \in [Slots -> 0..RestartAt]
      /\ \A s \in Slots : strikes'[s] = strikes[s] \/ strikes'[s] = 0
  BY <1>1, <1>3, PoolTypes, ThresholdsAssumption
<1>7. Goes(Idle, Pooled \cup {Wants(req[c])})
  BY IdleGoes
<1> QED BY <1>1, <1>2, <1>4, <1>5, <1>6, <1>7, WorkContinues

LEMMA SessionFailsKept ==
    ASSUME Inv, Bounds', NEW c \in Callers, NEW runtime \in BOOLEAN, SessionFails(c, runtime)
    PROVE  Kept
<1> DEFINE r == req[c]
           S == Pooled \cup {Wants(req[c])}
<1>1. /\ r.op = "session" /\ r.pc \in {"solving", "reloading"}
      /\ Put(c, CASE ~r.retried /\ runtime -> Recover(r, r.at)
                  [] (r.retried \/ ~runtime) /\ r.at = "session" -> Rebuild(r, "reread")
                  [] (r.retried \/ ~runtime) /\ r.at = "reread" -> Idle)
      /\ UNCHANGED <<scene, browser, healthy, recent, open, closing, pool, ready, affinity,
                     strikes, doomed, build>>
  BY DEF SessionFails, PoolKept
<1>2. r.pc \in Working
  BY <1>1 DEF Working
<1>3. r.at \in {"session", "reread"}
  BY <1>1, <1>2, WorkFits
<1>4. PICK q : Put(c, q) /\ Goes(q, S)
  <2>1. CASE ~r.retried /\ runtime
    <3>1. Put(c, Recover(r, r.at))
      BY <1>1, <2>1
    <3>2. Goes(Recover(r, r.at), S)
      BY <1>2, <1>3, WorkRecovers
    <3> QED BY <3>1, <3>2
  <2>2. CASE (r.retried \/ ~runtime) /\ r.at = "session"
    <3>1. Put(c, Rebuild(r, "reread"))
      BY <1>1, <2>2
    <3>2. "reread" \in RebuildPoints /\ Belongs(r.op, "reread")
      BY <1>1 DEF RebuildPoints, Belongs
    <3>3. Goes(Rebuild(r, "reread"), S)
      BY <1>2, <3>2, WorkRebuilds
    <3> QED BY <3>1, <3>3
  <2>3. CASE (r.retried \/ ~runtime) /\ r.at = "reread"
    BY <1>1, <2>3, IdleGoes
  <2> QED BY <1>3, <2>1, <2>2, <2>3
<1> QED BY <1>1, <1>2, <1>4, WorkContinues, PoolTypes

LEMMA HealedKept ==
    ASSUME Inv, Bounds', NEW c \in Callers, Healed(c)
    PROVE  Kept
<1>1. /\ req[c].pc = "reloading" /\ Put(c, Idle) /\ ready' = Marked(req[c].tab)
      /\ affinity' = [affinity EXCEPT ![req[c].project] = req[c].slot]
      /\ UNCHANGED <<scene, browser, healthy, recent, open, closing, pool, strikes, doomed, build>>
  BY DEF Healed
<1>2. req[c].pc \in Working
  BY <1>1 DEF Working
<1>3. req[c].slot \in Slots /\ req[c].tab \in Tabs
  BY <1>2, WorkFits
<1>4. affinity' \in [Projects -> Slots \cup {None}] /\ ready' \subseteq Tabs
  BY <1>1, <1>3, ServesType, MarkedType
<1>5. Goes(Idle, Pooled \cup {Wants(req[c])})
  BY IdleGoes
<1> QED BY <1>1, <1>2, <1>4, <1>5, WorkContinues, PoolTypes

LEMMA HealFailsKept ==
    ASSUME Inv, Bounds', NEW c \in Callers, HealFails(c)
    PROVE  Kept
<1>1. /\ req[c].op = "error" /\ req[c].pc \in {"clearing", "reloading"}
      /\ Put(c, Rebuild(req[c], "heal"))
      /\ UNCHANGED <<scene, browser, healthy, recent, open, closing, pool, ready, affinity,
                     strikes, doomed, build>>
  BY DEF HealFails, PoolKept
<1>2. req[c].pc \in Working
  BY <1>1 DEF Working
<1>3. "heal" \in RebuildPoints /\ Belongs(req[c].op, "heal")
  BY <1>1 DEF RebuildPoints, Belongs
<1>4. Goes(Rebuild(req[c], "heal"), Pooled \cup {Wants(req[c])})
  BY <1>2, <1>3, WorkRebuilds
<1> QED BY <1>1, <1>2, <1>4, WorkContinues, PoolTypes

LEMMA ResolvedFits ==
    ASSUME Inv, NEW p \in Projects, NEW s \in Resolved(p)
    PROVE  /\ s \in Slots /\ s \in Pooled /\ pool[s] \in Tabs /\ pool[s] # None
           /\ Settled(p) \in [Projects -> Slots \cup {None}]
<1>1. s \in Pooled
  BY DEF Resolved, Preferred
<1>2. Settled(p) \in [Projects -> Slots \cup {None}]
  BY PoolTypes DEF Settled
<1> QED BY <1>1, <1>2 DEF Pooled, Inv, TypeOK

LEMMA ReportSuccessKept ==
    ASSUME Inv, Bounds', NEW c \in Callers, ReportSuccess(c)
    PROVE  Kept
<1>1. PICK p \in Projects : \E s \in Resolved(p) :
         strikes' = [strikes EXCEPT ![s] = 0] /\ affinity' = Settled(p)
  BY DEF ReportSuccess
<1>2. PICK s \in Resolved(p) : strikes' = [strikes EXCEPT ![s] = 0] /\ affinity' = Settled(p)
  BY <1>1
<1>3. UNCHANGED <<scene, browser, healthy, recent, open, closing, pool, ready, doomed, build,
                  req>>
  BY DEF ReportSuccess, PoolKept
<1>4. s \in Slots /\ affinity' \in [Projects -> Slots \cup {None}]
  BY <1>2, ResolvedFits
<1>5. strikes' \in [Slots -> 0..RestartAt]
  BY <1>2, <1>4, PoolTypes, ThresholdsAssumption
<1>6. StrikesArePooled'
  <2>1. StrikesArePooled /\ \A z \in Slots : strikes'[z] = strikes[z] \/ strikes'[z] = 0
    BY <1>2, <1>4, PoolTypes DEF Inv
  <2> QED BY <1>3, <2>1 DEF StrikesArePooled
<1>7. TypeOK'
  BY <1>3, <1>4, <1>5 DEF Inv, TypeOK, Bounds
<1> QED BY <1>3, <1>6, <1>7, Stays

LEMMA ReportErrorKept ==
    ASSUME Inv, Bounds', NEW c \in Callers, NEW upstream \in BOOLEAN, ReportError(c, upstream)
    PROVE  Kept
<1> DEFINE treat(p, s, t) ==
             LET n == strikes[s] + 1
                 r == [Idle EXCEPT !.op = "error", !.project = p]
             IN  CASE browser = "none" -> Idle
                   [] browser # "none" /\ upstream /\ n >= RestartAt -> Recover(r, "strike")
                   [] browser # "none" /\ upstream /\ n < RecreateAt ->
                         [r EXCEPT !.pc = IF Busy(t) THEN "clear" ELSE "clearing",
                                   !.at = "heal", !.slot = s, !.tab = t]
                   [] OTHER -> Rebuild(r, "heal")
           after(s) == LET n == strikes[s] + 1 IN IF n > RestartAt THEN RestartAt ELSE n
<1>1. /\ \E p \in Projects : \E s \in Resolved(p) :
            /\ strikes' = [strikes EXCEPT ![s] = after(s)]
            /\ affinity' = Settled(p)
            /\ Put(c, treat(p, s, pool[s]))
      /\ req[c].pc = "idle"
      /\ UNCHANGED <<scene, browser, healthy, recent, open, closing, pool, ready, doomed, build>>
  BY DEF ReportError, PoolKept
<1>0. PICK p \in Projects : \E s \in Resolved(p) :
            /\ strikes' = [strikes EXCEPT ![s] = after(s)]
            /\ affinity' = Settled(p)
            /\ Put(c, treat(p, s, pool[s]))
  BY <1>1
<1>2. PICK s \in Resolved(p) :
            /\ strikes' = [strikes EXCEPT ![s] = after(s)]
            /\ affinity' = Settled(p)
            /\ Put(c, treat(p, s, pool[s]))
  BY <1>0
<1>3. /\ s \in Slots /\ s \in Pooled /\ pool[s] \in Tabs /\ pool[s] # None
      /\ affinity' \in [Projects -> Slots \cup {None}]
  BY <1>2, ResolvedFits
<1> DEFINE t == pool[s]
           S == Pooled \cup {Wants(req[c])}
           r == [Idle EXCEPT !.op = "error", !.project = p]
           pc == IF Busy(t) THEN "clear" ELSE "clearing"
           work == [r EXCEPT !.pc = pc, !.at = "heal", !.slot = s, !.tab = t]
<1>4. /\ r \in Requests /\ r.op = "error" /\ r.phase = "none" /\ r.new = None /\ r.slot = None
      /\ r.at = "none"
  <2>1. Idle \in Requests /\ Idle.phase = "none" /\ Idle.new = None /\ Idle.slot = None
    BY IdleGoes
  <2>2. Idle.at = "none"
    BY DEF Idle
  <2> HIDE DEF Idle
  <2> QED BY <2>1, <2>2 DEF Requests, Operations
<1>5. treat(p, s, t) \in {Idle, Recover(r, "strike"), work, Rebuild(r, "heal")}
  <2> HIDE DEF Idle
  <2> QED BY Zenon
<1> HIDE DEF treat, r, pc
<1>6. Goes(Recover(r, "strike"), S)
  <2>1. "strike" \in RecoverPoints /\ Belongs(r.op, "strike") /\ r.op \in Running
    BY <1>4 DEF RecoverPoints, Belongs, Running
  <2> QED BY <1>4, <2>1, RecoverGoes
<1>7. Goes(Rebuild(r, "heal"), S)
  <2>1. "heal" \in RebuildPoints /\ Belongs(r.op, "heal") /\ r.op \in Running
    BY <1>4 DEF RebuildPoints, Belongs, Running
  <2> QED BY <1>4, <2>1, RebuildGoes
<1>8. Goes(work, S)
  <2> DEFINE q == work
  <2>1. pc \in {"clear", "clearing"} /\ t \in Tabs
    BY <1>3 DEF pc
  <2> HIDE DEF t
  <2>2. q \in Requests
    BY <1>3, <1>4, <2>1 DEF Requests, Pcs, Points
  <2>3. /\ q.pc = pc /\ q.at = "heal" /\ q.slot = s /\ q.tab = t /\ q.op = "error"
        /\ q.phase = "none" /\ q.new = None
    BY <1>4 DEF Requests
  <2> HIDE DEF work, q
  <2>4. Goes(q, S)
    BY <1>3, <2>1, <2>2, <2>3
    DEF Goes, Shape, OpFits, Belongs, Running, PhaseFits, SlotFits, TabFits, Wants, Building
  <2> QED BY <2>4 DEF q
<1>9. PICK q : Put(c, q) /\ Goes(q, S)
  <2> HIDE DEF S, work, t
  <2>1. Put(c, treat(p, s, t))
    BY <1>2 DEF t
  <2> QED BY <1>5, <1>6, <1>7, <1>8, <2>1, IdleGoes
<1>10. strikes' \in [Slots -> 0..RestartAt] /\ \A z \in Slots : z = s \/ strikes'[z] = strikes[z]
  <2>1. strikes[s] \in 0..RestartAt /\ RestartAt \in Nat
    BY <1>3, PoolTypes, ThresholdsAssumption
  <2>2. after(s) \in 0..RestartAt
    BY <2>1
  <2> HIDE DEF after
  <2> QED BY <1>2, <1>3, <2>2, PoolTypes
<1>11. StrikesArePooled'
  <2>1. StrikesArePooled
    BY DEF Inv
  <2> QED BY <1>1, <1>3, <1>10, <2>1 DEF StrikesArePooled
<1>12. build' = (IF build = c THEN None ELSE build)
  BY <1>1, NotBuilding DEF Building
<1>13. TypeOK'
  <2>1. req' \in [Callers -> Requests]
    <3>1. q \in Requests
      BY <1>9 DEF Goes
    <3> QED BY <1>9, <3>1, CallerFits DEF Put
  <2> QED BY <1>1, <1>3, <1>10, <2>1 DEF Inv, TypeOK, Bounds
<1> QED BY <1>1, <1>9, <1>11, <1>12, <1>13, GoesOn

-----------------------------------------------------------------------------
(***************************************************************************)
(* Tabs of the legacy mode, and requests that are cancelled.               *)
(***************************************************************************)
LEMMA LeastFits ==
    ASSUME NEW S \in SUBSET Nat, S # {}
    PROVE  Least(S) \in S
<1>1. PICK k \in S : TRUE
  OBVIOUS
<1> DEFINE starts == {0..n : n \in {m \in S : m <= k}}
           R == StrictSubsetOrdering(0..k)
<1>2. IsWellFoundedOn(R, SUBSET (0..k))
  <2>1. IsFiniteSet(0..k)
    BY FS_Interval
  <2>2. FiniteSubsetsOf(0..k) = SUBSET (0..k)
    BY <2>1, FS_FiniteSubsetsOfFinite
  <2> QED BY <2>2, FS_StrictSubsetOrderingWellFounded
<1>3. starts \subseteq SUBSET (0..k) /\ starts # {}
  <2>0. k \in {m \in S : m <= k}
    OBVIOUS
  <2>1. 0..k \in starts
    BY <2>0, Zenon
  <2>2. ASSUME NEW m \in S, m <= k PROVE 0..m \subseteq 0..k
    BY <2>2
  <2> QED BY <2>1, <2>2
<1>4. \E s \in starts : \A t \in starts : ~ (<<t, s>> \in R)
  <2> HIDE DEF starts, R
  <2> QED BY <1>2, <1>3, WFMin
<1>5. PICK n \in S : n <= k /\ \A m \in S : m <= k => ~ (<<0..m, 0..n>> \in R)
  BY <1>4
<1>6. ASSUME NEW m \in S PROVE n <= m
  <2> SUFFICES ASSUME m < n PROVE FALSE
    OBVIOUS
  <2>1. m <= k /\ m \in Nat /\ n \in Nat /\ k \in Nat
    BY <1>5
  <2>2. 0..m \subseteq 0..n /\ n \in 0..n /\ n \notin 0..m
    BY <2>1
  <2>3. 0..m \in SUBSET (0..k) /\ 0..n \in SUBSET (0..k)
    BY <1>5, <2>1
  <2>4. 0..m # 0..n
    BY <2>2
  <2>5. <<0..m, 0..n>> \in R
    BY <2>2, <2>3, <2>4 DEF StrictSubsetOrdering
  <2> QED BY <1>5, <2>1, <2>5
<1> QED BY <1>6 DEF Least

LEMMA LegacyFits ==
    ASSUME Inv, NEW c \in Callers, req[c].pc \in {"legacy", "legacy_open", "legacy_solving"}
    PROVE  LET r == req[c] IN
           /\ r \in Requests /\ r.at = "legacy" /\ r.op = "token" /\ r.phase = "none"
           /\ r.slot = None /\ r.new = None
           /\ r.pc = "legacy_solving" => r.tab \in Tabs
           /\ build = (IF build = c THEN None ELSE build)
<1> DEFINE r == req[c]
<1>1. r \in Requests /\ Shape(r) /\ r.pc \in {"legacy", "legacy_open", "legacy_solving"}
  BY CallerFits
<1>2. build = (IF build = c THEN None ELSE build)
  BY <1>1, NotBuilding DEF Building
<1> HIDE DEF r
<1>3. r.at = "legacy" /\ r.op = "token"
  BY <1>1 DEF Shape, TabFits, OpFits, Belongs, Running
<1>4. /\ r.phase = "none" /\ r.slot = None /\ r.new = None
      /\ r.pc = "legacy_solving" => r.tab \in Tabs
  BY <1>1, <1>3 DEF Shape, PhaseFits, SlotFits, TabFits
<1> QED BY <1>1, <1>2, <1>3, <1>4 DEF r

LEMMA LegacyOpenKept ==
    ASSUME Inv, Bounds', NEW c \in Callers, LegacyOpen(c)
    PROVE  Kept
<1> DEFINE r == req[c]
           S == Pooled \cup {Wants(req[c])}
           started == [r EXCEPT !.pc = "initialize"]
           opened(p) == [r EXCEPT !.pc = "legacy_solving", !.tab = <<p, Least(Wraps)>>]
<1>1. /\ r.pc \in {"legacy", "legacy_open"}
      /\ UNCHANGED <<scene, browser, healthy, recent, closing, pool, ready, affinity, strikes,
                     doomed, build>>
      /\ \/ Put(c, started) /\ open' = open
         \/ \E p \in FreshPages : Put(c, opened(p)) /\ open' = open \cup {p}
  BY DEF LegacyOpen
<1>2. /\ r \in Requests /\ r.at = "legacy" /\ r.op = "token" /\ r.phase = "none"
      /\ r.slot = None /\ r.new = None /\ build = (IF build = c THEN None ELSE build)
  BY <1>1, LegacyFits
<1> HIDE DEF r, S
<1>3. \E q : Put(c, q) /\ Goes(q, S) /\ open' \subseteq Pages
  <2>1. CASE Put(c, started) /\ open' = open
    <3> DEFINE q == started
    <3>1. q \in Requests
      BY <1>2 DEF Requests, Pcs
    <3>2. /\ q.pc = "initialize" /\ q.at = "legacy" /\ q.op = "token" /\ q.phase = "none"
          /\ q.slot = None /\ q.new = None
      BY <1>2 DEF Requests
    <3> HIDE DEF q
    <3>3. Goes(q, S)
      BY <3>1, <3>2
      DEF Goes, Shape, OpFits, Belongs, Running, PhaseFits, SlotFits, TabFits, Wants, Building
    <3>4. open' \subseteq Pages
      BY <2>1 DEF Inv, TypeOK
    <3> QED BY <2>1, <3>3, <3>4 DEF q
  <2>2. CASE \E p \in FreshPages : Put(c, opened(p)) /\ open' = open \cup {p}
    <3>1. PICK p \in FreshPages : Put(c, opened(p)) /\ open' = open \cup {p}
      BY <2>2
    <3> DEFINE t == <<p, Least(Wraps)>>
               q == [r EXCEPT !.pc = "legacy_solving", !.tab = t]
    <3>2. p \in Pages
      BY DEF FreshPages
    <3>3. t \in Tabs
      BY <3>2, NamesAssumption, LeastFits DEF Tabs
    <3> HIDE DEF t
    <3>4. q \in Requests
      BY <1>2, <3>3 DEF Requests, Pcs
    <3>5. /\ q.pc = "legacy_solving" /\ q.at = "legacy" /\ q.op = "token" /\ q.phase = "none"
          /\ q.slot = None /\ q.new = None /\ q.tab = t
      BY <1>2 DEF Requests
    <3>6. opened(p) = q
      BY DEF t
    <3> HIDE DEF q, opened
    <3>7. Goes(q, S)
      BY <3>3, <3>4, <3>5
      DEF Goes, Shape, OpFits, Belongs, Running, PhaseFits, SlotFits, TabFits, Wants, Building
    <3>8. open' \subseteq Pages
      BY <3>1, <3>2 DEF Inv, TypeOK
    <3> QED BY <3>1, <3>6, <3>7, <3>8
  <2> QED BY <1>1, <2>1, <2>2
<1>4. PICK q : Put(c, q) /\ Goes(q, Pooled \cup {Wants(req[c])}) /\ open' \subseteq Pages
  BY <1>3 DEF S
<1> QED BY <1>1, <1>2, <1>4, Continues DEF Inv, TypeOK

LEMMA LegacyEndsKept ==
    ASSUME Inv, Bounds', NEW c \in Callers, NEW runtime \in BOOLEAN, NEW stays \in BOOLEAN,
           LegacyEnds(c, runtime, stays)
    PROVE  Kept
<1> DEFINE r == req[c]
           S == Pooled \cup {Wants(req[c])}
<1>1. /\ r.pc = "legacy_solving"
      /\ healthy' \in {healthy, healthy \/ (Works(r.tab) /\ ~runtime)}
      /\ open' = IF stays THEN open ELSE open \ {r.tab[1]}
      /\ Put(c, IF runtime /\ ~r.retried THEN Recover(r, "legacy") ELSE Idle)
      /\ UNCHANGED <<scene, browser, recent, closing, pool, ready, affinity, strikes, doomed,
                     build>>
  BY DEF LegacyEnds
<1>2. /\ r \in Requests /\ r.at = "legacy" /\ r.op = "token" /\ r.phase = "none"
      /\ r.slot = None /\ r.new = None /\ build = (IF build = c THEN None ELSE build)
  BY <1>1, LegacyFits
<1>3. healthy' \in BOOLEAN /\ open' \subseteq Pages
  <2>1. healthy \in BOOLEAN /\ open \subseteq Pages
    BY DEF Inv, TypeOK
  <2>2. (healthy \/ (Works(r.tab) /\ ~runtime)) \in BOOLEAN
    BY <2>1
  <2> QED BY <1>1, <2>1, <2>2
<1> HIDE DEF r
<1>4. Goes(Recover(r, "legacy"), S)
  <2>1. "legacy" \in RecoverPoints /\ Belongs(r.op, "legacy") /\ r.op \in Running
    BY <1>2 DEF RecoverPoints, Belongs, Running
  <2> QED BY <1>2, <2>1, RecoverGoes
<1>5. PICK q : Put(c, q) /\ Goes(q, S)
  BY <1>1, <1>4, IdleGoes
<1> QED BY <1>1, <1>2, <1>3, <1>5, Continues DEF Inv, TypeOK

LEMMA CancelKept ==
    ASSUME Inv, Bounds', NEW c \in Callers, Cancel(c)
    PROVE  Kept
<1>1. /\ Put(c, Idle) /\ build' = (IF build = c THEN None ELSE build)
      /\ open' \subseteq open
      /\ UNCHANGED <<scene, browser, healthy, recent, closing, pool, ready, affinity, strikes,
                     doomed>>
  BY DEF Cancel
<1>2. Goes(Idle, Pooled \cup {Wants(req[c])})
  BY IdleGoes
<1> QED BY <1>1, <1>2, Continues DEF Inv, TypeOK

-----------------------------------------------------------------------------
(***************************************************************************)
(* What befalls the pool.                                                  *)
(***************************************************************************)
LEMMA CrashKept ==
    ASSUME Inv, Bounds', Crash
    PROVE  Kept
<1>1. /\ browser' = "dead" /\ healthy' \in {healthy, FALSE}
      /\ UNCHANGED <<scene, recent, open, closing, pool, ready, affinity, strikes, doomed, build,
                     req>>
  BY DEF Crash
<1>2. TypeOK'
  BY <1>1 DEF Inv, TypeOK, Bounds
<1>3. StrikesArePooled'
  BY <1>1 DEF Inv, StrikesArePooled
<1> QED BY <1>1, <1>2, <1>3, Stays

LEMMA AgeKept ==
    ASSUME Inv, Bounds', Age
    PROVE  Kept
<1>1. /\ healthy' \in {healthy, FALSE} /\ recent' \in {recent, FALSE}
      /\ UNCHANGED <<scene, browser, open, closing, pool, ready, affinity, strikes, doomed, build,
                     req>>
  BY DEF Age, PoolKept
<1>2. TypeOK'
  BY <1>1 DEF Inv, TypeOK, Bounds
<1>3. StrikesArePooled'
  BY <1>1 DEF Inv, StrikesArePooled
<1> QED BY <1>1, <1>2, <1>3, Stays

LEMMA CollectKept ==
    ASSUME Inv, Bounds', Collect
    PROVE  Kept
<1>1. /\ doomed' \in SUBSET Pooled
      /\ UNCHANGED <<scene, browser, healthy, recent, open, closing, pool, ready, affinity,
                     strikes, build, req>>
  BY DEF Collect
<1>2. TypeOK'
  BY <1>1 DEF Inv, TypeOK, Bounds, Pooled
<1>3. StrikesArePooled'
  BY <1>1 DEF Inv, StrikesArePooled
<1> QED BY <1>1, <1>2, <1>3, Stays

\* A slot is closed, whoever asked for it.
LEMMA CloseKept ==
    ASSUME Inv, Bounds', NEW s \in Slots, CloseSlot(s), doomed' \subseteq Slots,
           UNCHANGED <<scene, browser, healthy, recent, open, build, req>>
    PROVE  Kept
<1>1. Pop(s) /\ closing' = closing \cup ({pool[s][1] : x \in {s} \cap Pooled} \cap open)
  BY DEF CloseSlot
<1>2. closing' \subseteq Pages
  BY <1>1 DEF Inv, TypeOK
<1>3. TypeOK'
  BY <1>1, <1>2, PopFits DEF Inv, TypeOK, Bounds
<1> QED BY <1>1, <1>3, PopFits, Stays

LEMMA ReapKept ==
    ASSUME Inv, Bounds', Reap
    PROVE  Kept
<1>1. PICK s \in doomed : doomed' = doomed \ {s} /\ CloseSlot(s)
  BY DEF Reap
<1>2. UNCHANGED <<scene, browser, healthy, recent, open, build, req>>
  BY DEF Reap
<1>3. s \in Slots /\ doomed' \subseteq Slots
  BY <1>1 DEF Inv, TypeOK
<1> QED BY <1>1, <1>2, <1>3, CloseKept

LEMMA StopKept ==
    ASSUME Inv, Bounds', Stop
    PROVE  Kept
<1>1. PICK s \in Pooled : CloseSlot(s)
  BY DEF Stop
<1>2. UNCHANGED <<scene, browser, healthy, recent, open, doomed, build, req>>
  BY DEF Stop
<1>3. s \in Slots /\ doomed' \subseteq Slots
  BY <1>2 DEF Inv, TypeOK, Pooled
<1> QED BY <1>1, <1>2, <1>3, CloseKept

LEMMA StopAllKept ==
    ASSUME Inv, Bounds', StopAll
    PROVE  Kept
<1>1. /\ closing' = closing \cup ({pool[s][1] : s \in Pooled} \cap open)
      /\ pool' = [s \in Slots |-> None] /\ ready' = {}
      /\ affinity' = [p \in Projects |-> None] /\ strikes' = [s \in Slots |-> 0]
      /\ UNCHANGED <<scene, browser, healthy, recent, open, doomed, build, req>>
  BY DEF StopAll
<1>2. closing' \subseteq Pages
  BY <1>1 DEF Inv, TypeOK
<1>3. /\ pool' \in [Slots -> Tabs \cup {None}] /\ affinity' \in [Projects -> Slots \cup {None}]
      /\ strikes' \in [Slots -> 0..RestartAt]
  BY <1>1, ThresholdsAssumption
<1>4. TypeOK'
  BY <1>1, <1>2, <1>3 DEF Inv, TypeOK, Bounds
<1>5. StrikesArePooled'
  BY <1>1 DEF StrikesArePooled
<1>6. \A s \in Slots : pool'[s] = None
  BY <1>1
<1> QED BY <1>1, <1>4, <1>5, <1>6, Stays

LEMMA ClosedKept ==
    ASSUME Inv, Bounds', NEW stays \in BOOLEAN, Closed(stays)
    PROVE  Kept
<1>1. /\ closing' \subseteq closing /\ open' \subseteq open
      /\ UNCHANGED <<scene, browser, healthy, recent, pool, ready, affinity, strikes, doomed,
                     build, req>>
  BY DEF Closed
<1>2. TypeOK'
  BY <1>1 DEF Inv, TypeOK, Bounds
<1>3. StrikesArePooled'
  BY <1>1 DEF Inv, StrikesArePooled
<1> QED BY <1>1, <1>2, <1>3, Stays

-----------------------------------------------------------------------------
(***************************************************************************)
(* The theorems.                                                           *)
(***************************************************************************)
LEMMA ProceedKept ==
    ASSUME Inv, Bounds', NEW c \in Callers, Proceed(c)
    PROVE  Kept
BY InitializeKept, LaunchKept, LaunchedKept, EnterRecoverKept, EnterStrikeKept, ShutKept,
   EnsureKept, EnsureQueuesKept, ReuseKept, BuildKept, BuildsNothingKept, RebuildStartKept,
   RetireKept, CreateKept, RecreateKept, LockKept, SolvedKept, SessionReadKept, ClearKept,
   HealedKept, LegacyOpenKept, LegacyEndsKept
DEF Proceed

LEMMA FailKept ==
    ASSUME Inv, Bounds', NEW c \in Callers, Fail(c)
    PROVE  Kept
BY CreateFailsKept, HealFailsKept, SolveFailsKept, SessionFailsKept, LegacyEndsKept DEF Fail

LEMMA UpsetKept ==
    ASSUME Inv, Bounds', NEW c \in Callers, Upset(c)
    PROVE  Kept
BY FailKept, LaunchFailsKept, RetireKept, CancelKept, LegacyEndsKept DEF Upset

LEMMA BeginKept ==
    ASSUME Inv, Bounds', NEW c \in Callers, Begin(c)
    PROVE  Kept
BY BeginUseKept, ReportSuccessKept, ReportErrorKept DEF Begin

LEMMA DisturbKept ==
    ASSUME Inv, Bounds', Disturb
    PROVE  Kept
BY CrashKept, CollectKept, StopKept, StopAllKept, ClosedKept DEF Disturb

LEMMA NextKept ==
    ASSUME Inv, Next
    PROVE  Kept
<1>1. calls \in Nat /\ upsets \in Nat
  BY DEF Inv, TypeOK
<1>2. CASE \E c \in Callers : Step(c)
  <2>1. PICK c \in Callers : Step(c)
    BY <1>2
  <2>2. (Proceed(c) \/ Fail(c)) /\ UNCHANGED <<calls, upsets>>
    BY <2>1 DEF Step
  <2>3. Bounds'
    BY <1>1, <2>2 DEF Bounds
  <2> QED BY <2>2, <2>3, ProceedKept, FailKept
<1>3. CASE (Age \/ Reap \/ Closed(FALSE)) /\ UNCHANGED <<calls, upsets>>
  <2>1. Bounds'
    BY <1>1, <1>3 DEF Bounds
  <2> QED BY <1>3, <2>1, AgeKept, ReapKept, ClosedKept
<1>4. CASE /\ calls > 0 /\ calls' = calls - 1 /\ UNCHANGED upsets
           /\ \E c \in Callers : Begin(c)
  <2>1. Bounds'
    BY <1>1, <1>4 DEF Bounds
  <2> QED BY <1>4, <2>1, BeginKept
<1>5. CASE /\ upsets > 0 /\ upsets' = upsets - 1 /\ UNCHANGED calls
           /\ (Disturb \/ \E c \in Callers : Upset(c))
  <2>1. Bounds'
    BY <1>1, <1>5 DEF Bounds
  <2> QED BY <1>5, <2>1, DisturbKept, UpsetKept
<1> QED BY <1>2, <1>3, <1>4, <1>5 DEF Next

LEMMA InitFits ==
    ASSUME Init
    PROVE  Inv
<1>1. scene.max \in Nat \ {0} /\ scene.calls \in Nat /\ scene.upsets \in Nat
  BY ScenesAssumption DEF Init
<1>2. TypeOK
  <2>1. 0 \in 0..RestartAt
    BY ThresholdsAssumption
  <2>2. [c \in Callers |-> Idle] \in [Callers -> Requests]
    BY IdleGoes
  <2> HIDE DEF Idle
  <2> QED BY <1>1, <2>1, <2>2 DEF Init, TypeOK
<1>3. StrikesArePooled
  BY DEF Init, StrikesArePooled
<1>4. Pooled = {}
  BY DEF Init, Pooled
<1>5. PagesDistinct
  BY <1>4 DEF PagesDistinct
<1>6. \A c \in Callers : req[c] = Idle
  BY DEF Init
<1>7. Wanted = {}
  <2>1. Wants(Idle) = None
    BY IdleGoes DEF Wants
  <2> QED BY <1>6, <2>1 DEF Wanted
<1>8. WantedFits
  <2>1. Cardinality(Pooled \cup Wanted) = 0
    BY <1>4, <1>7, FS_EmptySet
  <2> QED BY <1>1, <2>1, PoolFinite DEF WantedFits
<1>9. ASSUME NEW c \in Callers PROVE Shape(req[c]) /\ BuildFits(c)
  <2>1. Shape(Idle) /\ Idle.pc = "idle"
    BY IdleGoes DEF Goes
  <2>2. build = None /\ c # None
    BY Names DEF Init
  <2> QED BY <1>6, <2>1, <2>2 DEF BuildFits, Building
<1> QED BY <1>2, <1>3, <1>5, <1>8, <1>9 DEF Inv

\* A step that changes nothing.
LEMMA StutterKept ==
    ASSUME Inv, UNCHANGED vars
    PROVE  Inv' /\ pool' = pool
<1>1. /\ UNCHANGED <<scene, browser, healthy, recent, open, closing, pool, ready, affinity, strikes,
                     doomed, build, req>>
      /\ UNCHANGED <<calls, upsets>>
  BY DEF vars
<1>2. TypeOK'
  BY <1>1 DEF Inv, TypeOK
<1>3. StrikesArePooled'
  BY <1>1 DEF Inv, StrikesArePooled
<1> QED BY <1>1, <1>2, <1>3, Stays DEF Kept

LEMMA Invariance == Spec => []Inv
<1>1. Inv /\ [Next]_vars => Inv'
  BY NextKept, StutterKept DEF Kept
<1> QED BY InitFits, <1>1, PTL DEF Spec

\* The variables keep their types: whatever the interleaving, a request that returns from a call
\* finds a branch of its operation to go on with, and a tab and a slot where it uses one.
THEOREM TypeCorrect == Spec => []TypeOK
<1>1. Inv => TypeOK
  BY DEF Inv
<1> QED BY Invariance, <1>1, PTL

\* Strikes are held against tabs of the pool: a slot that leaves it, by a rebuild, the reaper, a
\* stop or the end of the browser, takes its error streak along.
THEOREM StrikesPooled == Spec => []StrikesArePooled
<1>1. Inv => StrikesArePooled
  BY DEF Inv
<1> QED BY Invariance, <1>1, PTL

\* No two slots share a page, although builds take over pages that nobody lists and removals run
\* while they wait: whoever is in _create_resident_tab holds _tab_build_lock, and its page is
\* that of no slot until it is done.
THEOREM PagesApart == Spec => []PagesDistinct
<1>1. Inv => PagesDistinct
  BY DEF Inv
<1> QED BY Invariance, <1>1, PTL

\* The pool outgrows its limit by less than one tab for every request: rebuilds do not look for
\* room, but each restores a slot that it remembers, and remembers one only.
THEOREM PoolBound == Spec => []PoolBounded
<1>1. Inv => PoolBounded
  <2> SUFFICES ASSUME Inv PROVE PoolBounded
    OBVIOUS
  <2>1. Pooled \in SUBSET (Pooled \cup Wanted)
    OBVIOUS
  <2>2. Occupied <= Cardinality(Pooled \cup Wanted)
    BY <2>1, PoolFinite, FS_Subset DEF Occupied
  <2>3. scene.max \in Nat
    BY ScenesAssumption DEF Inv, TypeOK
  <2>4. WantedFits
    BY DEF Inv
  <2> QED BY <2>2, <2>3, <2>4, PoolFinite DEF WantedFits, PoolBounded
<1> QED BY Invariance, <1>1, PTL

\* A build never takes the pool past its limit: it looked for room with _tab_build_lock in hand,
\* and until it gives the lock back only removals change the pool.
THEOREM BuildsFit == Spec => BuildsFitPool
<1>1. Inv /\ [Next]_vars =>
         [\A c \in Callers :
             req[c].pc = "create" /\ req[c].new # None /\ pool' # pool
                => Occupied' <= scene.max]_vars
  BY NextKept DEF Kept
<1> QED BY Invariance, <1>1, PTL DEF Spec, BuildsFitPool

=============================================================================
