-------------------------- MODULE OnboardingProofs --------------------------
(***************************************************************************)
(* Theorems about Onboarding: its types, that an onboarding which could    *)
(* clean up leaves a whole account or none, and that the requests of an    *)
(* account take its projects in turn, for any accounts, clients, pool size *)
(* and bounds.                                                             *)
(***************************************************************************)
EXTENDS Onboarding, FiniteSetTheorems, SequenceTheorems, TLAPS

-----------------------------------------------------------------------------
(* The inductive invariant.                                                *)

Full == 1..PoolSize

Knowing == {"create", "add", "point", "pick"}

(* What any call k knows.                                                  *)
CallFits(k) ==
  /\ k.pc = "idle" => k = NoCall
  /\ k.pc # "idle" => k.account \in Accounts
  /\ k.pc \in Knowing => k.list \subseteq 1..projects[k.account]
  /\ k.pc \in {"point", "pick"} => Cardinality(k.list) >= PoolSize
  /\ k.pc = "point" => k.cur \notin Pool(k.list)

(* A request c has the lock of a live account.  Once the account took      *)
(* turns the request works on the current project and the first ones.      *)
ClientFits(c, k) ==
  k.pc # "idle" =>
    /\ lock[k.account] = c
    /\ row[k.account] = "live"
    /\ k.pc = "pick" => k.cur \in Pool(k.list)
    /\ turns[k.account] # <<>> =>
         /\ k.pc # "token" => k.cur = current[k.account]
         /\ k.pc \in Knowing => Full \subseteq k.list

(* The onboarding calls for its own account, while it fills the pool.      *)
CliFits ==
  /\ call[Cli].pc # "idle" <=> run.pc = "pool"
  /\ run.pc = "pool" => call[Cli].account = run.id
  /\ call[Cli].pc # "pick"

Filled(a) == projects[a] >= PoolSize

Whole(a) == row[a] = "live" /\ profile[a] /\ (a \notin Existing => Filled(a))

(* Where the profile and the row of a new account are.                     *)
NewFits ==
  /\ run.pc # "idle"
  /\ run.pc \in {"login", "insert"} => run.id = None
  /\ run.at = "canonical" => run.id # None /\ run.pc \in {"publish", "unrow", "sweep"}
  /\ run.pc = "publish" => run.at = "canonical"
  /\ run.id # None =>
       /\ profile[run.id] <=> run.at = "canonical"
       /\ IF run.pc = "sweep" THEN row[run.id] = "none" \/ run.id \in torn
                              ELSE row[run.id] = "pending"

(* An existing account is whole, or was left torn by an earlier run.       *)
OldFits ==
  /\ run.pc \in {"idle", "pool", "publish"} /\ run.at = "temp"
  /\ run.id # None => profile[run.id] /\ (run.id \in torn \/ Whole(run.id))

RunFits ==
  /\ run.pc = "idle" => run = NoRun
  /\ run.pc # "idle" => run.no # 0
  /\ run.id \in given \cup {None}
  /\ run.pc \in {"pool", "rename", "publish"} => run.id # None
  /\ run.pc \in {"rename", "publish"} => Filled(run.id)
  /\ IF run.new THEN NewFits ELSE OldFits
  /\ temps \subseteq lost \cup (IF run.new /\ run.at = "temp" THEN {run.no} ELSE {})

(* The project k turns before project x, round the first PoolSize.         *)
Back(x, k) == IF k < x THEN x - k ELSE x - k + PoolSize

(* The turns taken lead to the current project, round the first PoolSize;  *)
(* only the oldest may have been taken in a pool read before it was full.  *)
Turning(taken, cur) ==
  \/ taken = <<>>
  \/ /\ Len(taken) = 1 /\ taken[1] = cur
  \/ /\ cur \in Full /\ Len(taken) <= PoolSize
     /\ \A i \in 1..Len(taken) :
          taken[i] = Back(cur, Len(taken) - i) \/ (i = 1 /\ taken[1] > PoolSize)

AccountFits(a) ==
  /\ a \notin given => row[a] = "none" /\ ~profile[a]
  /\ row[a] # "live" => turns[a] = <<>>
  /\ turns[a] # <<>> => Filled(a)
  /\ Turning(turns[a], current[a])
  /\ a \notin torn \cup {run.id} => Whole(a) \/ (row[a] = "none" /\ ~profile[a])

OnboardingInv ==
  /\ OnboardingTypeOK /\ Existing \subseteq given
  /\ \A p \in Callers : CallFits(call[p])
  /\ \A c \in Clients : ClientFits(c, call[c])
  /\ CliFits /\ RunFits
  /\ \A a \in Accounts : AccountFits(a)

-----------------------------------------------------------------------------
(* Lists of projects.                                                      *)

LEMMA ListFinite ==
  ASSUME NEW k \in Nat, NEW list, list \subseteq 1..k
  PROVE  /\ IsFiniteSet(list) /\ Cardinality(list) \in Nat
         /\ Cardinality(list) <= k
<1>1. IsFiniteSet(1..k) /\ Cardinality(1..k) = k
  BY FS_Interval
<1>2. list \in SUBSET (1..k)
  OBVIOUS
<1>3. IsFiniteSet(list) /\ Cardinality(list) <= k
  BY <1>1, <1>2, FS_Subset
<1> QED BY <1>3, FS_CardinalityType

(* A list that is not empty has a first project: the initial intervals     *)
(* that end in it are well-founded by inclusion.                           *)
LEMMA LeastOf ==
  ASSUME NEW k \in Nat, NEW list, list \subseteq 1..k, list # {}
  PROVE  /\ First(list) \in list
         /\ \A m \in list : First(list) <= m
<1> DEFINE starts == {1..n : n \in list}
           R == StrictSubsetOrdering(1..k)
<1>1. IsWellFoundedOn(R, SUBSET (1..k))
  <2>1. IsFiniteSet(1..k)
    BY FS_Interval
  <2>2. FiniteSubsetsOf(1..k) = SUBSET (1..k)
    BY <2>1, FS_FiniteSubsetsOfFinite
  <2> QED BY <2>2, FS_StrictSubsetOrderingWellFounded
<1>2. starts \subseteq SUBSET (1..k) /\ starts # {}
  <2>1. PICK n \in list : TRUE
    OBVIOUS
  <2>2. 1..n \in starts
    BY Zenon
  <2>3. ASSUME NEW m \in list PROVE 1..m \subseteq 1..k
    <3>1. m \in 1..k
      OBVIOUS
    <3> QED BY <3>1
  <2> QED BY <2>2, <2>3
<1>3. \E s \in starts : \A t \in starts : ~ (<<t, s>> \in R)
  <2> HIDE DEF starts, R
  <2> QED BY <1>1, <1>2, WFMin
<1>4. PICK n \in list : \A m \in list : ~ (<<1..m, 1..n>> \in R)
  BY <1>3
<1>5. ASSUME NEW m \in list PROVE n <= m
  <2> SUFFICES ASSUME m < n PROVE FALSE
    OBVIOUS
  <2>1. 1..m \subseteq 1..n /\ n \in 1..n /\ n \notin 1..m
    OBVIOUS
  <2>2. 1..m \in SUBSET (1..k) /\ 1..n \in SUBSET (1..k)
    OBVIOUS
  <2>3. 1..m # 1..n
    BY <2>1
  <2>4. <<1..m, 1..n>> \in R
    BY <2>1, <2>2, <2>3 DEF StrictSubsetOrdering
  <2> QED BY <1>4, <2>4
<1> QED BY <1>5 DEF First

LEMMA ListNonempty ==
  ASSUME NEW k \in Nat, NEW list, list \subseteq 1..k, Cardinality(list) >= PoolSize
  PROVE  list # {} /\ k >= PoolSize
<1>1. Cardinality(list) \in Nat /\ Cardinality(list) <= k
  BY ListFinite
<1>2. PoolSize \in Nat \ {0}
  BY OnboardingAssumption
<1>3. list # {}
  BY <1>2, FS_EmptySet
<1> QED BY <1>1, <1>2, <1>3

(* The first project that is known of belongs to the pool.                 *)
LEMMA FirstPooled ==
  ASSUME NEW k \in Nat, NEW list, list \subseteq 1..k, list # {}
  PROVE  First(list) \in Pool(list)
<1> DEFINE below == {m \in list : m < First(list)}
<1>1. First(list) \in list /\ \A m \in list : First(list) <= m
  BY LeastOf
<1>2. below = {}
  <2> SUFFICES ASSUME NEW m \in list PROVE ~ (m < First(list))
    OBVIOUS
  <2>1. m \in 1..k /\ First(list) \in 1..k
    BY <1>1
  <2> QED BY <1>1, <2>1
<1>3. Cardinality(below) < PoolSize
  <2>1. Cardinality(below) = 0
    BY <1>2, FS_EmptySet, Zenon
  <2> QED BY <2>1, OnboardingAssumption
<1> QED BY <1>1, <1>3, Zenon DEF Pool

(* The pool of a list that has the first PoolSize projects are these.      *)
LEMMA PoolOfFull ==
  ASSUME NEW k \in Nat, NEW list, list \subseteq 1..k, Full \subseteq list
  PROVE  Pool(list) = Full
<1> DEFINE below(n) == {m \in list : m < n}
<1>1. ASSUME NEW n \in Full PROVE n \in Pool(list)
  <2>1. below(n) \subseteq 1..(n - 1)
    <3> SUFFICES ASSUME NEW m \in list, m < n PROVE m \in 1..(n - 1)
      OBVIOUS
    <3>1. m \in 1..k /\ n \in 1..PoolSize
      BY <1>1 DEF Full
    <3> QED BY <3>1, OnboardingAssumption
  <2>2. n \in Nat /\ n - 1 \in Nat /\ n <= PoolSize /\ PoolSize \in Nat
    BY OnboardingAssumption DEF Full
  <2>3. Cardinality(below(n)) <= n - 1 /\ Cardinality(below(n)) \in Nat
    <3> HIDE DEF below
    <3> QED BY <2>1, <2>2, ListFinite
  <2>4. Cardinality(below(n)) < PoolSize
    BY <2>2, <2>3
  <2> QED BY <2>4 DEF Pool
<1>2. ASSUME NEW n \in list, n \notin Full PROVE n \notin Pool(list)
  <2>1. Full \subseteq below(n)
    BY <1>2, OnboardingAssumption DEF Full
  <2>2. IsFiniteSet(below(n)) /\ Cardinality(below(n)) \in Nat
    <3>1. below(n) \subseteq 1..k
      OBVIOUS
    <3> QED BY <3>1, ListFinite
  <2>3. Cardinality(Full) = PoolSize
    BY FS_Interval, OnboardingAssumption DEF Full
  <2>4. Cardinality(below(n)) >= PoolSize
    BY <2>1, <2>2, <2>3, FS_Subset, OnboardingAssumption
  <2> QED BY <2>2, <2>4, OnboardingAssumption DEF Pool
<1> QED BY <1>1, <1>2 DEF Pool

LEMMA FirstOfFull ==
  ASSUME NEW k \in Nat, NEW list, list \subseteq 1..k, Full \subseteq list
  PROVE  First(list) = 1
<1>1. 1 \in list /\ list # {}
  BY OnboardingAssumption DEF Full
<1>2. First(list) \in list /\ First(list) <= 1
  BY <1>1, LeastOf
<1>3. First(list) \in 1..k
  BY <1>2
<1> QED BY <1>2, <1>3

LEMMA NextPooled ==
  ASSUME NEW k \in Nat, NEW cur \in Nat, NEW list, list \subseteq 1..k, list # {}
  PROVE  NextProject(cur, list) \in list
<1> DEFINE later == {n \in list : n > cur}
<1>1. later # {} => First(later) \in later
  BY LeastOf
<1>2. First(list) \in list
  BY LeastOf
<1> QED BY <1>1, <1>2 DEF NextProject

(* In a full pool the next project is the next number.                     *)
LEMMA NextOfFull ==
  ASSUME NEW cur \in Full
  PROVE  NextProject(cur, Full) = IF cur = PoolSize THEN 1 ELSE cur + 1
<1> DEFINE later == {n \in Full : n > cur}
<1>1. CASE cur = PoolSize
  <2>1. later = {}
    BY <1>1, OnboardingAssumption DEF Full
  <2>2. First(Full) \in Full /\ \A m \in Full : First(Full) <= m
    BY LeastOf, OnboardingAssumption DEF Full
  <2>3. First(Full) = 1
    BY <2>2, OnboardingAssumption DEF Full
  <2> QED BY <1>1, <2>1, <2>3 DEF NextProject
<1>2. CASE cur # PoolSize
  <2>1. later \subseteq 1..PoolSize /\ cur + 1 \in later
    BY <1>2, OnboardingAssumption DEF Full
  <2>2. First(later) \in later /\ \A m \in later : First(later) <= m
    BY <2>1, LeastOf, OnboardingAssumption
  <2>3. First(later) = cur + 1
    BY <2>1, <2>2, OnboardingAssumption DEF Full
  <2> QED BY <1>2, <2>1, <2>3 DEF NextProject
<1> QED BY <1>1, <1>2

-----------------------------------------------------------------------------
(* Turns.                                                                  *)

LEMMA TakenProperties ==
  ASSUME NEW taken \in Seq(Numbers), NEW n \in Numbers
  PROVE  /\ Taken(taken, n) \in Seq(Numbers) /\ Taken(taken, n) # <<>>
         /\ Len(taken) < PoolSize =>
              /\ Len(Taken(taken, n)) = Len(taken) + 1
              /\ \A i \in 1..Len(taken) : Taken(taken, n)[i] = taken[i]
         /\ Len(taken) >= PoolSize =>
              /\ Len(Taken(taken, n)) = Len(taken)
              /\ \A i \in 1..(Len(taken) - 1) : Taken(taken, n)[i] = taken[i + 1]
         /\ Taken(taken, n)[Len(Taken(taken, n))] = n
<1> PoolSize \in Nat \ {0} /\ Len(taken) \in Nat
  BY OnboardingAssumption
<1>1. CASE Len(taken) < PoolSize
  BY <1>1, AppendProperties DEF Taken
<1>2. CASE Len(taken) >= PoolSize
  <2>1. taken # <<>>
    BY <1>2
  <2>2. /\ Tail(taken) \in Seq(Numbers) /\ Len(Tail(taken)) = Len(taken) - 1
        /\ \A i \in 1..Len(Tail(taken)) : Tail(taken)[i] = taken[i + 1]
    BY <2>1, HeadTailProperties
  <2>3. Taken(taken, n) = Append(Tail(taken), n)
    BY <1>2 DEF Taken
  <2> DEFINE tail == Tail(taken)
  <2>4. tail \in Seq(Numbers) /\ Len(tail) \in Nat /\ Len(tail) = Len(taken) - 1
    BY <2>2
  <2>5. \A i \in 1..Len(tail) : tail[i] = taken[i + 1]
    BY <2>2
  <2>6. Taken(taken, n) = Append(tail, n)
    BY <2>3
  <2> HIDE DEF tail
  <2> QED BY <1>2, <2>4, <2>5, <2>6, AppendProperties
<1> QED BY <1>1, <1>2

LEMMA BackDistinct ==
  ASSUME NEW x \in Full, NEW k \in 0..(PoolSize - 1), NEW m \in 0..(PoolSize - 1),
         Back(x, k) = Back(x, m)
  PROVE  k = m
BY OnboardingAssumption DEF Back, Full

LEMMA BackFull ==
  ASSUME NEW x \in Full, NEW k \in 0..(PoolSize - 1)
  PROVE  Back(x, k) \in Full
BY OnboardingAssumption DEF Back, Full

(* Turns in order are all different.                                       *)
LEMMA TurningDistinct ==
  ASSUME NEW taken \in Seq(Numbers), NEW cur, Turning(taken, cur)
  PROVE  IsInjective(taken)
<1> PoolSize \in Nat \ {0} /\ Len(taken) \in Nat /\ DOMAIN taken = 1..Len(taken)
  BY OnboardingAssumption
<1> SUFFICES ASSUME NEW i \in 1..Len(taken), NEW j \in 1..Len(taken),
                    taken[i] = taken[j]
             PROVE  i = j
  BY DEF IsInjective
<1>1. CASE taken = <<>> \/ Len(taken) = 1
  BY <1>1
<1>2. CASE /\ cur \in Full /\ Len(taken) <= PoolSize
           /\ \A h \in 1..Len(taken) :
                taken[h] = Back(cur, Len(taken) - h) \/ (h = 1 /\ taken[1] > PoolSize)
  <2> DEFINE back(h) == Len(taken) - h
  <2>1. back(i) \in 0..(PoolSize - 1) /\ back(j) \in 0..(PoolSize - 1)
    BY <1>2
  <2>2. Back(cur, back(i)) \in Full /\ Back(cur, back(j)) \in Full
    BY <1>2, <2>1, BackFull
  <2>3. CASE taken[i] = Back(cur, back(i)) /\ taken[j] = Back(cur, back(j))
    <3>1. back(i) = back(j)
      BY <1>2, <2>1, <2>3, BackDistinct
    <3> QED BY <3>1
  <2>4. CASE i = 1 /\ taken[1] > PoolSize
    BY <1>2, <2>2, <2>4 DEF Full
  <2>5. CASE j = 1 /\ taken[1] > PoolSize
    BY <1>2, <2>2, <2>5 DEF Full
  <2> QED BY <1>2, <2>3, <2>4, <2>5
<1> QED BY <1>1, <1>2 DEF Turning

(* One turn back from the next project is the project taken now.           *)
LEMMA BackNext ==
  ASSUME NEW cur \in Full, NEW n, n = IF cur = PoolSize THEN 1 ELSE cur + 1,
         NEW k \in Nat, k + 1 < PoolSize
  PROVE  n \in Full /\ Back(n, k + 1) = Back(cur, k) /\ Back(n, 0) = n
BY OnboardingAssumption DEF Back, Full

(* Taking the next project keeps the turns in order.                       *)
LEMMA TurningPick ==
  ASSUME NEW taken \in Seq(Numbers), NEW cur, NEW n \in Numbers, Turning(taken, cur),
         taken # <<>> => cur \in Full /\ n = IF cur = PoolSize THEN 1 ELSE cur + 1
  PROVE  Turning(Taken(taken, n), n)
<1> DEFINE new == Taken(taken, n)
<1> PoolSize \in Nat \ {0} /\ Len(taken) \in Nat
  BY OnboardingAssumption
<1>0. /\ Len(taken) < PoolSize =>
           /\ Len(new) = Len(taken) + 1
           /\ \A i \in 1..Len(taken) : new[i] = taken[i]
      /\ Len(taken) >= PoolSize =>
           /\ Len(new) = Len(taken)
           /\ \A i \in 1..(Len(taken) - 1) : new[i] = taken[i + 1]
      /\ new[Len(new)] = n
  BY TakenProperties
<1> HIDE DEF new
<1>1. CASE taken = <<>>
  <2>1. Len(new) = 1 /\ new[1] = n
    BY <1>0, <1>1
  <2> QED BY <2>1 DEF Turning, new
<1>2. CASE taken # <<>>
  <2>1. /\ cur \in Full /\ Len(taken) <= PoolSize /\ Len(taken) >= 1
        /\ \A i \in 1..Len(taken) :
             taken[i] = Back(cur, Len(taken) - i) \/ (i = 1 /\ taken[1] > PoolSize)
    <3>1. CASE Len(taken) = 1 /\ taken[1] = cur
      <4>1. taken[1] = Back(cur, 0)
        BY <1>2, <3>1 DEF Back, Full
      <4> QED BY <1>2, <3>1, <4>1
    <3> QED BY <1>2, <3>1 DEF Turning
  <2>2. n \in Full /\ Back(n, 0) = n
    BY <1>2, <2>1 DEF Back, Full
  <2>3. CASE Len(taken) < PoolSize
    <3>1. Len(new) = Len(taken) + 1
      BY <1>0, <2>3
    <3>2. ASSUME NEW i \in 1..Len(taken)
          PROVE  new[i] = Back(n, Len(new) - i) \/ (i = 1 /\ new[1] > PoolSize)
      <4> DEFINE k == Len(taken) - i
      <4>1. k \in Nat /\ k + 1 < PoolSize /\ Len(new) - i = k + 1
        BY <2>3, <3>1
      <4>2. Back(n, k + 1) = Back(cur, k)
        BY <1>2, <2>1, <4>1, BackNext
      <4> QED BY <1>0, <2>1, <2>3, <4>1, <4>2
    <3>3. new[Len(taken) + 1] = Back(n, 0)
      BY <1>0, <2>2, <3>1
    <3> QED BY <2>2, <2>3, <3>1, <3>2, <3>3 DEF Turning, new
  <2>4. CASE Len(taken) = PoolSize
    <3>1. Len(new) = PoolSize
      BY <1>0, <2>4
    <3>2. ASSUME NEW i \in 1..(PoolSize - 1)
          PROVE  new[i] = Back(n, Len(new) - i)
      <4> DEFINE k == PoolSize - (i + 1)
      <4>1. k \in Nat /\ k + 1 < PoolSize /\ Len(new) - i = k + 1
        BY <3>1
      <4>2. Back(n, k + 1) = Back(cur, k)
        BY <1>2, <2>1, <4>1, BackNext
      <4>3. taken[i + 1] = Back(cur, k)
        BY <2>1, <2>4
      <4> QED BY <1>0, <2>4, <4>1, <4>2, <4>3
    <3>3. new[PoolSize] = Back(n, 0)
      BY <1>0, <2>2, <3>1
    <3> QED BY <2>2, <3>1, <3>2, <3>3 DEF Turning, new
  <2> QED BY <2>1, <2>3, <2>4
<1> QED BY <1>1, <1>2

(* An account whose current project is not among the first was used once,  *)
(* and may go on from the first.                                           *)
LEMMA TurningPoint ==
  ASSUME NEW taken \in Seq(Numbers), NEW cur, Turning(taken, cur), cur \notin Full
  PROVE  Turning(taken, 1)
<1> PoolSize \in Nat \ {0} /\ MaxProjects \in Nat
  BY OnboardingAssumption
<1>1. CASE taken = <<>>
  BY <1>1 DEF Turning
<1>2. CASE Len(taken) = 1 /\ taken[1] = cur
  <2>1. taken[1] \in Numbers
    BY <1>2
  <2>2. taken[1] > PoolSize
    BY <1>2, <2>1 DEF Full, Numbers
  <2> QED BY <1>2, <2>2 DEF Turning, Full
<1> QED BY <1>1, <1>2 DEF Turning

-----------------------------------------------------------------------------
(* The invariant holds at the start and is kept by every action.           *)

LEMMA InitFine == OnboardingInit => OnboardingInv
<1> SUFFICES ASSUME OnboardingInit PROVE OnboardingInv
  OBVIOUS
<1> USE OnboardingAssumption DEF OnboardingInit
<1>1. OnboardingTypeOK /\ Existing \subseteq given
  BY DEF OnboardingTypeOK, Calls, Runs, NoCall, NoRun, Callers, Numbers
<1>2. \A p \in Callers : CallFits(call[p])
  BY DEF CallFits, NoCall, Knowing
<1>3. \A c \in Clients : ClientFits(c, call[c])
  BY DEF ClientFits, NoCall, Callers
<1>4. CliFits /\ RunFits
  BY DEF CliFits, RunFits, OldFits, NoRun, NoCall, Callers
<1>5. \A a \in Accounts : AccountFits(a)
  BY DEF AccountFits, Turning, Whole, NoRun
<1> QED BY <1>1, <1>2, <1>3, <1>4, <1>5 DEF OnboardingInv

(* The callers are told apart.                                             *)
LEMMA CallersDistinct == Cli \in Callers /\ \A c \in Clients : c \in Callers /\ c # Cli
BY OnboardingAssumption DEF Callers

(* A step that moves one call and nothing else.                            *)
LEMMA CallMoves ==
  ASSUME OnboardingInv, NEW p \in Callers, NEW k \in Calls,
         call' = [call EXCEPT ![p] = k],
         UNCHANGED <<rows, pool, disk, run, history>>,
         CallFits(k),
         p \in Clients => ClientFits(p, k),
         p = Cli => k.pc # "idle" /\ k.pc # "pick" /\ k.account = run.id /\ run.pc = "pool"
  PROVE  OnboardingInv'
<1> USE DEF OnboardingInv, rows, pool, disk, history
<1>1. OnboardingTypeOK' /\ (Existing \subseteq given)'
  BY DEF OnboardingTypeOK
<1>2. \A x \in Callers : CallFits(call[x])'
  <2>1. ASSUME NEW x \in Callers PROVE CallFits(call'[x])
    BY DEF OnboardingTypeOK
  <2> QED BY <2>1 DEF CallFits
<1>3. \A c \in Clients : ClientFits(c, call[c])'
  <2>1. ASSUME NEW c \in Clients PROVE ClientFits(c, call'[c])
    BY CallersDistinct DEF OnboardingTypeOK
  <2> QED BY <2>1 DEF ClientFits
<1>4. CliFits'
  BY CallersDistinct DEF CliFits, OnboardingTypeOK
<1>5. RunFits'
  BY DEF RunFits, NewFits, OldFits, Whole, Filled
<1>6. \A a \in Accounts : AccountFits(a)'
  BY DEF AccountFits, Whole, Filled
<1> QED BY <1>1, <1>2, <1>3, <1>4, <1>5, <1>6

(* The call that a caller has in hand.                                     *)
LEMMA CallShape ==
  ASSUME OnboardingInv, NEW p \in Callers
  PROVE  /\ call[p] \in Calls /\ CallFits(call[p])
         /\ p \in Clients => ClientFits(p, call[p])
         /\ p = Cli => /\ call[p].pc # "idle" <=> run.pc = "pool"
                       /\ run.pc = "pool" => call[p].account = run.id
                       /\ call[p].pc # "pick"
         /\ call[p].pc # "idle" => /\ call[p].account \in Accounts
                                   /\ current[call[p].account] \in 0..MaxProjects
                                   /\ projects[call[p].account] \in 0..MaxProjects
                                   /\ turns[call[p].account] \in Seq(Numbers)
BY DEF OnboardingInv, OnboardingTypeOK, CliFits, CallFits

LEMMA ReadTokenFine ==
  ASSUME OnboardingInv, NEW p \in Callers, ReadToken(p)
  PROVE  OnboardingInv'
<1> USE CallShape DEF ReadToken, Stands
<1> DEFINE k == [call[p] EXCEPT !.cur = current[call[p].account], !.pc = "list"]
<1>1. k \in Calls /\ call' = [call EXCEPT ![p] = k]
  BY DEF Calls, OnboardingInv, OnboardingTypeOK
<1>2. CallFits(k)
  BY <1>1 DEF CallFits, Knowing, Calls
<1>3. p \in Clients => ClientFits(p, k)
  BY <1>1 DEF ClientFits, Knowing, Calls
<1>4. p = Cli => k.pc # "idle" /\ k.pc # "pick" /\ k.account = run.id /\ run.pc = "pool"
  BY <1>1 DEF Calls
<1> HIDE DEF k
<1> QED BY <1>1, <1>2, <1>3, <1>4, CallMoves

LEMMA ReadProjectsFine ==
  ASSUME OnboardingInv, NEW p \in Callers, ReadProjects(p)
  PROVE  OnboardingInv'
<1> USE CallShape DEF ReadProjects, Stands
<1> DEFINE k == [call[p] EXCEPT !.list = 1..projects[call[p].account], !.pc = "create"]
<1>1. k \in Calls /\ call' = [call EXCEPT ![p] = k]
  BY OnboardingAssumption DEF Calls, OnboardingInv, OnboardingTypeOK, Numbers
<1>2. CallFits(k)
  BY <1>1 DEF CallFits, Knowing, Calls
<1>3. ASSUME p \in Clients PROVE ClientFits(p, k)
  <2> DEFINE a == call[p].account
  <2>1. turns[a] # <<>> => Full \subseteq 1..projects[a]
    BY OnboardingAssumption DEF OnboardingInv, AccountFits, Filled, Full
  <2> QED BY <1>1, <1>3, <2>1 DEF ClientFits, Knowing, Calls
<1>4. p = Cli => k.pc # "idle" /\ k.pc # "pick" /\ k.account = run.id /\ run.pc = "pool"
  BY <1>1 DEF Calls
<1> HIDE DEF k
<1> QED BY <1>1, <1>2, <1>3, <1>4, CallMoves

LEMMA CreateProjectFine ==
  ASSUME OnboardingInv, NEW p \in Callers, CreateProject(p)
  PROVE  OnboardingInv'
<1> USE CallShape DEF CreateProject, Stands, Step
<1> DEFINE k == [call[p] EXCEPT !.pc = "add"]
<1>1. k \in Calls /\ call' = [call EXCEPT ![p] = k]
  BY DEF Calls, OnboardingInv, OnboardingTypeOK
<1>2. CallFits(k)
  BY <1>1 DEF CallFits, Knowing, Calls
<1>3. p \in Clients => ClientFits(p, k)
  BY <1>1 DEF ClientFits, Knowing, Calls
<1>4. p = Cli => k.pc # "idle" /\ k.pc # "pick" /\ k.account = run.id /\ run.pc = "pool"
  BY <1>1 DEF Calls
<1> HIDE DEF k
<1> QED BY <1>1, <1>2, <1>3, <1>4, CallMoves

LEMMA AddProjectFine ==
  ASSUME OnboardingInv, NEW p \in Callers, AddProject(p)
  PROVE  OnboardingInv'
<1> USE DEF OnboardingInv, rows, disk, history
<1> DEFINE a == call[p].account
           n == projects[a] + 1
           k == [call[p] EXCEPT !.list = @ \cup {n}, !.pc = "create"]
<1>0. /\ call[p] \in Calls /\ CallFits(call[p]) /\ call[p].pc = "add"
      /\ a \in Accounts /\ projects[a] \in Nat /\ n \in Numbers
      /\ projects' = [projects EXCEPT ![a] = n] /\ call' = [call EXCEPT ![p] = k]
      /\ UNCHANGED <<row, given, current, turns, lock, profile, temps, run,
                     torn, lost, runs, upsets>>
  <2>1. /\ call[p] \in Calls /\ CallFits(call[p]) /\ call[p].pc = "add"
        /\ a \in Accounts /\ projects[a] \in 0..MaxProjects
    BY CallShape DEF AddProject, Stands
  <2>2. projects[a] \in Nat /\ n \in Numbers
    BY <2>1, OnboardingAssumption DEF AddProject, Numbers
  <2> QED BY <2>1, <2>2 DEF AddProject
<1>1. OnboardingTypeOK' /\ (Existing \subseteq given)'
  <2>1. projects' \in [Accounts -> 0..MaxProjects]
    BY <1>0, OnboardingAssumption DEF OnboardingTypeOK, Numbers
  <2>2. k \in Calls
    BY <1>0 DEF Calls
  <2>3. call' \in [Callers -> Calls]
    BY <1>0, <2>2 DEF OnboardingTypeOK
  <2> QED BY <1>0, <2>1, <2>3 DEF OnboardingTypeOK
<1>2. \A x \in Callers : CallFits(call[x])'
  <2> SUFFICES ASSUME NEW x \in Callers PROVE CallFits(call[x])'
    OBVIOUS
  <2> DEFINE b == call[x].account
  <2>1. CallFits(call[x]) /\ call[x] \in Calls
    BY CallShape
  <2>2. CASE x = p
    <3>1. /\ call'[x] = k /\ k.pc = "create" /\ k.account = a
          /\ k.list = call[p].list \cup {n}
      BY <1>0, <2>2 DEF OnboardingTypeOK, Calls
    <3>2. k.list \subseteq 1..n
      BY <1>0, <3>1 DEF CallFits, Knowing
    <3> QED BY <1>0, <3>1, <3>2 DEF CallFits, OnboardingTypeOK
  <2>3. CASE x # p
    <3>1. call'[x] = call[x]
      BY <1>0, <2>3 DEF OnboardingTypeOK
    <3>2. call[x].pc # "idle" => 1..projects[b] \subseteq 1..projects'[b]
      BY <1>0, <2>1 DEF CallFits, OnboardingTypeOK
    <3> QED BY <2>1, <3>1, <3>2 DEF CallFits, Knowing
  <2> QED BY <2>2, <2>3
<1>3. \A c \in Clients : ClientFits(c, call[c])'
  <2> SUFFICES ASSUME NEW c \in Clients PROVE ClientFits(c, call[c])'
    OBVIOUS
  <2>1. ClientFits(c, call[c])
    OBVIOUS
  <2>2. CASE c = p
    BY <1>0, <2>1, <2>2 DEF ClientFits, OnboardingTypeOK, Calls, Knowing
  <2>3. CASE c # p
    BY <1>0, <2>1, <2>3, CallersDistinct DEF ClientFits, OnboardingTypeOK
  <2> QED BY <2>2, <2>3
<1>4. CliFits'
  BY <1>0, CallersDistinct DEF CliFits, OnboardingTypeOK, Calls
<1>5. ASSUME NEW b \in Accounts, Filled(b) PROVE Filled(b)'
  BY <1>0, <1>5, OnboardingAssumption DEF Filled, OnboardingTypeOK
<1>6. RunFits'
  BY <1>0, <1>5 DEF RunFits, NewFits, OldFits, Whole, OnboardingTypeOK, Runs
<1>7. \A b \in Accounts : AccountFits(b)'
  BY <1>0, <1>5 DEF AccountFits, Whole
<1> QED BY <1>1, <1>2, <1>3, <1>4, <1>6, <1>7

(* The onboarding has filled its pool, and may have pointed its account at *)
(* the first project.                                                      *)
LEMMA CliDone ==
  ASSUME OnboardingInv, run.pc = "pool", Filled(run.id), Provisioned(Cli),
         UNCHANGED <<rows, projects, lock, disk, history>>,
         \/ current' = current /\ turns' = turns
         \/ \E first \in Numbers : /\ current' = [current EXCEPT ![run.id] = first]
                                   /\ turns' = [turns EXCEPT ![run.id] = <<>>]
  PROVE  OnboardingInv'
<1> USE DEF OnboardingInv, rows, disk, history
<1>0. /\ call' = [call EXCEPT ![Cli] = NoCall]
      /\ run' = [run EXCEPT !.pc = IF run.new THEN "rename" ELSE "publish"]
      /\ run.id \in Accounts
  BY DEF Provisioned, Goto, RunFits, OnboardingTypeOK, Runs
<1>1. OnboardingTypeOK' /\ (Existing \subseteq given)'
  <2>1. run' \in Runs
    BY <1>0 DEF OnboardingTypeOK, Runs
  <2>2. NoCall \in Calls
    BY OnboardingAssumption DEF Calls, NoCall
  <2>3. call' \in [Callers -> Calls]
    BY <1>0, <2>2 DEF OnboardingTypeOK
  <2> DEFINE Taking == /\ current' \in [Accounts -> 0..MaxProjects]
                       /\ turns' \in [Accounts -> Seq(Numbers)]
  <2>4. ASSUME NEW first \in Numbers,
               current' = [current EXCEPT ![run.id] = first],
               turns' = [turns EXCEPT ![run.id] = <<>>]
        PROVE  Taking
    <3>1. first \in 0..MaxProjects /\ <<>> \in Seq(Numbers)
      BY OnboardingAssumption, EmptySeq DEF Numbers
    <3> QED BY <2>4, <3>1 DEF OnboardingTypeOK
  <2>5. ASSUME current' = current, turns' = turns
        PROVE  Taking
    BY <2>5 DEF OnboardingTypeOK
  <2>6. Taking
    BY <2>4, <2>5
  <2>7. UNCHANGED <<row, given, projects, lock, profile, temps, torn, lost, runs, upsets>>
    OBVIOUS
  <2> QED BY <2>1, <2>3, <2>6, <2>7 DEF OnboardingTypeOK
<1>2. \A x \in Callers : CallFits(call[x])'
  <2>1. ASSUME NEW x \in Callers PROVE CallFits(call'[x])
    BY <1>0 DEF OnboardingTypeOK, CallFits, NoCall, Knowing
  <2> QED BY <2>1 DEF CallFits
<1>3. ASSUME NEW b \in Accounts
      PROVE  \/ turns'[b] = turns[b] /\ current'[b] = current[b]
             \/ turns'[b] = <<>>
  BY <1>0 DEF OnboardingTypeOK
<1>4. \A c \in Clients : ClientFits(c, call[c])'
  <2> SUFFICES ASSUME NEW c \in Clients PROVE ClientFits(c, call[c])'
    OBVIOUS
  <2>1. ClientFits(c, call[c]) /\ call'[c] = call[c]
    BY <1>0, CallersDistinct DEF OnboardingTypeOK
  <2>2. call[c].pc # "idle" => call[c].account \in Accounts
    BY CallersDistinct DEF CallFits
  <2> QED BY <1>3, <2>1, <2>2 DEF ClientFits
<1>5. CliFits'
  BY <1>0, CallersDistinct DEF CliFits, OnboardingTypeOK, NoCall, Runs
<1>6. RunFits'
  BY <1>0 DEF RunFits, NewFits, OldFits, Whole, Filled, OnboardingTypeOK, Runs
<1>7. \A b \in Accounts : AccountFits(b)'
  BY <1>0, <1>3 DEF AccountFits, Whole, Filled, Turning, OnboardingTypeOK, Runs
<1> QED BY <1>1, <1>2, <1>4, <1>5, <1>6, <1>7

(* A list that fills the pool.                                             *)
LEMMA ListFull ==
  ASSUME OnboardingInv, NEW p \in Callers, call[p].pc \in Knowing,
         Cardinality(call[p].list) >= PoolSize
  PROVE  /\ Filled(call[p].account) /\ call[p].list # {}
         /\ call[p].list \subseteq 1..projects[call[p].account]
         /\ projects[call[p].account] \in Nat
         /\ First(call[p].list) \in Numbers
         /\ First(call[p].list) \in Pool(call[p].list)
<1> DEFINE k == projects[call[p].account]
<1>1. /\ k \in 0..MaxProjects /\ MaxProjects \in Nat /\ call[p].list \subseteq 1..k
  BY CallShape, OnboardingAssumption DEF CallFits, Knowing
<1>2. call[p].list # {} /\ k >= PoolSize
  BY <1>1, ListNonempty
<1>3. First(call[p].list) \in call[p].list /\ First(call[p].list) \in Pool(call[p].list)
  BY <1>1, <1>2, LeastOf, FirstPooled
<1> QED BY <1>1, <1>2, <1>3 DEF Filled, Numbers

LEMMA PoolFullFine ==
  ASSUME OnboardingInv, NEW p \in Callers, PoolFull(p)
  PROVE  OnboardingInv'
<1> USE CallShape DEF PoolFull, Stands
<1>1. CASE p = Cli /\ call[p].cur \in Pool(call[p].list)
  <2>1. Filled(call[p].account)
    BY ListFull DEF Knowing
  <2> QED BY <1>1, <2>1, CliDone DEF pool
<1>2. CASE p # Cli \/ call[p].cur \notin Pool(call[p].list)
  <2> DEFINE next == IF call[p].cur \in Pool(call[p].list) THEN "pick" ELSE "point"
             k == [call[p] EXCEPT !.pc = next]
  <2>0. call[p].cur \notin Pool(call[p].list) => next = "point"
    OBVIOUS
  <2>1. /\ k \in Calls /\ call' = [call EXCEPT ![p] = k] /\ UNCHANGED run
        /\ k.account = call[p].account /\ k.list = call[p].list
        /\ k.cur = call[p].cur /\ k.pc = next
    BY <1>2 DEF Calls, OnboardingInv, OnboardingTypeOK, Provisioned, Step
  <2>2. CallFits(k)
    <3>1. k.pc = "point" => k.cur \notin Pool(k.list)
      BY <2>1
    <3> QED BY <2>1, <3>1 DEF CallFits, Knowing
  <2>3. p \in Clients => ClientFits(p, k)
    <3>1. k.pc = "pick" => k.cur \in Pool(k.list)
      BY <2>1
    <3> QED BY <2>1, <3>1 DEF ClientFits, Knowing
  <2>4. p = Cli => k.pc # "idle" /\ k.pc # "pick" /\ k.account = run.id /\ run.pc = "pool"
    BY <1>2, <2>1
  <2> HIDE DEF k
  <2> QED BY <2>1, <2>2, <2>3, <2>4, CallMoves
<1> QED BY <1>1, <1>2

LEMMA PointFine ==
  ASSUME OnboardingInv, NEW p \in Callers, Point(p)
  PROVE  OnboardingInv'
<1> USE DEF OnboardingInv, rows, disk, history
<1> DEFINE a == call[p].account
           first == First(call[p].list)
<1>0. /\ call[p] \in Calls /\ CallFits(call[p]) /\ call[p].pc = "point"
      /\ a \in Accounts /\ Filled(a) /\ first \in Numbers /\ first \in Pool(call[p].list)
      /\ current' = [current EXCEPT ![a] = first]
      /\ UNCHANGED <<row, given, projects, lock, profile, temps, torn, lost, runs, upsets>>
  <2>1. /\ call[p] \in Calls /\ CallFits(call[p]) /\ call[p].pc = "point" /\ a \in Accounts
    BY CallShape DEF Point, Stands
  <2>2. Cardinality(call[p].list) >= PoolSize
    BY <2>1 DEF CallFits
  <2> QED BY <2>1, <2>2, ListFull DEF Point, Knowing
<1>1. CASE p = Cli
  <2>1. run.pc = "pool" /\ a = run.id
    BY <1>0, <1>1 DEF CliFits
  <2>2. Provisioned(Cli) /\ turns' = [turns EXCEPT ![a] = <<>>]
    BY <1>1 DEF Point
  <2>3. \E f \in Numbers : /\ current' = [current EXCEPT ![run.id] = f]
                           /\ turns' = [turns EXCEPT ![run.id] = <<>>]
    BY <1>0, <2>1, <2>2
  <2>4. UNCHANGED <<rows, projects, lock, disk, history>>
    BY <1>0
  <2>5. Filled(run.id)
    BY <1>0, <2>1
  <2> QED BY <2>1, <2>2, <2>3, <2>4, <2>5, CliDone
<1>2. CASE p # Cli
  <2> DEFINE k == [call[p] EXCEPT !.cur = first, !.pc = "pick"]
  <2>0. /\ p \in Clients /\ k \in Calls /\ call' = [call EXCEPT ![p] = k]
        /\ k.pc = "pick" /\ k.account = a /\ k.cur = first /\ k.list = call[p].list
        /\ UNCHANGED <<run, turns>> /\ ClientFits(p, call[p])
    <3>1. p \in Clients /\ ClientFits(p, call[p])
      BY <1>2 DEF Callers
    <3>2. first \in 0..MaxProjects
      BY <1>0, OnboardingAssumption DEF Numbers
    <3>3. call' = [call EXCEPT ![p] = k] /\ UNCHANGED <<run, turns>>
      BY <1>2 DEF Point
    <3>4. /\ k \in Calls /\ k.pc = "pick" /\ k.account = a /\ k.cur = first
          /\ k.list = call[p].list
      BY <1>0, <3>2 DEF Calls
    <3> QED BY <3>1, <3>3, <3>4
  <2> HIDE DEF k
  <2>1. OnboardingTypeOK' /\ (Existing \subseteq given)'
    <3>1. current' \in [Accounts -> 0..MaxProjects]
      BY <1>0, OnboardingAssumption DEF OnboardingTypeOK, Numbers
    <3>2. call' \in [Callers -> Calls]
      BY <2>0 DEF OnboardingTypeOK
    <3> QED BY <1>0, <2>0, <3>1, <3>2 DEF OnboardingTypeOK
  <2>2. \A x \in Callers : CallFits(call[x])'
    <3>1. ASSUME NEW x \in Callers PROVE CallFits(call'[x])
      BY <1>0, <2>0 DEF OnboardingTypeOK, CallFits, Knowing
    <3> QED BY <1>0, <3>1 DEF CallFits
  <2>3. \A c \in Clients : ClientFits(c, call[c])'
    <3> SUFFICES ASSUME NEW c \in Clients PROVE ClientFits(c, call[c])'
      OBVIOUS
    <3>1. CASE c = p
      <4>1. call'[c] = k /\ current'[a] = first
        BY <1>0, <2>0, <3>1, CallersDistinct DEF OnboardingTypeOK
      <4>2. turns[a] # <<>> => Full \subseteq call[p].list
        BY <1>0, <2>0 DEF ClientFits, Knowing
      <4>3. lock[a] = p /\ row[a] = "live"
        BY <1>0, <2>0 DEF ClientFits
      <4> QED BY <1>0, <2>0, <3>1, <4>1, <4>2, <4>3 DEF ClientFits
    <3>2. CASE c # p
      <4>1. call'[c] = call[c] /\ ClientFits(c, call[c])
        BY <2>0, <3>2, CallersDistinct DEF OnboardingTypeOK
      <4>2. call[c].pc # "idle" => call[c].account # a
        BY <1>0, <2>0, <3>2, <4>1 DEF ClientFits
      <4>3. call[c].account # a => current'[call[c].account] = current[call[c].account]
        BY <1>0 DEF OnboardingTypeOK
      <4> QED BY <1>0, <2>0, <4>1, <4>2, <4>3 DEF ClientFits
    <3> QED BY <3>1, <3>2
  <2>4. CliFits'
    BY <2>0, <1>2, CallersDistinct DEF CliFits, OnboardingTypeOK
  <2>5. RunFits'
    BY <1>0, <2>0 DEF RunFits, NewFits, OldFits, Whole, Filled
  <2>6. \A b \in Accounts : AccountFits(b)'
    <3> SUFFICES ASSUME NEW b \in Accounts PROVE AccountFits(b)'
      OBVIOUS
    <3>1. Turning(turns[b], current'[b])
      <4>1. CASE b # a \/ turns[b] = <<>>
        BY <1>0, <4>1 DEF AccountFits, OnboardingTypeOK, Turning
      <4>2. CASE b = a /\ turns[b] # <<>>
        <5>1. Full \subseteq call[p].list /\ call[p].cur = current[a]
          BY <1>0, <2>0, <4>2 DEF ClientFits, Knowing
        <5>2. /\ call[p].list \subseteq 1..projects[a] /\ projects[a] \in Nat
              /\ Pool(call[p].list) = Full
          BY <1>0, <5>1, PoolOfFull, OnboardingAssumption
          DEF CallFits, Knowing, OnboardingTypeOK
        <5>3. current[a] \notin Full
          BY <1>0, <5>1, <5>2 DEF CallFits
        <5>4. Turning(turns[a], current[a]) /\ turns[a] \in Seq(Numbers)
          BY <1>0 DEF AccountFits, OnboardingTypeOK
        <5>5. Turning(turns[a], 1)
          BY <5>3, <5>4, TurningPoint
        <5>6. first = 1
          BY <5>1, <5>2, FirstOfFull
        <5> QED BY <1>0, <4>2, <5>5, <5>6 DEF OnboardingTypeOK
      <4> QED BY <4>1, <4>2
    <3> QED BY <1>0, <2>0, <3>1 DEF AccountFits, Whole, Filled
  <2> QED BY <2>1, <2>2, <2>3, <2>4, <2>5, <2>6
<1> QED BY <1>1, <1>2

-----------------------------------------------------------------------------
(* Requests.                                                               *)

LEMMA CalledShape ==
  ASSUME NEW a \in Accounts
  PROVE  Called(a) \in Calls /\ Called(a).pc = "token" /\ Called(a).account = a
<1>1. NoCall \in Calls
  BY OnboardingAssumption DEF NoCall, Calls
<1> QED BY <1>1 DEF Called, Calls

LEMMA RequestFine ==
  ASSUME OnboardingInv, NEW c \in Clients, NEW a \in Accounts, Request(c, a)
  PROVE  OnboardingInv'
<1> USE DEF OnboardingInv, rows, disk, history
<1> DEFINE k == Called(a)
<1>0. /\ c \in Callers /\ call[c].pc = "idle" /\ row[a] = "live" /\ lock[a] = None
      /\ call' = [call EXCEPT ![c] = k] /\ lock' = [lock EXCEPT ![a] = c]
      /\ UNCHANGED <<row, given, projects, current, turns, profile, temps, run,
                     torn, lost, runs, upsets>>
      /\ k \in Calls /\ k.pc = "token" /\ k.account = a
  BY CalledShape, CallersDistinct DEF Request, Stands
<1> HIDE DEF k
<1>1. OnboardingTypeOK' /\ (Existing \subseteq given)'
  BY <1>0 DEF OnboardingTypeOK
<1>2. \A x \in Callers : CallFits(call[x])'
  <2>1. ASSUME NEW x \in Callers PROVE CallFits(call'[x])
    BY <1>0 DEF OnboardingTypeOK, CallFits, Knowing
  <2> QED BY <1>0, <2>1 DEF CallFits
<1>3. \A x \in Clients : ClientFits(x, call[x])'
  <2> SUFFICES ASSUME NEW x \in Clients PROVE ClientFits(x, call[x])'
    OBVIOUS
  <2>1. CASE x = c
    BY <1>0, <2>1 DEF ClientFits, Knowing, OnboardingTypeOK
  <2>2. CASE x # c
    <3>1. call'[x] = call[x] /\ ClientFits(x, call[x])
      BY <1>0, <2>2, CallersDistinct DEF OnboardingTypeOK
    <3>2. call[x].pc # "idle" => call[x].account # a
      BY <1>0, <3>1, OnboardingAssumption DEF ClientFits
    <3> QED BY <1>0, <3>1, <3>2 DEF ClientFits, OnboardingTypeOK
  <2> QED BY <2>1, <2>2
<1>4. CliFits'
  BY <1>0, CallersDistinct DEF CliFits, OnboardingTypeOK
<1>5. RunFits'
  BY <1>0 DEF RunFits, NewFits, OldFits, Whole, Filled
<1>6. \A b \in Accounts : AccountFits(b)'
  BY <1>0 DEF AccountFits, Whole, Filled
<1> QED BY <1>1, <1>2, <1>3, <1>4, <1>5, <1>6

(* A request that is over gives up its lock, and may have taken a turn.    *)
LEMMA ClientDone ==
  ASSUME OnboardingInv, NEW c \in Clients, call[c].pc # "idle",
         call' = [call EXCEPT ![c] = NoCall], lock' = Unlocked(c),
         UNCHANGED <<rows, projects, disk, run, history>>,
         OnboardingTypeOK',
         \A b \in Accounts :
            \/ turns'[b] = turns[b] /\ current'[b] = current[b]
            \/ /\ b = call[c].account /\ Filled(b) /\ row[b] = "live"
               /\ Turning(turns'[b], current'[b])
  PROVE  OnboardingInv'
<1> USE DEF OnboardingInv, rows, disk, history
<1> DEFINE a == call[c].account
<1>0. /\ c \in Callers /\ a \in Accounts /\ lock[a] = c /\ row[a] = "live"
      /\ lock' = [lock EXCEPT ![a] = None]
  BY CallersDistinct DEF CallFits, ClientFits, Unlocked
<1>2. \A x \in Callers : CallFits(call[x])'
  <2>1. ASSUME NEW x \in Callers PROVE CallFits(call'[x])
    BY <1>0 DEF OnboardingTypeOK, CallFits, NoCall, Knowing
  <2> QED BY <1>0, <2>1 DEF CallFits
<1>3. \A x \in Clients : ClientFits(x, call[x])'
  <2> SUFFICES ASSUME NEW x \in Clients PROVE ClientFits(x, call[x])'
    OBVIOUS
  <2>1. CASE x = c
    <3>1. call'[x] = NoCall
      BY <1>0, <2>1 DEF OnboardingTypeOK
    <3> QED BY <3>1 DEF ClientFits, NoCall
  <2>2. CASE x # c
    <3>1. call'[x] = call[x] /\ ClientFits(x, call[x]) /\ CallFits(call[x])
      BY <1>0, <2>2, CallersDistinct DEF OnboardingTypeOK
    <3> SUFFICES ASSUME call[x].pc # "idle" PROVE ClientFits(x, call[x])'
      BY <3>1 DEF ClientFits
    <3> DEFINE b == call[x].account
    <3>2. b # a /\ b \in Accounts
      BY <1>0, <2>2, <3>1 DEF ClientFits, CallFits
    <3>3. turns'[b] = turns[b] /\ current'[b] = current[b] /\ lock'[b] = lock[b]
      BY <1>0, <3>2 DEF OnboardingTypeOK
    <3> QED BY <3>1, <3>3 DEF ClientFits
  <2> QED BY <2>1, <2>2
<1>4. CliFits'
  BY <1>0, CallersDistinct DEF CliFits, OnboardingTypeOK
<1>5. RunFits'
  BY <1>0 DEF RunFits, NewFits, OldFits, Whole, Filled
<1>6. \A b \in Accounts : AccountFits(b)'
  <2> SUFFICES ASSUME NEW b \in Accounts PROVE AccountFits(b)'
    OBVIOUS
  <2> QED BY <1>0 DEF AccountFits, Whole, Filled
<1> QED BY <1>2, <1>3, <1>4, <1>5, <1>6

LEMMA UnlockedType ==
  ASSUME OnboardingInv, NEW c \in Clients, call[c].pc # "idle"
  PROVE  Unlocked(c) \in [Accounts -> Clients \cup {None}]
BY DEF OnboardingInv, OnboardingTypeOK, Unlocked

LEMMA NoCallType ==
  ASSUME OnboardingInv, NEW p \in Callers
  PROVE  [call EXCEPT ![p] = NoCall] \in [Callers -> Calls]
<1>1. NoCall \in Calls
  BY OnboardingAssumption DEF NoCall, Calls
<1> QED BY <1>1 DEF OnboardingInv, OnboardingTypeOK

LEMMA RequestFailsFine ==
  ASSUME OnboardingInv, NEW c \in Clients, RequestFails(c)
  PROVE  OnboardingInv'
<1>1. /\ call[c].pc # "idle" /\ call' = [call EXCEPT ![c] = NoCall]
      /\ lock' = Unlocked(c)
      /\ UNCHANGED <<row, given, projects, current, turns, profile, temps, run,
                     torn, lost, runs, upsets>>
  BY DEF RequestFails, Stands, rows, disk, history
<1>2. OnboardingTypeOK'
  BY <1>1, UnlockedType, NoCallType, CallersDistinct DEF OnboardingInv, OnboardingTypeOK
<1> QED BY <1>1, <1>2, ClientDone DEF rows, disk, history

LEMMA PickFine ==
  ASSUME OnboardingInv, NEW c \in Clients, Pick(c)
  PROVE  OnboardingInv'
<1> DEFINE a == call[c].account
           n == NextProject(call[c].cur, Pool(call[c].list))
<1>0. /\ c \in Callers /\ call[c].pc = "pick" /\ call' = [call EXCEPT ![c] = NoCall]
      /\ lock' = Unlocked(c)
      /\ current' = [current EXCEPT ![a] = n]
      /\ turns' = [turns EXCEPT ![a] = Taken(turns[a], n)]
      /\ UNCHANGED <<row, given, projects, profile, temps, run, torn, lost, runs, upsets>>
  BY CallersDistinct DEF Pick, Stands, rows, disk, history
<1>1. /\ call[c] \in Calls /\ CallFits(call[c]) /\ ClientFits(c, call[c])
      /\ a \in Accounts /\ turns[a] \in Seq(Numbers) /\ projects[a] \in 0..MaxProjects
  BY <1>0, CallShape
<1>2. /\ call[c].list \subseteq 1..projects[a] /\ Filled(a)
      /\ call[c].cur \in Pool(call[c].list) /\ projects[a] \in Nat
  BY <1>0, <1>1, ListFull, OnboardingAssumption DEF CallFits, ClientFits, Knowing
<1>3. /\ Pool(call[c].list) \subseteq 1..projects[a] /\ Pool(call[c].list) # {}
      /\ call[c].cur \in Nat
  <2> DEFINE list == call[c].list
  <2>1. \A m \in Pool(list) : m \in list
    BY DEF Pool
  <2>2. \A m \in list : m \in 1..projects[a]
    BY <1>2
  <2>3. \A m \in Pool(list) : m \in 1..projects[a]
    BY <2>1, <2>2
  <2> HIDE DEF list, a
  <2>4. call[c].cur \in Pool(list)
    BY <1>2 DEF list
  <2>5. call[c].cur \in 1..projects[a]
    BY <2>3, <2>4
  <2>6. call[c].cur \in Nat
    BY <2>5
  <2>7. Pool(list) \subseteq 1..projects[a]
    BY <2>3
  <2> QED BY <2>4, <2>6, <2>7 DEF list
<1>4. n \in Pool(call[c].list)
  BY <1>2, <1>3, NextPooled
<1>5. n \in Numbers /\ n \in 0..MaxProjects
  BY <1>1, <1>3, <1>4, OnboardingAssumption DEF Numbers
<1>6. turns[a] # <<>> => /\ current[a] \in Full
                         /\ n = IF current[a] = PoolSize THEN 1 ELSE current[a] + 1
  <2> SUFFICES ASSUME turns[a] # <<>>
               PROVE  /\ current[a] \in Full
                      /\ n = IF current[a] = PoolSize THEN 1 ELSE current[a] + 1
    OBVIOUS
  <2>1. Full \subseteq call[c].list /\ call[c].cur = current[a]
    BY <1>0, <1>1 DEF ClientFits, Knowing
  <2>2. Pool(call[c].list) = Full
    BY <1>2, <2>1, PoolOfFull
  <2>3. current[a] \in Full /\ n = NextProject(current[a], Full)
    BY <1>2, <2>1, <2>2
  <2> QED BY <2>3, NextOfFull
<1> HIDE DEF n
<1>7. Turning(turns[a], current[a])
  BY <1>1 DEF OnboardingInv, AccountFits
<1>8. Turning(Taken(turns[a], n), n) /\ Taken(turns[a], n) \in Seq(Numbers)
  BY <1>1, <1>5, <1>6, <1>7, TurningPick, TakenProperties
<1>9. OnboardingTypeOK'
  <2>1. /\ current' \in [Accounts -> 0..MaxProjects]
        /\ turns' \in [Accounts -> Seq(Numbers)]
    BY <1>0, <1>1, <1>5, <1>8 DEF OnboardingInv, OnboardingTypeOK
  <2>2. /\ lock' \in [Accounts -> Clients \cup {None}]
        /\ call' \in [Callers -> Calls]
    BY <1>0, UnlockedType, NoCallType
  <2> QED BY <1>0, <2>1, <2>2 DEF OnboardingInv, OnboardingTypeOK
<1>10. \A b \in Accounts :
          \/ turns'[b] = turns[b] /\ current'[b] = current[b]
          \/ /\ b = a /\ Filled(b) /\ row[b] = "live"
             /\ Turning(turns'[b], current'[b])
  BY <1>0, <1>1, <1>2, <1>8 DEF OnboardingInv, OnboardingTypeOK, ClientFits
<1>11. call[c].pc # "idle" /\ UNCHANGED <<rows, projects, disk, run, history>>
  BY <1>0 DEF rows, disk, history
<1> QED BY <1>0, <1>9, <1>10, <1>11, ClientDone

-----------------------------------------------------------------------------
(* The onboarding.                                                         *)

(* A step of the onboarding between its calls.                             *)
LEMMA RunMoves ==
  ASSUME OnboardingInv, UNCHANGED <<rows, pool, profile, runs>>,
         call' = call \/ call' = [call EXCEPT ![Cli] = NoCall],
         OnboardingTypeOK', CliFits', RunFits',
         torn \subseteq torn',
         \A a \in Accounts \ (torn' \cup {run'.id}) :
            a \in torn \cup {run.id} => Whole(a) \/ (row[a] = "none" /\ ~profile[a])
  PROVE  OnboardingInv'
<1> USE DEF OnboardingInv, rows, pool
<1>1. \A x \in Callers : CallFits(call[x])'
  <2>1. ASSUME NEW x \in Callers PROVE call'[x] = call[x] \/ call'[x] = NoCall
    BY DEF OnboardingTypeOK
  <2>2. CallFits(NoCall)
    BY DEF CallFits, NoCall, Knowing
  <2>3. ASSUME NEW x \in Callers PROVE CallFits(call'[x])
    BY <2>1, <2>2
  <2>4. projects' = projects
    OBVIOUS
  <2> QED BY <2>3, <2>4, Zenon DEF CallFits
<1>2. \A c \in Clients : ClientFits(c, call[c])'
  <2>1. ASSUME NEW c \in Clients PROVE ClientFits(c, call'[c])
    BY CallersDistinct DEF OnboardingTypeOK
  <2> QED BY <2>1 DEF ClientFits
<1>3. \A a \in Accounts : AccountFits(a)'
  BY DEF AccountFits, Whole, Filled
<1> QED BY <1>1, <1>2, <1>3

LEMMA NoRunType == NoRun \in Runs
<1>1. 0 \in 0..MaxRuns
  BY OnboardingAssumption
<1> QED BY <1>1 DEF NoRun, Runs

LEMMA RunShape ==
  ASSUME OnboardingInv
  PROVE  /\ run \in Runs /\ CliFits /\ RunFits /\ OnboardingTypeOK
         /\ Cli \in Callers /\ call \in [Callers -> Calls]
BY CallersDistinct DEF OnboardingInv, OnboardingTypeOK

LEMMA StartNewFine ==
  ASSUME OnboardingInv, StartNew
  PROVE  OnboardingInv'
<1> USE DEF OnboardingInv, rows, pool
<1>0. /\ run = NoRun /\ runs + 1 \in 1..MaxRuns /\ runs' = runs + 1
      /\ run' = [NoRun EXCEPT !.pc = "login", !.no = runs + 1, !.new = TRUE]
      /\ temps' = temps \cup {runs + 1}
      /\ UNCHANGED <<row, given, projects, current, turns, lock, profile, call,
                     torn, lost, upsets>>
  BY OnboardingAssumption DEF StartNew, Start, OnboardingTypeOK
<1>1. /\ run' \in Runs /\ run'.pc = "login" /\ run'.no = runs + 1 /\ run'.new
      /\ run'.id = None /\ run'.at = "temp"
  <2>1. NoRun \in Runs /\ runs + 1 \in 0..MaxRuns
    BY <1>0, NoRunType, OnboardingAssumption
  <2>2. NoRun.id = None /\ NoRun.at = "temp"
    BY DEF NoRun
  <2> QED BY <1>0, <2>1, <2>2 DEF Runs
<1>2. OnboardingTypeOK' /\ (Existing \subseteq given)'
  BY <1>0, <1>1, OnboardingAssumption DEF OnboardingTypeOK
<1>3. \A x \in Callers : CallFits(call[x])'
  BY <1>0 DEF CallFits
<1>4. \A c \in Clients : ClientFits(c, call[c])'
  BY <1>0 DEF ClientFits
<1>5. CliFits'
  BY <1>0, <1>1 DEF CliFits, NoRun
<1>6. RunFits'
  BY <1>0, <1>1 DEF RunFits, NewFits, NoRun
<1>7. \A a \in Accounts : AccountFits(a)'
  BY <1>0, <1>1, OnboardingAssumption DEF AccountFits, Whole, Filled, NoRun
<1> QED BY <1>2, <1>3, <1>4, <1>5, <1>6, <1>7

LEMMA StartExistingFine ==
  ASSUME OnboardingInv, NEW a \in Accounts, StartExisting(a)
  PROVE  OnboardingInv'
<1> USE DEF OnboardingInv, rows, pool
<1>0. /\ run = NoRun /\ runs + 1 \in 1..MaxRuns /\ runs' = runs + 1 /\ row[a] # "none"
      /\ run' = [NoRun EXCEPT !.pc = "pool", !.no = runs + 1, !.id = a]
      /\ call' = [call EXCEPT ![Cli] = Called(a)]
      /\ profile' = [profile EXCEPT ![a] = TRUE]
      /\ UNCHANGED <<row, given, projects, current, turns, lock, temps,
                     torn, lost, upsets>>
  BY OnboardingAssumption DEF StartExisting, Start, OnboardingTypeOK
<1>1. /\ run' \in Runs /\ run'.pc = "pool" /\ run'.no = runs + 1 /\ ~run'.new
      /\ run'.id = a /\ run'.at = "temp"
  <2>1. NoRun \in Runs /\ runs + 1 \in 0..MaxRuns
    BY <1>0, NoRunType, OnboardingAssumption
  <2>2. NoRun.new = FALSE /\ NoRun.at = "temp"
    BY DEF NoRun
  <2> QED BY <1>0, <2>1, <2>2 DEF Runs
<1>2. OnboardingTypeOK' /\ (Existing \subseteq given)'
  <2>1. call' \in [Callers -> Calls]
    BY <1>0, CalledShape DEF OnboardingTypeOK
  <2> QED BY <1>0, <1>1, <2>1, OnboardingAssumption DEF OnboardingTypeOK
<1>3. \A x \in Callers : CallFits(call[x])'
  <2>1. ASSUME NEW x \in Callers PROVE CallFits(call'[x])
    BY <1>0, CalledShape DEF CallFits, OnboardingTypeOK, Knowing
  <2> QED BY <1>0, <2>1 DEF CallFits
<1>4. \A c \in Clients : ClientFits(c, call[c])'
  <2>1. ASSUME NEW c \in Clients PROVE ClientFits(c, call'[c])
    BY <1>0, CallersDistinct DEF OnboardingTypeOK
  <2> QED BY <1>0, <2>1 DEF ClientFits
<1>5. CliFits'
  BY <1>0, <1>1, CallersDistinct, CalledShape DEF CliFits, NoRun, OnboardingTypeOK
<1>6. a \in given /\ (a \in torn \/ Whole(a))
  BY <1>0, OnboardingAssumption DEF AccountFits, NoRun
<1>7. RunFits'
  BY <1>0, <1>1, <1>6, OnboardingAssumption
  DEF RunFits, OldFits, Whole, Filled, NoRun, OnboardingTypeOK
<1>8. \A b \in Accounts : AccountFits(b)'
  BY <1>0, <1>1, <1>6, OnboardingAssumption
  DEF AccountFits, Whole, Filled, NoRun, OnboardingTypeOK
<1> QED BY <1>2, <1>3, <1>4, <1>5, <1>7, <1>8

LEMMA LoggedInFine ==
  ASSUME OnboardingInv, LoggedIn
  PROVE  OnboardingInv'
<1>0. /\ run.pc = "login" /\ run' = [run EXCEPT !.pc = "insert"]
      /\ UNCHANGED <<row, given, projects, current, turns, lock, profile, temps, call,
                     torn, lost, runs, upsets>>
  BY DEF LoggedIn, At, Goto, rows, pool, disk, history
<1>1. /\ run' \in Runs /\ run'.pc = "insert" /\ run'.new = run.new /\ run'.id = run.id
      /\ run'.no = run.no /\ run'.at = run.at
  BY <1>0, RunShape DEF Runs
<1>2. OnboardingTypeOK'
  BY <1>0, <1>1, RunShape DEF OnboardingTypeOK
<1>3. CliFits'
  BY <1>0, <1>1, RunShape DEF CliFits
<1>4. RunFits'
  BY <1>0, <1>1, RunShape DEF RunFits, NewFits, OldFits
<1> QED BY <1>0, <1>1, <1>2, <1>3, <1>4, RunMoves DEF rows, pool

LEMMA FailsFine ==
  ASSUME OnboardingInv, Fails
  PROVE  OnboardingInv'
<1>0. /\ run.pc \in {"login", "insert", "pool", "rename", "publish"}
      /\ IF run.new THEN run' = [run EXCEPT !.pc = "unrow"] ELSE run' = NoRun
      /\ call' = [call EXCEPT ![Cli] = NoCall]
      /\ UNCHANGED <<row, given, projects, current, turns, lock, profile, temps,
                     torn, lost, runs, upsets>>
  BY DEF Fails, Goto, rows, pool, disk, history
<1>1. CASE run.new
  <2>1. /\ run' \in Runs /\ run'.pc = "unrow" /\ run'.new = run.new /\ run'.id = run.id
        /\ run'.no = run.no /\ run'.at = run.at
    BY <1>0, <1>1, RunShape DEF Runs
  <2>2. OnboardingTypeOK'
    BY <1>0, <2>1, RunShape, NoCallType DEF OnboardingTypeOK
  <2>3. CliFits'
    BY <1>0, <2>1, RunShape DEF CliFits, NoCall
  <2>4. RunFits'
    BY <1>0, <1>1, <2>1, RunShape DEF RunFits, NewFits
  <2> QED BY <1>0, <2>1, <2>2, <2>3, <2>4, RunMoves DEF rows, pool
<1>2. CASE ~run.new
  <2>1. /\ run' = NoRun /\ run' \in Runs
    BY <1>0, <1>2, NoRunType
  <2>2. OnboardingTypeOK'
    BY <1>0, <2>1, RunShape, NoCallType DEF OnboardingTypeOK
  <2>3. CliFits'
    BY <1>0, <2>1, RunShape DEF CliFits, NoCall, NoRun
  <2>4. RunFits'
    BY <1>0, <1>2, <2>1, RunShape DEF RunFits, OldFits, NoRun
  <2>5. run.id \in torn \/ Whole(run.id)
    BY <1>0, <1>2, RunShape DEF RunFits, OldFits
  <2> QED BY <1>0, <2>1, <2>2, <2>3, <2>4, <2>5, RunMoves DEF rows, pool
<1> QED BY <1>1, <1>2

(* The row of a new account and the call that fills its pool.              *)
LEMMA InsertFine ==
  ASSUME OnboardingInv, Insert
  PROVE  OnboardingInv'
<1> USE DEF OnboardingInv
<1>0. PICK a \in Accounts \ given :
        /\ run.pc = "insert" /\ given' = given \cup {a}
        /\ row' = [row EXCEPT ![a] = "pending"]
        /\ run' = [run EXCEPT !.pc = "pool", !.id = a]
        /\ call' = [call EXCEPT ![Cli] = Called(a)]
        /\ UNCHANGED <<projects, current, turns, lock, profile, temps, torn, lost,
                       runs, upsets>>
  BY DEF Insert, At, pool, disk, history
<1>1. /\ run' \in Runs /\ run'.pc = "pool" /\ run'.new = run.new /\ run'.id = a
      /\ run'.no = run.no /\ run'.at = run.at
  BY <1>0, RunShape DEF Runs
<1>2. run.new /\ run.at = "temp" /\ run.id = None
  BY <1>0, RunShape DEF RunFits, NewFits, OldFits, Runs
<1>3. row[a] = "none" /\ ~profile[a] /\ turns[a] = <<>> /\ a \notin Existing
  BY <1>0 DEF AccountFits
<1>4. OnboardingTypeOK' /\ (Existing \subseteq given)'
  <2>1. call' \in [Callers -> Calls]
    BY <1>0, CalledShape DEF OnboardingTypeOK
  <2> QED BY <1>0, <1>1, <2>1 DEF OnboardingTypeOK
<1>5. \A x \in Callers : CallFits(call[x])'
  <2>1. ASSUME NEW x \in Callers PROVE CallFits(call'[x])
    BY <1>0, CalledShape DEF CallFits, OnboardingTypeOK, Knowing
  <2> QED BY <1>0, <2>1 DEF CallFits
<1>6. \A c \in Clients : ClientFits(c, call[c])'
  <2>1. ASSUME NEW c \in Clients PROVE call'[c] = call[c] /\ ClientFits(c, call[c])
    BY <1>0, CallersDistinct DEF OnboardingTypeOK
  <2>2. ASSUME NEW c \in Clients PROVE ClientFits(c, call[c])'
    <3>1. call[c].pc # "idle" => call[c].account # a /\ call[c].account \in Accounts
      BY <1>3, <2>1, CallersDistinct DEF ClientFits, CallFits
    <3>2. call[c].pc # "idle" => row'[call[c].account] = row[call[c].account]
      BY <1>0, <3>1 DEF OnboardingTypeOK
    <3> QED BY <1>0, <2>1, <3>2 DEF ClientFits
  <2> QED BY <2>2
<1>7. CliFits'
  BY <1>0, <1>1, CallersDistinct, CalledShape DEF CliFits, OnboardingTypeOK
<1>8. RunFits'
  <2>1. run' # NoRun
    BY <1>1 DEF NoRun
  <2> QED BY <1>0, <1>1, <1>2, <1>3, <2>1, RunShape, OnboardingAssumption
      DEF RunFits, NewFits, OnboardingTypeOK
<1>9. \A b \in Accounts : AccountFits(b)'
  BY <1>0, <1>1, <1>2, <1>3, OnboardingAssumption
  DEF AccountFits, Whole, Filled, OnboardingTypeOK
<1> QED BY <1>4, <1>5, <1>6, <1>7, <1>8, <1>9

LEMMA RenameFine ==
  ASSUME OnboardingInv, Rename
  PROVE  OnboardingInv'
<1> USE DEF OnboardingInv
<1>0. /\ run.pc = "rename" /\ run' = [run EXCEPT !.pc = "publish", !.at = "canonical"]
      /\ temps' = temps \ {run.no} /\ profile' = [profile EXCEPT ![run.id] = TRUE]
      /\ UNCHANGED <<row, given, projects, current, turns, lock, call, torn, lost,
                     runs, upsets>>
  BY DEF Rename, At, rows, pool, history
<1>1. /\ run' \in Runs /\ run'.pc = "publish" /\ run'.new = run.new /\ run'.id = run.id
      /\ run'.no = run.no /\ run'.at = "canonical"
  BY <1>0, RunShape DEF Runs
<1>2. /\ run.new /\ run.id \in Accounts /\ run.id \in given /\ run.id # None
      /\ run.at = "temp"
  BY <1>0, RunShape DEF RunFits, NewFits, OldFits, Runs, OnboardingTypeOK
<1>3. OnboardingTypeOK' /\ (Existing \subseteq given)'
  BY <1>0, <1>1 DEF OnboardingTypeOK
<1>4. \A x \in Callers : CallFits(call[x])'
  BY <1>0 DEF CallFits
<1>5. \A c \in Clients : ClientFits(c, call[c])'
  BY <1>0 DEF ClientFits
<1>6. CliFits'
  BY <1>0, <1>1 DEF CliFits
<1>7. RunFits'
  <2>1. run' # NoRun
    BY <1>1 DEF NoRun
  <2> QED BY <1>0, <1>1, <1>2, <2>1, RunShape
      DEF RunFits, NewFits, Filled, OnboardingTypeOK
<1>8. \A b \in Accounts : AccountFits(b)'
  BY <1>0, <1>1, <1>2 DEF AccountFits, Whole, Filled, OnboardingTypeOK
<1> QED BY <1>3, <1>4, <1>5, <1>6, <1>7, <1>8

LEMMA PublishFine ==
  ASSUME OnboardingInv, Publish
  PROVE  OnboardingInv'
<1> USE DEF OnboardingInv
<1>0. /\ run.pc = "publish" /\ row' = [row EXCEPT ![run.id] = "live"] /\ run' = NoRun
      /\ UNCHANGED <<given, projects, current, turns, lock, profile, temps, call,
                     torn, lost, runs, upsets>>
  BY DEF Publish, At, pool, disk, history
<1>1. /\ run' \in Runs /\ run'.pc = "idle" /\ ~run'.new /\ run'.id = None
      /\ run'.at = "temp"
  BY <1>0, NoRunType DEF NoRun
<1>2. /\ run.id \in Accounts /\ run.id \in given /\ run.id # None /\ Filled(run.id)
      /\ profile[run.id]
  BY <1>0, RunShape DEF RunFits, NewFits, OldFits, Runs, OnboardingTypeOK
<1>3. OnboardingTypeOK' /\ (Existing \subseteq given)'
  BY <1>0, <1>1 DEF OnboardingTypeOK
<1>4. \A x \in Callers : CallFits(call[x])'
  BY <1>0 DEF CallFits
<1>5. \A c \in Clients : ClientFits(c, call[c])'
  <2>1. \A a \in Accounts : row[a] = "live" => row'[a] = "live"
    BY <1>0 DEF OnboardingTypeOK
  <2>2. ASSUME NEW c \in Clients PROVE ClientFits(c, call[c])'
    <3>1. call[c].pc # "idle" => call[c].account \in Accounts
      BY CallersDistinct DEF CallFits
    <3> QED BY <1>0, <2>1, <3>1 DEF ClientFits
  <2> QED BY <2>2
<1>6. CliFits'
  BY <1>0, <1>1 DEF CliFits
<1>7. RunFits'
  BY <1>0, <1>1, RunShape DEF RunFits, NewFits, OldFits
<1>8. \A b \in Accounts : AccountFits(b)'
  BY <1>0, <1>1, <1>2 DEF AccountFits, Whole, Filled, OnboardingTypeOK
<1> QED BY <1>3, <1>4, <1>5, <1>6, <1>7, <1>8

(* A new account is undone.                                                *)
LEMMA DropRowFine ==
  ASSUME OnboardingInv, DropRow
  PROVE  OnboardingInv'
<1> USE DEF OnboardingInv
<1>0. /\ run.pc = "unrow" /\ run' = [run EXCEPT !.pc = "sweep"]
      /\ row' = [a \in Accounts |-> IF a = run.id THEN "none" ELSE row[a]]
      /\ projects' = [a \in Accounts |-> IF a = run.id THEN 0 ELSE projects[a]]
      /\ current' = [a \in Accounts |-> IF a = run.id THEN 0 ELSE current[a]]
      /\ UNCHANGED <<given, turns, lock, profile, temps, call, torn, lost, runs, upsets>>
  BY DEF DropRow, At, Goto, disk, history
<1>1. /\ run' \in Runs /\ run'.pc = "sweep" /\ run'.new = run.new /\ run'.id = run.id
      /\ run'.no = run.no /\ run'.at = run.at
  BY <1>0, RunShape DEF Runs
<1>2. /\ run.new /\ call[Cli].pc = "idle"
      /\ run.id # None => /\ run.id \in Accounts /\ run.id \in given
                          /\ row[run.id] = "pending" /\ turns[run.id] = <<>>
  BY <1>0, RunShape DEF RunFits, NewFits, OldFits, CliFits, Runs, OnboardingTypeOK, AccountFits
<1>3. OnboardingTypeOK' /\ (Existing \subseteq given)'
  BY <1>0, <1>1, OnboardingAssumption DEF OnboardingTypeOK
<1>4. ASSUME NEW x \in Callers, call[x].pc # "idle"
      PROVE  LET a == call[x].account
             IN  /\ a \in Accounts /\ row'[a] = row[a]
                 /\ projects'[a] = projects[a] /\ current'[a] = current[a]
  <2>1. call[x].account \in Accounts
    BY <1>4 DEF CallFits
  <2>2. x \in Clients /\ ClientFits(x, call[x])
    BY <1>2, <1>4 DEF Callers
  <2>3. call[x].account # run.id
    BY <1>2, <1>4, <2>1, <2>2, OnboardingAssumption DEF ClientFits
  <2> QED BY <1>0, <2>1, <2>3
<1>5. \A x \in Callers : CallFits(call[x])'
  <2> SUFFICES ASSUME NEW x \in Callers PROVE CallFits(call[x])'
    OBVIOUS
  <2>1. CallFits(call[x]) /\ call' = call
    BY <1>0
  <2> QED BY <1>4, <2>1 DEF CallFits, Knowing
<1>6. \A c \in Clients : ClientFits(c, call[c])'
  <2> SUFFICES ASSUME NEW c \in Clients PROVE ClientFits(c, call[c])'
    OBVIOUS
  <2>1. ClientFits(c, call[c]) /\ call' = call /\ c \in Callers
    BY <1>0, CallersDistinct
  <2> QED BY <1>0, <1>4, <2>1 DEF ClientFits
<1>7. CliFits'
  BY <1>0, <1>1 DEF CliFits
<1>8. RunFits'
  <2>1. run' # NoRun
    BY <1>1 DEF NoRun
  <2> QED BY <1>0, <1>1, <1>2, <2>1, RunShape DEF RunFits, NewFits, OnboardingTypeOK
<1>9. \A b \in Accounts : AccountFits(b)'
  <2> SUFFICES ASSUME NEW b \in Accounts PROVE AccountFits(b)'
    OBVIOUS
  <2>1. CASE b = run.id
    BY <1>0, <1>1, <1>2, <2>1, OnboardingAssumption
    DEF AccountFits, Whole, Filled, Turning, OnboardingTypeOK
  <2>2. CASE b # run.id
    <3>1. AccountFits(b)
      OBVIOUS
    <3> QED BY <1>0, <1>1, <2>2, <3>1 DEF AccountFits, Whole, Filled, OnboardingTypeOK
  <2> QED BY <2>1, <2>2
<1> QED BY <1>3, <1>5, <1>6, <1>7, <1>8, <1>9

LEMMA RowStaysFine ==
  ASSUME OnboardingInv, RowStays
  PROVE  OnboardingInv'
<1>0. /\ run.pc = "unrow" /\ run.id # None /\ run' = [run EXCEPT !.pc = "sweep"]
      /\ torn' = torn \cup Mine /\ upsets < MaxUpsets /\ upsets' = upsets + 1
      /\ UNCHANGED <<row, given, projects, current, turns, lock, profile, temps, call,
                     lost, runs>>
  BY DEF RowStays, At, Goto, Upset, rows, pool, disk
<1>1. /\ run' \in Runs /\ run'.pc = "sweep" /\ run'.new = run.new /\ run'.id = run.id
      /\ run'.no = run.no /\ run'.at = run.at
  BY <1>0, RunShape DEF Runs
<1>2. run.new /\ run.id \in Mine /\ Mine \subseteq Accounts
  BY <1>0, RunShape DEF RunFits, OldFits, Mine, Runs
<1>3. OnboardingTypeOK'
  BY <1>0, <1>1, <1>2, RunShape, OnboardingAssumption DEF OnboardingTypeOK
<1>4. CliFits'
  BY <1>0, <1>1, RunShape DEF CliFits
<1>5. RunFits'
  <2>1. run' # NoRun
    BY <1>1 DEF NoRun
  <2> QED BY <1>0, <1>1, <1>2, <2>1, RunShape DEF RunFits, NewFits
<1> QED BY <1>0, <1>1, <1>2, <1>3, <1>4, <1>5, RunMoves DEF rows, pool

LEMMA SweepFine ==
  ASSUME OnboardingInv, Sweep
  PROVE  OnboardingInv'
<1> USE DEF OnboardingInv
<1>0. /\ run.pc = "sweep" /\ run' = NoRun
      /\ UNCHANGED <<row, given, projects, current, turns, lock, call, torn, lost,
                     runs, upsets>>
      /\ IF run.at = "temp"
           THEN temps' = temps \ {run.no} /\ profile' = profile
           ELSE profile' = [profile EXCEPT ![run.id] = FALSE] /\ temps' = temps
  BY DEF Sweep, At, rows, pool, history
<1>1. /\ run' \in Runs /\ run'.pc = "idle" /\ ~run'.new /\ run'.id = None
      /\ run'.at = "temp"
  BY <1>0, NoRunType DEF NoRun
<1>2. /\ run.new /\ call[Cli].pc = "idle" /\ run.at \in {"temp", "canonical"}
      /\ run.at = "canonical" => run.id # None
      /\ run.id # None =>
           /\ run.id \in Accounts
           /\ run.at = "temp" => ~profile[run.id]
           /\ row[run.id] = "none" \/ run.id \in torn
  BY <1>0, RunShape DEF RunFits, NewFits, OldFits, CliFits, Runs
<1>3. OnboardingTypeOK' /\ (Existing \subseteq given)'
  BY <1>0, <1>1 DEF OnboardingTypeOK
<1>4. \A x \in Callers : CallFits(call[x])'
  BY <1>0 DEF CallFits
<1>5. \A c \in Clients : ClientFits(c, call[c])'
  BY <1>0 DEF ClientFits
<1>6. CliFits'
  BY <1>0, <1>1, <1>2 DEF CliFits
<1>7. RunFits'
  BY <1>0, <1>1, <1>2, RunShape DEF RunFits, NewFits, OldFits
<1>8. \A b \in Accounts : AccountFits(b)'
  <2> SUFFICES ASSUME NEW b \in Accounts PROVE AccountFits(b)'
    OBVIOUS
  <2>1. AccountFits(b)
    OBVIOUS
  <2>2. ~profile'[b] \/ profile'[b] = profile[b]
    BY <1>0, <1>2 DEF OnboardingTypeOK
  <2>3. CASE b = run.id
    <3>1. b # None /\ ~profile'[b] /\ (row[b] = "none" \/ b \in torn)
      BY <1>0, <1>2, <2>3, OnboardingAssumption DEF OnboardingTypeOK
    <3> QED BY <1>0, <1>1, <2>1, <3>1 DEF AccountFits, Whole, Filled
  <2>4. CASE b # run.id
    <3>1. profile'[b] = profile[b]
      BY <1>0, <2>4 DEF OnboardingTypeOK
    <3> QED BY <1>0, <1>1, <2>1, <2>4, <3>1 DEF AccountFits, Whole, Filled
  <2> QED BY <2>3, <2>4
<1> QED BY <1>3, <1>4, <1>5, <1>6, <1>7, <1>8

(* The run that does not sweep, or is killed, leaves its profile to lost   *)
(* and its account to torn.                                                *)
LEMMA RunLost ==
  ASSUME OnboardingInv, run.pc # "idle", run' = NoRun,
         torn' = torn \cup Mine, lost' = lost \cup {run.no},
         upsets < MaxUpsets, upsets' = upsets + 1,
         call' = call \/ call' = [call EXCEPT ![Cli] = NoCall],
         call'[Cli].pc = "idle",
         UNCHANGED <<row, given, projects, current, turns, lock, profile, temps, runs>>
  PROVE  OnboardingInv'
<1>1. /\ run' \in Runs /\ run'.pc = "idle" /\ ~run'.new /\ run'.id = None
      /\ run'.at = "temp"
  BY NoRunType DEF NoRun
<1>2. Mine \subseteq Accounts /\ run.no \in 1..MaxRuns
  BY RunShape, OnboardingAssumption DEF RunFits, Mine, Runs
<1>3. call' \in [Callers -> Calls]
  BY RunShape, NoCallType
<1>4. OnboardingTypeOK'
  BY <1>1, <1>2, <1>3, RunShape, OnboardingAssumption DEF OnboardingTypeOK
<1>5. CliFits'
  BY <1>1 DEF CliFits
<1>6. RunFits'
  BY <1>1, RunShape DEF RunFits, OldFits
<1>7. run.id \in torn' \cup {None}
  BY DEF Mine
<1>8. \A a \in Accounts \ (torn' \cup {run'.id}) : a \notin torn \cup {run.id}
  BY <1>1, <1>7
<1> QED BY <1>4, <1>5, <1>6, <1>8, RunMoves DEF rows, pool

LEMMA SweepMissesFine ==
  ASSUME OnboardingInv, SweepMisses
  PROVE  OnboardingInv'
<1>1. /\ run.pc = "sweep" /\ run' = NoRun
      /\ torn' = torn \cup Mine /\ lost' = lost \cup {run.no}
      /\ upsets < MaxUpsets /\ upsets' = upsets + 1
      /\ UNCHANGED <<row, given, projects, current, turns, lock, profile, temps, call, runs>>
  BY DEF SweepMisses, At, Upset, rows, pool, disk
<1>2. call[Cli].pc = "idle"
  BY <1>1, RunShape DEF CliFits
<1> QED BY <1>1, <1>2, RunLost

LEMMA KilledFine ==
  ASSUME OnboardingInv, Killed
  PROVE  OnboardingInv'
<1>1. /\ run # NoRun /\ run' = NoRun
      /\ torn' = torn \cup Mine /\ lost' = lost \cup {run.no}
      /\ upsets < MaxUpsets /\ upsets' = upsets + 1
      /\ call' = [call EXCEPT ![Cli] = NoCall]
      /\ UNCHANGED <<row, given, projects, current, turns, lock, profile, temps, runs>>
  BY DEF Killed, Upset, rows, pool, disk
<1>2. run.pc # "idle"
  BY <1>1, RunShape DEF RunFits
<1>3. call'[Cli].pc = "idle"
  BY <1>1, RunShape DEF NoCall
<1> QED BY <1>1, <1>2, <1>3, RunLost

-----------------------------------------------------------------------------
(* Every step keeps the invariant.                                         *)

LEMMA StepFine == OnboardingInv /\ [OnboardingNext]_onboarding => OnboardingInv'
<1> SUFFICES ASSUME OnboardingInv, [OnboardingNext]_onboarding PROVE OnboardingInv'
  OBVIOUS
<1>1. ASSUME NEW p \in Callers, Provision(p) PROVE OnboardingInv'
  BY <1>1, ReadTokenFine, ReadProjectsFine, CreateProjectFine, AddProjectFine,
     PoolFullFine, PointFine DEF Provision
<1>2. ASSUME NEW c \in Clients, Serve(c) PROVE OnboardingInv'
  BY <1>2, RequestFine, PickFine, RequestFailsFine DEF Serve
<1>3. ASSUME Onboard PROVE OnboardingInv'
  BY <1>3, StartNewFine, StartExistingFine, LoggedInFine, InsertFine, RenameFine,
     PublishFine, FailsFine, DropRowFine, RowStaysFine, SweepFine, SweepMissesFine,
     KilledFine DEF Onboard
<1>4. CASE UNCHANGED onboarding
  <2> USE <1>4 DEF onboarding, rows, pool, disk, history
  <2>1. OnboardingTypeOK' /\ (Existing \subseteq given)'
    BY DEF OnboardingInv, OnboardingTypeOK
  <2>2. (\A p \in Callers : CallFits(call[p]))' /\ (\A c \in Clients : ClientFits(c, call[c]))'
    BY DEF OnboardingInv, CallFits, ClientFits
  <2>3. CliFits' /\ RunFits'
    BY DEF OnboardingInv, CliFits, RunFits, NewFits, OldFits, Filled, Whole
  <2>4. (\A a \in Accounts : AccountFits(a))'
    BY DEF OnboardingInv, AccountFits, Whole, Filled
  <2> QED BY <2>1, <2>2, <2>3, <2>4 DEF OnboardingInv
<1> QED BY <1>1, <1>2, <1>3, <1>4 DEF OnboardingNext

LEMMA Invariance == OnboardingSpec => []OnboardingInv
BY InitFine, StepFine, PTL DEF OnboardingSpec

(* Rows, projects, calls and runs keep their types through every failure   *)
(* and kill (services/tokens/onboard.py, services/tokens/project_pool.py). *)
THEOREM OnboardingTypes == OnboardingSpec => []OnboardingTypeOK
<1>1. OnboardingInv => OnboardingTypeOK
  BY DEF OnboardingInv
<1> QED BY <1>1, Invariance, PTL

(* An onboarding that could clean up leaves a new account published with   *)
(* its profile and a full pool, or no trace of it, whatever step fails     *)
(* (_compensate_new_account in services/tokens/onboard.py).                *)
THEOREM NewAccountsWhole == OnboardingSpec => []AllOrNothing
<1>1. OnboardingInv => AllOrNothing
  <2> SUFFICES ASSUME OnboardingInv PROVE AllOrNothing
    OBVIOUS
  <2>1. temps \subseteq lost \cup {run.no}
    BY DEF OnboardingInv, RunFits
  <2>2. ASSUME NEW a \in Accounts \ (torn \cup {run.id})
        PROVE  /\ row[a] # "pending"
               /\ profile[a] <=> row[a] = "live"
               /\ row[a] = "live" /\ a \notin Existing => projects[a] >= PoolSize
    <3>1. Whole(a) \/ (row[a] = "none" /\ ~profile[a])
      BY DEF OnboardingInv, AccountFits
    <3>2. profile[a] \in BOOLEAN
      BY DEF OnboardingInv, OnboardingTypeOK
    <3> QED BY <3>1, <3>2 DEF Whole, Filled
  <2> QED BY <2>1, <2>2 DEF AllOrNothing
<1> QED BY <1>1, Invariance, PTL

(* The requests of an account take its projects in turn, however their     *)
(* calls interleave with each other and with an onboarding of the account  *)
(* (ensure_project_exists in services/tokens/project_pool.py).             *)
THEOREM TurnsDistinct == OnboardingSpec => []ProjectsTakeTurns
<1>1. OnboardingInv => ProjectsTakeTurns
  <2> SUFFICES ASSUME OnboardingInv, NEW a \in Accounts PROVE IsInjective(turns[a])
    BY DEF ProjectsTakeTurns
  <2>1. turns[a] \in Seq(Numbers) /\ Turning(turns[a], current[a])
    BY DEF OnboardingInv, OnboardingTypeOK, AccountFits
  <2> QED BY <2>1, TurningDistinct
<1> QED BY <1>1, Invariance, PTL
=============================================================================
