-------------------------- MODULE HousekeepingProofs --------------------------
(***************************************************************************)
(* Theorems about FileCache, for any requests, files and timeouts, and     *)
(* about the instance of MCHousekeeping: its parts keep their types        *)
(* whichever of them runs.                                                 *)
(***************************************************************************)
EXTENDS MCHousekeeping, AlertsProofs, OnboardingProofs

-----------------------------------------------------------------------------
(* The lock of a file name.                                                *)

FileCacheInv == FileCacheTypeOK /\ queue \in [Files -> Seq(Requests)]

LEMMA PartOf ==
  ASSUME NEW S, NEW q \in Seq(S), NEW m \in 1..(Len(q) + 1), NEW n \in 0..Len(q)
  PROVE  /\ SubSeq(q, m, n) \in Seq(S)
         /\ Len(SubSeq(q, m, n)) = IF m <= n THEN n - m + 1 ELSE 0
         /\ \A j \in 1..(n - m + 1) : SubSeq(q, m, n)[j] = q[m + j - 1]
<1>1. Len(q) \in Nat /\ q \in [1..Len(q) -> S]
  BY LenProperties
<1>2. m \in Int /\ n \in Int
  BY <1>1
<1>3. \A j \in m..n : q[j] \in S
  BY <1>1
<1> QED BY <1>2, <1>3, SubSeqProperties

(* A queue without its i-th element.                                       *)
LEMMA RemoveAtFits ==
  ASSUME NEW S, NEW q \in Seq(S), NEW i \in 1..Len(q)
  PROVE  /\ RemoveAt(q, i) \in Seq(S)
         /\ Len(RemoveAt(q, i)) = Len(q) - 1
         /\ \A j \in 1..(Len(q) - 1) :
               RemoveAt(q, i)[j] = IF j < i THEN q[j] ELSE q[j + 1]
<1> DEFINE front == SubSeq(q, 1, i - 1)
           back == SubSeq(q, i + 1, Len(q))
<1>1. Len(q) \in Nat /\ q \in [1..Len(q) -> S]
  BY LenProperties
<1>2. /\ front \in Seq(S) /\ Len(front) = i - 1
      /\ \A j \in 1..(i - 1) : front[j] = q[j]
  <2>1. /\ front \in Seq(S)
        /\ Len(front) = IF 1 <= i - 1 THEN (i - 1) - 1 + 1 ELSE 0
        /\ \A j \in 1..((i - 1) - 1 + 1) : front[j] = q[1 + j - 1]
    BY <1>1, PartOf
  <2> HIDE DEF front
  <2>2. (i - 1) - 1 + 1 = i - 1 /\ \A j \in Int : 1 + j - 1 = j
    BY <1>1
  <2>3. (1 <= i - 1 /\ i - 1 = i - 1) \/ (~(1 <= i - 1) /\ i - 1 = 0)
    BY <1>1
  <2>4. Len(front) = i - 1
    BY <2>1, <2>2, <2>3
  <2>5. ASSUME NEW j \in 1..(i - 1) PROVE front[j] = q[j]
    BY <2>1, <2>2
  <2> QED BY <2>1, <2>4, <2>5
<1>3. /\ back \in Seq(S) /\ Len(back) = Len(q) - i
      /\ \A j \in 1..(Len(q) - i) : back[j] = q[i + j]
  <2>1. /\ back \in Seq(S)
        /\ Len(back) = IF i + 1 <= Len(q) THEN Len(q) - (i + 1) + 1 ELSE 0
        /\ \A j \in 1..(Len(q) - (i + 1) + 1) : back[j] = q[(i + 1) + j - 1]
    BY <1>1, PartOf
  <2> HIDE DEF back
  <2>2. PICK n \in Nat : n = Len(q)
    BY <1>1
  <2>3. i \in 1..n /\ n - (i + 1) + 1 = n - i
    BY <2>2
  <2>4. Len(back) = n - i
    BY <2>1, <2>2, <2>3
  <2>5. ASSUME NEW j \in 1..(n - i) PROVE back[j] = q[i + j]
    <3>1. j \in 1..(n - (i + 1) + 1) /\ (i + 1) + j - 1 = i + j
      BY <2>3
    <3> QED BY <2>1, <2>2, <3>1
  <2> QED BY <2>1, <2>2, <2>4, <2>5
<1>6. RemoveAt(q, i) = front \o back
  BY Zenon DEF RemoveAt
<1> HIDE DEF front, back
<1>4. /\ front \o back \in Seq(S)
      /\ Len(front \o back) = Len(front) + Len(back)
      /\ \A j \in 1..(Len(front) + Len(back)) :
            (front \o back)[j] = IF j <= Len(front) THEN front[j] ELSE back[j - Len(front)]
  BY <1>2, <1>3, ConcatProperties
<1>5. ASSUME NEW j \in 1..(Len(q) - 1)
      PROVE  (front \o back)[j] = IF j < i THEN q[j] ELSE q[j + 1]
  <2>1. j \in 1..(Len(front) + Len(back)) /\ Len(front) = i - 1
    BY <1>1, <1>2, <1>3
  <2>2. CASE j < i
    <3>1. j \in 1..(i - 1)
      BY <1>1, <2>2
    <3> QED BY <1>1, <1>2, <1>4, <2>1, <2>2, <3>1
  <2>3. CASE ~ (j < i)
    <3>1. (front \o back)[j] = back[j - (i - 1)] /\ j - (i - 1) \in 1..(Len(q) - i)
      BY <1>1, <1>3, <1>4, <2>1, <2>3
    <3>2. (front \o back)[j] = q[i + (j - (i - 1))] /\ i + (j - (i - 1)) = j + 1
      BY <1>1, <1>3, <3>1
    <3> QED BY <2>3, <3>2
  <2> QED BY <2>2, <2>3
<1>7. Len(front \o back) = Len(q) - 1
  BY <1>1, <1>2, <1>3, <1>4
<1> QED BY <1>4, <1>5, <1>6, <1>7, Zenon

(* One who gives up its place is gone, and the others are there once each. *)
LEMMA LeavesQueue ==
  ASSUME NEW S, NEW q \in Seq(S), IsInjective(q), NEW i \in DOMAIN q
  PROVE  /\ RemoveAt(q, i) \in Seq(S) /\ IsInjective(RemoveAt(q, i))
         /\ ToSet(RemoveAt(q, i)) = ToSet(q) \ {q[i]}
<1> DEFINE z == RemoveAt(q, i)
           n == Len(q)
<1>1. n \in Nat /\ q \in [1..n -> S] /\ i \in 1..n /\ DOMAIN q = 1..n
  BY LenProperties
<1>2. /\ z \in Seq(S) /\ Len(z) = n - 1
      /\ \A j \in 1..(n - 1) : z[j] = IF j < i THEN q[j] ELSE q[j + 1]
  BY <1>1, RemoveAtFits
<1>3. DOMAIN z = 1..(n - 1)
  BY <1>2, LenProperties
<1>4. \A a, b \in 1..n : q[a] = q[b] => a = b
  BY <1>1 DEF IsInjective
<1> HIDE DEF z, n
<1>5. ASSUME NEW a \in 1..(n - 1), NEW b \in 1..(n - 1), z[a] = z[b]
      PROVE  a = b
  <2> DEFINE at(j) == IF j < i THEN j ELSE j + 1
  <2>1. at(a) \in 1..n /\ at(b) \in 1..n
    BY <1>1
  <2>2. z[a] = q[at(a)] /\ z[b] = q[at(b)]
    BY <1>2
  <2>3. at(a) = at(b)
    BY <1>4, <1>5, <2>1, <2>2
  <2> QED BY <1>1, <2>3
<1>6. ASSUME NEW a \in 1..(n - 1) PROVE \E b \in 1..n : b # i /\ z[a] = q[b]
  <2>1. CASE a < i
    BY <1>1, <1>2, <2>1
  <2>2. CASE a >= i
    <3>1. a + 1 \in 1..n /\ a + 1 # i /\ z[a] = q[a + 1]
      BY <1>1, <1>2, <2>2
    <3> QED BY <3>1
  <2> QED BY <1>1, <2>1, <2>2
<1>7. ASSUME NEW b \in 1..n, b # i PROVE \E a \in 1..(n - 1) : z[a] = q[b]
  <2>1. CASE b < i
    <3>1. b \in 1..(n - 1) /\ z[b] = q[b]
      BY <1>1, <1>2, <2>1
    <3> QED BY <3>1
  <2>2. CASE b > i
    <3>1. b - 1 \in 1..(n - 1) /\ z[b - 1] = q[(b - 1) + 1]
      BY <1>1, <1>2, <2>2
    <3>2. (b - 1) + 1 = b
      OBVIOUS
    <3> QED BY <3>1, <3>2
  <2> QED BY <1>1, <1>7, <2>1, <2>2
<1>8. \A x : x \in ToSet(z) <=> x \in ToSet(q) \ {q[i]}
  <2>1. \A x : x \in ToSet(z) <=> \E a \in 1..(n - 1) : x = z[a]
    BY <1>3 DEF ToSet
  <2>2. \A x : x \in ToSet(q) <=> \E b \in 1..n : x = q[b]
    BY <1>1 DEF ToSet
  <2>3. \A b \in 1..n : q[b] = q[i] => b = i
    BY <1>1, <1>4
  <2> QED BY <1>6, <1>7, <2>1, <2>2, <2>3
<1>9. IsInjective(z)
  BY <1>3, <1>5 DEF IsInjective
<1>10. ToSet(z) = ToSet(q) \ {q[i]}
  BY <1>8
<1> QED BY <1>2, <1>9, <1>10 DEF z

(* One who joins stands last.                                              *)
LEMMA JoinsQueue ==
  ASSUME NEW S, NEW q \in Seq(S), IsInjective(q), NEW x \in S, x \notin ToSet(q)
  PROVE  /\ Append(q, x) \in Seq(S) /\ IsInjective(Append(q, x))
         /\ ToSet(Append(q, x)) = ToSet(q) \cup {x}
<1> DEFINE z == Append(q, x)
           n == Len(q)
<1>1. n \in Nat /\ DOMAIN q = 1..n
  BY LenProperties
<1>2. /\ z \in Seq(S) /\ Len(z) = n + 1
      /\ \A j \in 1..n : z[j] = q[j]
      /\ z[n + 1] = x
  BY AppendProperties
<1>3. DOMAIN z = 1..(n + 1)
  BY <1>2, LenProperties
<1>4. \A a, b \in 1..n : q[a] = q[b] => a = b
  BY <1>1 DEF IsInjective
<1>5. \A a \in 1..n : q[a] # x
  BY <1>1 DEF ToSet
<1> HIDE DEF z, n
<1>6. \A a \in 1..(n + 1) : a \in 1..n \/ a = n + 1
  BY <1>1
<1>7. IsInjective(z)
  <2>1. \A a, b \in 1..(n + 1) : z[a] = z[b] => a = b
    BY <1>2, <1>4, <1>5, <1>6
  <2> QED BY <1>3, <2>1 DEF IsInjective
<1>8. ToSet(z) = ToSet(q) \cup {x}
  <2>1. \A y : y \in ToSet(z) <=> \E a \in 1..(n + 1) : y = z[a]
    BY <1>3 DEF ToSet
  <2>2. \A y : y \in ToSet(q) <=> \E b \in 1..n : y = q[b]
    BY <1>1 DEF ToSet
  <2>3. 1..n \subseteq 1..(n + 1) /\ n + 1 \in 1..(n + 1)
    BY <1>1
  <2> QED BY <1>2, <1>6, <2>1, <2>2, <2>3
<1> QED BY <1>2, <1>7, <1>8 DEF z

(* The requests of a file stand in its queue, once each.                   *)
Queued == \A f \in Files : /\ IsInjective(queue[f])
                           /\ ToSet(queue[f]) = {r \in Requests : file[r] = f}

Media == /\ age \in [Files -> Ages] /\ broken \subseteq Files
         /\ \A f \in broken : age[f] # NoFile

Placed == /\ pc \in [Requests -> Pcs] /\ file \in [Requests -> Files \cup {NoFile}]
          /\ \A r \in Requests : pc[r] = "idle" <=> file[r] = NoFile

LEMMA CacheParts ==
  /\ FileCacheInv => /\ Media /\ Placed /\ Queued /\ queue \in [Files -> Seq(Requests)]
                     /\ timeout \in Timeouts /\ cleaner \in {"on", "off", "stopping"}
                     /\ overlapped \in BOOLEAN
  /\ (FileCacheInv <=>
         /\ Media /\ Placed /\ Queued /\ queue \in [Files -> Seq(Requests)]
         /\ timeout \in Timeouts /\ cleaner \in {"on", "off", "stopping"}
         /\ overlapped \in BOOLEAN)'
<1>1. Media => \A f \in Files : f \in broken => age[f] # NoFile
  BY DEF Media
<1>2. (Media => \A f \in Files : f \in broken => age[f] # NoFile)'
  BY DEF Media
<1> QED BY <1>1, <1>2 DEF FileCacheInv, FileCacheTypeOK, Media, Placed, Queued

LEMMA CacheAssumptions == Oldest \in Nat /\ 0 # NoFile /\ NoFile \notin 0..Oldest /\ NoFile \notin Files
BY FileCacheAssumption

(* What is written or unlinked.                                            *)
LEMMA WriteMedia ==
  ASSUME Media, NEW f \in Files, NEW old \in 0..Oldest, NEW good \in BOOLEAN,
         Write(f, old, good)
  PROVE  Media'
<1>1. age' = [age EXCEPT ![f] = old] /\ broken' \subseteq broken \cup {f}
  BY DEF Write
<1>2. old \in Ages /\ old # NoFile
  BY CacheAssumptions DEF Ages
<1> QED BY <1>1, <1>2, CacheAssumptions DEF Media

LEMMA UnlinkMedia ==
  ASSUME Media, NEW fs, Unlink(fs)
  PROVE  Media'
BY DEF Unlink, Media, Ages

LEMMA SameMedia == Media /\ UNCHANGED media => Media'
BY DEF Media, media

(* A request that leaves, whatever it did to the file.                     *)
LEMMA LeaveFine ==
  ASSUME FileCacheInv, NEW r \in Requests, pc[r] # "idle", Leave(r), Media', UNCHANGED settings
  PROVE  FileCacheInv'
<1>1. /\ Placed /\ Queued /\ queue \in [Files -> Seq(Requests)]
      /\ timeout \in Timeouts /\ cleaner \in {"on", "off", "stopping"}
      /\ overlapped \in BOOLEAN
  BY CacheParts
<1>2. file[r] \in Files /\ file[r] # NoFile
  BY <1>1 DEF Placed
<1>3. PICK i \in DOMAIN queue[file[r]] :
         queue[file[r]][i] = r /\ queue' = [queue EXCEPT ![file[r]] = RemoveAt(@, i)]
  BY DEF Leave
<1>4. pc' = [pc EXCEPT ![r] = "idle"] /\ file' = [file EXCEPT ![r] = NoFile]
  BY DEF Leave
<1>5. Placed'
  BY <1>1, <1>4 DEF Placed, Pcs
<1> DEFINE q == queue[file[r]]
           z == RemoveAt(q, i)
<1>6. q \in Seq(Requests) /\ IsInjective(q) /\ ToSet(q) = {x \in Requests : file[x] = file[r]}
  BY <1>1, <1>2 DEF Queued
<1>7. z \in Seq(Requests) /\ IsInjective(z) /\ ToSet(z) = ToSet(q) \ {r}
  BY <1>3, <1>6, LeavesQueue
<1>8. \A f \in Files : queue'[f] = IF f = file[r] THEN z ELSE queue[f]
  BY <1>1, <1>2, <1>3
<1> HIDE DEF z, q
<1>9. queue' \in [Files -> Seq(Requests)]
  BY <1>1, <1>2, <1>3, <1>7 DEF z, q
<1>10. ASSUME NEW f \in Files
       PROVE  IsInjective(queue'[f]) /\ ToSet(queue'[f]) = {x \in Requests : file'[x] = f}
  <2>1. \A x \in Requests : file'[x] = IF x = r THEN NoFile ELSE file[x]
    BY <1>1, <1>4 DEF Placed
  <2>2. f # NoFile
    BY CacheAssumptions
  <2>3. CASE f = file[r]
    BY <1>6, <1>7, <1>8, <2>1, <2>2, <2>3
  <2>4. CASE f # file[r]
    <3>1. queue'[f] = queue[f] /\ IsInjective(queue[f])
          /\ ToSet(queue[f]) = {x \in Requests : file[x] = f}
      BY <1>1, <1>8, <2>4 DEF Queued
    <3>2. {x \in Requests : file'[x] = f} = {x \in Requests : file[x] = f}
      BY <2>1, <2>2, <2>4
    <3> QED BY <3>1, <3>2
  <2> QED BY <2>3, <2>4
<1>11. Queued'
  BY <1>10 DEF Queued
<1>12. UNCHANGED <<timeout, cleaner, overlapped>>
  BY DEF settings
<1> QED BY <1>1, <1>5, <1>9, <1>11, <1>12, CacheParts

(* A request that stays in line.                                           *)
LEMMA MovesFine ==
  ASSUME FileCacheInv, NEW r \in Requests, pc[r] # "idle", NEW label \in {"race", "fetch"},
         Moves(r, label), Media', UNCHANGED <<queue, timeout, cleaner, overlapped>>
  PROVE  FileCacheInv'
<1>1. /\ Placed /\ Queued /\ queue \in [Files -> Seq(Requests)]
      /\ timeout \in Timeouts /\ cleaner \in {"on", "off", "stopping"}
      /\ overlapped \in BOOLEAN
  BY CacheParts
<1>2. pc' = [pc EXCEPT ![r] = label] /\ file' = file
  BY DEF Moves
<1>3. Placed'
  BY <1>1, <1>2 DEF Placed, Pcs
<1>4. Queued'
  BY <1>1, <1>2 DEF Queued
<1> QED BY <1>1, <1>3, <1>4, CacheParts

LEMMA AskFine ==
  ASSUME FileCacheInv, NEW r \in Requests, NEW f \in Files, Ask(r, f)
  PROVE  FileCacheInv'
<1>1. /\ Media /\ Placed /\ Queued /\ queue \in [Files -> Seq(Requests)]
      /\ timeout \in Timeouts /\ cleaner \in {"on", "off", "stopping"}
      /\ overlapped \in BOOLEAN
  BY CacheParts
<1>2. /\ pc[r] = "idle" /\ pc' = [pc EXCEPT ![r] = "wait"] /\ file' = [file EXCEPT ![r] = f]
      /\ queue' = [queue EXCEPT ![f] = Append(@, r)]
      /\ UNCHANGED <<media, timeout, cleaner, overlapped>>
  BY DEF Ask, settings
<1>3. file[r] = NoFile /\ f # NoFile
  BY <1>1, <1>2, CacheAssumptions DEF Placed
<1>4. Placed'
  BY <1>1, <1>2, <1>3 DEF Placed, Pcs
<1> DEFINE q == queue[f]
           z == Append(q, r)
<1>5. q \in Seq(Requests) /\ IsInjective(q) /\ ToSet(q) = {x \in Requests : file[x] = f}
  BY <1>1 DEF Queued
<1>6. z \in Seq(Requests) /\ IsInjective(z) /\ ToSet(z) = ToSet(q) \cup {r}
  <2>1. r \notin ToSet(q)
    BY <1>3, <1>5
  <2> QED BY <1>5, <2>1, JoinsQueue
<1>7. \A g \in Files : queue'[g] = IF g = f THEN z ELSE queue[g]
  BY <1>1, <1>2
<1> HIDE DEF z, q
<1>8. queue' \in [Files -> Seq(Requests)]
  BY <1>1, <1>2, <1>6 DEF z, q
<1>9. ASSUME NEW g \in Files
      PROVE  IsInjective(queue'[g]) /\ ToSet(queue'[g]) = {x \in Requests : file'[x] = g}
  <2>1. \A x \in Requests : file'[x] = IF x = r THEN f ELSE file[x]
    BY <1>1, <1>2 DEF Placed
  <2>2. CASE g = f
    BY <1>5, <1>6, <1>7, <2>1, <2>2
  <2>3. CASE g # f
    <3>1. queue'[g] = queue[g] /\ IsInjective(queue[g])
          /\ ToSet(queue[g]) = {x \in Requests : file[x] = g}
      BY <1>1, <1>7, <2>3 DEF Queued
    <3>2. g # NoFile
      BY CacheAssumptions
    <3>3. {x \in Requests : file'[x] = g} = {x \in Requests : file[x] = g}
      BY <1>3, <2>1, <2>3, <3>2
    <3> QED BY <3>1, <3>3
  <2> QED BY <2>2, <2>3
<1>10. Queued'
  BY <1>9 DEF Queued
<1>11. Media'
  BY <1>1, <1>2, SameMedia
<1> QED BY <1>1, <1>2, <1>4, <1>8, <1>10, <1>11, CacheParts

(* The answer that a request gets, or the next thing it tries.             *)
LEMMA AnswerFine ==
  ASSUME FileCacheInv, NEW r \in Requests, Answer(r) \/ Cancelled(r)
  PROVE  FileCacheInv'
<1>1. Media /\ Placed
  BY CacheParts
<1>2. pc[r] # "idle"
  BY DEF Answer, Hit, Miss, RaceWon, RaceLost, Fetched, ToolFetched, ToolsFail, Cancelled, Entered
<1>3. file[r] \in Files
  BY <1>1, <1>2 DEF Placed
<1>4. CASE Hit(r) \/ ToolsFail(r) \/ Cancelled(r)
  <2>1. Leave(r) /\ UNCHANGED media /\ UNCHANGED settings
    BY <1>4 DEF Hit, ToolsFail, Cancelled, media, settings
  <2>2. Media'
    BY <1>1, <2>1, SameMedia
  <2> QED BY <1>2, <2>1, <2>2, LeaveFine
<1>5. CASE RaceWon(r) \/ Fetched(r) \/ ToolFetched(r)
  <2>1. PICK old \in 0..Oldest, good \in BOOLEAN : Write(file[r], old, good)
    <3> 0 \in 0..Oldest
      BY CacheAssumptions
    <3> QED BY <1>5 DEF RaceWon, Fetched, ToolFetched
  <2>2. Leave(r) /\ UNCHANGED settings
    BY <1>5 DEF RaceWon, Fetched, ToolFetched
  <2>3. Media'
    BY <1>1, <1>3, <2>1, WriteMedia
  <2> QED BY <1>2, <2>2, <2>3, LeaveFine
<1>6. CASE Miss(r)
  <2>1. (Unlink({file[r]}) \/ UNCHANGED media) /\ UNCHANGED <<queue, timeout, cleaner, overlapped>>
        /\ Moves(r, IF file[r] \in Presigned THEN "race" ELSE "fetch")
    BY <1>6 DEF Miss, settings
  <2>2. Media'
    BY <1>1, <2>1, UnlinkMedia, SameMedia
  <2> QED BY <1>2, <2>1, <2>2, MovesFine
<1>7. CASE RaceLost(r)
  <2>1. Moves(r, "fetch") /\ UNCHANGED media /\ UNCHANGED <<queue, timeout, cleaner, overlapped>>
    BY <1>7 DEF RaceLost, media, settings
  <2>2. Media'
    BY <1>1, <2>1, SameMedia
  <2> QED BY <1>2, <2>1, <2>2, MovesFine
<1> QED BY <1>4, <1>5, <1>6, <1>7 DEF Answer

LEMMA CleaningFine ==
  ASSUME FileCacheInv,
         Tick \/ (\E fs : CleanUp(fs)) \/ Stopped \/ \E t \in Timeouts : SetTimeout(t)
  PROVE  FileCacheInv'
<1>1. /\ Media /\ Placed /\ Queued /\ queue \in [Files -> Seq(Requests)]
      /\ timeout \in Timeouts /\ cleaner \in {"on", "off", "stopping"}
      /\ overlapped \in BOOLEAN
  BY CacheParts
<1>2. UNCHANGED <<queue, pc, file>>
  BY DEF Tick, CleanUp, Stopped, SetTimeout
<1>3. Placed' /\ Queued'
  BY <1>1, <1>2 DEF Placed, Queued
<1>4. CASE Tick
  <2>1. age' = [f \in Files |-> IF age[f] \in 0..(Oldest - 1) THEN age[f] + 1 ELSE age[f]]
        /\ broken' = broken /\ UNCHANGED <<timeout, cleaner, overlapped>>
    BY <1>4 DEF Tick, settings
  <2>2. ASSUME NEW f \in Files PROVE age'[f] \in Ages /\ (age[f] # NoFile => age'[f] # NoFile)
    <3>1. CASE age[f] \in 0..(Oldest - 1)
      <4>1. age'[f] \in 0..Oldest
        BY <2>1, <3>1, CacheAssumptions
      <4> QED BY <4>1, CacheAssumptions DEF Ages
    <3>2. CASE age[f] \notin 0..(Oldest - 1)
      BY <1>1, <2>1, <3>2 DEF Media
    <3> QED BY <3>1, <3>2
  <2>3. Media'
    BY <1>1, <2>1, <2>2 DEF Media
  <2> QED BY <1>1, <1>2, <1>3, <2>1, <2>3, CacheParts
<1>5. CASE \E fs : CleanUp(fs)
  <2>1. PICK fs : Unlink(fs)
    BY <1>5 DEF CleanUp
  <2>2. Media' /\ UNCHANGED <<timeout, cleaner, overlapped>>
    BY <1>1, <1>5, <2>1, UnlinkMedia DEF CleanUp, settings
  <2> QED BY <1>1, <1>2, <1>3, <2>2, CacheParts
<1>6. CASE Stopped
  <2>1. Media'
    BY <1>1, <1>6, SameMedia DEF Stopped
  <2> QED BY <1>1, <1>2, <1>3, <1>6, <2>1, CacheParts DEF Stopped
<1>7. CASE \E t \in Timeouts : SetTimeout(t)
  <2>1. PICK t \in Timeouts : SetTimeout(t)
    BY <1>7
  <2>2. Media'
    BY <1>1, <2>1, SameMedia DEF SetTimeout
  <2>3. timeout' \in Timeouts /\ cleaner' \in {"on", "off", "stopping"} /\ overlapped' \in BOOLEAN
    BY <1>1, <2>1 DEF SetTimeout
  <2> QED BY <1>1, <1>2, <1>3, <2>2, <2>3, CacheParts
<1> QED BY <1>4, <1>5, <1>6, <1>7

LEMMA CacheInit == FileCacheInit => FileCacheInv
<1> SUFFICES ASSUME FileCacheInit PROVE FileCacheInv
  OBVIOUS
<1>1. queue \in [Files -> Seq(Requests)]
  BY DEF FileCacheInit
<1>2. ASSUME NEW f \in Files
      PROVE  IsInjective(queue[f]) /\ ToSet(queue[f]) = {r \in Requests : file[r] = f}
  <2>1. queue[f] = <<>> /\ DOMAIN queue[f] = {}
    BY DEF FileCacheInit
  <2>2. \A r \in Requests : file[r] # f
    BY CacheAssumptions DEF FileCacheInit
  <2>3. ToSet(queue[f]) = {}
    BY <2>1 DEF ToSet
  <2> QED BY <2>1, <2>2, <2>3 DEF IsInjective
<1>3. /\ age \in [Files -> Ages] /\ broken \subseteq Files /\ broken = {}
      /\ pc \in [Requests -> Pcs] /\ file \in [Requests -> Files \cup {NoFile}]
      /\ \A r \in Requests : pc[r] = "idle" <=> file[r] = NoFile
      /\ timeout \in Timeouts /\ cleaner \in {"on", "off", "stopping"}
      /\ overlapped \in BOOLEAN
  BY DEF FileCacheInit, Ages, Pcs
<1> QED BY <1>1, <1>2, <1>3 DEF FileCacheInv, FileCacheTypeOK

LEMMA CacheStutter == FileCacheInv /\ UNCHANGED cache => FileCacheInv'
BY CacheParts DEF cache, Media, Placed, Queued

LEMMA CacheStep == FileCacheInv /\ [FileCacheNext]_cache => FileCacheInv'
BY AskFine, AnswerFine, CleaningFine, CacheStutter DEF FileCacheNext

(* Whoever asks, gives up or is cancelled, a name's lock has in line the   *)
(* requests that want the file, once each, and a file left broken is one   *)
(* that exists (shared/storage/file_cache.py).                             *)
THEOREM CacheTypes == FileCacheSpec => []FileCacheTypeOK
<1>1. FileCacheInv => FileCacheTypeOK
  BY DEF FileCacheInv
<1> QED BY CacheInit, CacheStep, <1>1, PTL DEF FileCacheSpec

-----------------------------------------------------------------------------
(* The three parts together.                                               *)

PartsInv == Types /\ OnboardingInv /\ FileCacheInv

LEMMA PartsInit == Init => PartsInv
<1>1. AlertsInit => Types
  BY TypesInit
<1>2. OnboardingInit => OnboardingInv
  BY InitFine
<1> QED BY <1>1, <1>2, CacheInit DEF Init, PartsInv

LEMMA AlertingKept ==
  ASSUME PartsInv, AlertsNext, UNCHANGED <<onboarding, cache>>
  PROVE  PartsInv'
<1>1. Types'
  BY TypesStep DEF PartsInv
<1>2. OnboardingInv'
  BY StepFine DEF PartsInv
<1>3. FileCacheInv'
  BY CacheStep DEF PartsInv
<1> QED BY <1>1, <1>2, <1>3 DEF PartsInv

LEMMA BoardingKept ==
  ASSUME PartsInv, OnboardingNext, UNCHANGED <<alerts, cache>>
  PROVE  PartsInv'
<1>1. Types'
  BY TypesStep DEF PartsInv
<1>2. OnboardingInv'
  BY StepFine DEF PartsInv
<1>3. FileCacheInv'
  BY CacheStep DEF PartsInv
<1> QED BY <1>1, <1>2, <1>3 DEF PartsInv

LEMMA CachingKept ==
  ASSUME PartsInv, FileCacheNext, UNCHANGED <<alerts, onboarding>>
  PROVE  PartsInv'
<1>1. Types'
  BY TypesStep DEF PartsInv
<1>2. OnboardingInv'
  BY StepFine DEF PartsInv
<1>3. FileCacheInv'
  BY CacheStep DEF PartsInv
<1> QED BY <1>1, <1>2, <1>3 DEF PartsInv

(* Next lists the steps of the three modules and no other.                 *)
LEMMA PartsNext ==
  ASSUME Next
  PROVE  \/ AlertsNext /\ UNCHANGED <<onboarding, cache>>
         \/ OnboardingNext /\ UNCHANGED <<alerts, cache>>
         \/ FileCacheNext /\ UNCHANGED <<alerts, onboarding>>
<1> DEFINE Alerted == AlertsNext /\ UNCHANGED <<onboarding, cache>>
           Boarded == OnboardingNext /\ UNCHANGED <<alerts, cache>>
           Cached == FileCacheNext /\ UNCHANGED <<alerts, onboarding>>
<1>1. ASSUME \/ \E outcome \in Codes \cup {Ok} :
                  \/ Alerting(Change(outcome))
                  \/ \E p \in Procs : Alerting(Judge(p, outcome))
             \/ Alerting(Reconcile) \/ Alerting(ReconcileFails) \/ Alerting(GateStart)
             \/ \E p \in Procs :
                  \/ Alerting(Delivered(p)) \/ Alerting(Undelivered(p))
                  \/ Alerting(AnswerLost(p)) \/ Alerting(Persist(p))
                  \/ Alerting(WriteFails(p)) \/ Alerting(RunnerKilled(p))
      PROVE  Alerted
  <2> USE DEF Alerting
  <2>1. UNCHANGED <<onboarding, cache>>
    BY <1>1, Zenon
  <2>2. AlertsNext
    BY <1>1, Zenon DEF AlertsNext
  <2> QED BY <2>1, <2>2
<1>2. ASSUME \/ \E p \in Clients \cup {Cli} :
                  \/ Boarding(ReadToken(p)) \/ Boarding(ReadProjects(p))
                  \/ Boarding(CreateProject(p)) \/ Boarding(AddProject(p))
                  \/ Boarding(PoolFull(p)) \/ Boarding(Point(p))
             \/ \E c \in Clients :
                  \/ \E a \in Accounts : Boarding(Request(c, a))
                  \/ Boarding(Pick(c)) \/ Boarding(RequestFails(c))
             \/ Boarding(StartNew) \/ \E a \in Accounts : Boarding(StartExisting(a))
             \/ Boarding(LoggedIn) \/ Boarding(Insert) \/ Boarding(Rename)
             \/ Boarding(Publish) \/ Boarding(Fails) \/ Boarding(Killed)
             \/ Boarding(DropRow) \/ Boarding(RowStays)
             \/ Boarding(Sweep) \/ Boarding(SweepMisses)
      PROVE  Boarded
  <2> USE DEF Boarding
  <2>1. UNCHANGED <<alerts, cache>>
    BY <1>2, Zenon
  <2>2. OnboardingNext
    BY <1>2, Zenon DEF OnboardingNext, Provision, Serve, Onboard, Callers
  <2> QED BY <2>1, <2>2
<1>3. ASSUME \/ \E r \in Requests :
                  \/ \E f \in Files : Caching(Ask(r, f))
                  \/ Caching(Hit(r)) \/ Caching(Miss(r)) \/ Caching(RaceWon(r))
                  \/ Caching(RaceLost(r)) \/ Caching(Fetched(r))
                  \/ Caching(ToolFetched(r)) \/ Caching(ToolsFail(r))
                  \/ Caching(Cancelled(r))
             \/ Caching(Tick) \/ Caching(Stopped)
             \/ \E fs \in SUBSET Files : Caching(CleanUp(fs))
             \/ \E t \in Timeouts : Caching(SetTimeout(t))
      PROVE  Cached
  <2> USE DEF Caching
  <2>1. UNCHANGED <<alerts, onboarding>>
    BY <1>3, Zenon
  <2>2. FileCacheNext
    BY <1>3, Zenon DEF FileCacheNext, Answer
  <2> QED BY <2>1, <2>2
<1> HIDE DEF Alerted, Boarded, Cached
<1>4. Alerted \/ Boarded \/ Cached
  BY <1>1, <1>2, <1>3, Zenon DEF Next
<1> QED BY <1>4 DEF Alerted, Boarded, Cached

LEMMA PartsStep == PartsInv /\ [Next]_all => PartsInv'
<1>1. ASSUME PartsInv, Next PROVE PartsInv'
  BY <1>1, PartsNext, AlertingKept, BoardingKept, CachingKept
<1>2. ASSUME PartsInv, UNCHANGED all PROVE PartsInv'
  <2>1. UNCHANGED <<alerts, onboarding, cache>>
    BY <1>2 DEF all
  <2>2. Types' /\ OnboardingInv' /\ FileCacheInv'
    BY <1>2, <2>1, TypesStep, StepFine, CacheStep DEF PartsInv
  <2> QED BY <2>2 DEF PartsInv
<1> QED BY <1>1, <1>2

LEMMA PartsInvariance == Spec => []PartsInv
BY PartsInit, PartsStep, PTL DEF Spec

(* The alerts, the onboardings and the cache keep their types, whichever   *)
(* runs, and none of them disturbs another (keepalive/alerts.py,           *)
(* tokens/onboard.py, shared/storage/file_cache.py).                       *)
THEOREM HousekeepingTypes == Spec => []TypeOK
<1>1. PartsInv => TypeOK
  BY DEF PartsInv, TypeOK, Types, OnboardingInv, FileCacheInv
<1> QED BY PartsInvariance, <1>1, PTL

=============================================================================
