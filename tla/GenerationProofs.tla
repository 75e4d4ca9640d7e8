-------------------------- MODULE GenerationProofs --------------------------
(***************************************************************************)
(* Theorems about Generation, for any requests, projects, configurations,  *)
(* demands, numbers of tries and faults.                                   *)
(***************************************************************************)
EXTENDS Generation, TLAPS

Early == {"new", "upload", "resolve", "submit"}
CallPcs == {"cool", "waiting", "solve", "progress", "browser", "http", "urllib", "pause",
            "finish"}
Closing == {"usage", "blame", "fail", "done"}
ImagePcs == {"product", "upsampled", "deliver"}
VideoPcs == {"accepted", "record", "poll", "upaccepted", "uppoll", "finalize", "failtask"}
SessionPcs == {"progress", "browser", "http", "urllib", "pause", "finish"}

InMain(q) == q.pc \in CallPcs /\ q.call \notin Upsamples
InUpsample(q) == q.pc \in CallPcs /\ q.call \in Upsamples

Statuses == {"none", "processing", "completed", "failed"}

(* The request polls a task, or has found its video.                       *)
Polling(q) ==
    \/ q.pc \in {"poll", "upaccepted", "uppoll", "finalize", "failtask"}
    \/ q.demand.kind # "image" /\ (q.pc = "upsample" \/ InUpsample(q))

(* The call in hand has had its job taken, or its client has left.         *)
CallOver(q) == q.pc = "finish" /\ q.after \in {"return", "leave"}

(* Each step is one that the kind of the demand has.                       *)
KindFits(q) ==
    /\ q.pc \in CallPcs =>
         /\ q.call # "none"
         /\ q.call \in {"generate_image", "upsample_image"} <=> q.demand.kind = "image"
    /\ q.pc \in ImagePcs => q.demand.kind = "image"
    /\ q.pc \in VideoPcs => q.demand.kind # "image"

(* How a call ends is known once it is ending; only a client that left     *)
(* ends it without a verdict.                                              *)
EndFits(q) ==
    /\ q.pc = "pause" => q.after = "retry"
    /\ q.pc = "finish" => q.after # "none"
    /\ q.after = "leave" => q.gone

SidFits(q) == q.sid => q.pc \in SessionPcs

Says(a, word) == \E i \in DOMAIN a : a[i] = word

SaysDone(a) == Says(a, "success") \/ Says(a, "hollow")

(* The row of the task against what the client was told.                   *)
RowFits(q, t, a) ==
    /\ t = "completed" => SaysDone(a)
    /\ t = "failed" => Says(a, "failure") /\ ~SaysDone(a)
    /\ SaysDone(a) => t \in {"none", "completed"}
    /\ q.pc \notin Closing => t = IF Polling(q) THEN "processing" ELSE "none"

(* What the client was told, by where the request is.                      *)
AnswerFits(q, t, a, n) ==
    /\ q.pc \notin Closing => a = <<>>
    /\ q.pc = "usage" => a = <<"success">> \/ a = <<"hollow">>
    /\ q.pc = "blame" => a = <<"failure">> /\ (n = 0 => t # "processing")
    /\ q.pc = "fail" /\ n = 0 => a = <<>> /\ t = "none"
    /\ n = 0 => Len(a) \leq 1
    /\ q.pc = "done" /\ ~q.gone /\ n = 0 => Len(a) = 1 /\ t # "processing"

(* A request with an address is on the way to deliver it.                  *)
UrlFits(q, a, n) ==
    q.url # "none" /\ n = 0 =>
        /\ \/ q.pc \in {"upsample", "upsampled", "deliver", "upaccepted", "uppoll", "finalize",
                        "usage", "done"}
           \/ InUpsample(q)
        /\ q.pc = "done" /\ ~q.gone => Says(a, "success") \/ q.url = "missing"
        /\ q.pc = "usage" => Says(a, "success") \/ q.url = "missing"

(* The address is lost to an upsample that was taken, and only then is a   *)
(* success hollow.                                                         *)
DropFits(q, a) ==
    /\ \/ q.url = "missing"
       \/ q.pc \in {"upaccepted", "uppoll"}
       \/ InUpsample(q) /\ q.pc = "finish" /\ q.after = "return"
       => q.ups > 0
    /\ Says(a, "hollow") => q.url = "missing"

(* The jobs ordered, by where the request is.                              *)
JobsFit(q, n) ==
    /\ q.mains \leq 1
    /\ q.pc \in Early \/ (InMain(q) /\ ~CallOver(q)) => q.mains = 0
    /\ q.ups \leq 1 + n
    /\ \/ q.pc \in Early \cup {"product", "accepted", "record", "poll", "upsample"}
       \/ InMain(q)
       \/ InUpsample(q) /\ ~CallOver(q)
       => q.ups \leq n

Facts(q, t, a, n) ==
    /\ KindFits(q) /\ EndFits(q) /\ SidFits(q)
    /\ RowFits(q, t, a) /\ AnswerFits(q, t, a, n) /\ UrlFits(q, a, n) /\ JobsFit(q, n)
    /\ DropFits(q, a)

FactsInv == \A r \in Requests : Facts(req[r], task[r], answers[r], refused[r])

-----------------------------------------------------------------------------
(* Only the sleepers of a project notice that its cooldown changed.        *)
SameButWait(q, o) == \E w \in {"no", "current", "past"} : q = [o EXCEPT !.wait = w]

(* A step of r leaves the others where they are.                           *)
OthersStay(r) ==
    /\ req' \in [Requests -> States]
    /\ \A x \in Requests \ {r} : SameButWait(req'[x], req[x])

LEMMA StayType ==
  ASSUME NEW q \in States
  PROVE  SameButWait(q, q)
<1> DEFINE w == q.wait
<1>1. w \in {"no", "current", "past"} /\ q = [q EXCEPT !.wait = w]
  BY DEF States
<1> QED BY <1>1 DEF SameButWait

LEMMA PutMoves ==
  ASSUME NEW r \in Requests, NEW q \in States, req \in [Requests -> States], Put(r, q)
  PROVE  OthersStay(r) /\ req'[r] = q
<1>1. req' = [req EXCEPT ![r] = q]
  BY DEF Put
<1>2. req' \in [Requests -> States] /\ req'[r] = q
  BY <1>1
<1>3. \A x \in Requests \ {r} : SameButWait(req'[x], req[x])
  <2> SUFFICES ASSUME NEW x \in Requests \ {r} PROVE SameButWait(req'[x], req[x])
    OBVIOUS
  <2>1. req'[x] = req[x] /\ req[x] \in States
    BY <1>1
  <2> QED BY <2>1, StayType
<1> QED BY <1>2, <1>3 DEF OthersStay

LEMMA UnsettleMoves ==
  ASSUME NEW r \in Requests, NEW q \in States, req \in [Requests -> States], Unsettle(r, q)
  PROVE  OthersStay(r) /\ req'[r] = q
<1>1. req' = [x \in Requests |->
              IF x = r THEN q
              ELSE IF x \in Asleep(q.project) THEN [req[x] EXCEPT !.wait = "past"]
              ELSE req[x]]
  BY DEF Unsettle
<1>2. \A x \in Requests \ {r} : SameButWait(req'[x], req[x]) /\ req'[x] \in States
  <2> SUFFICES ASSUME NEW x \in Requests \ {r}
               PROVE SameButWait(req'[x], req[x]) /\ req'[x] \in States
    OBVIOUS
  <2>1. req[x] \in States
    OBVIOUS
  <2>2. CASE req'[x] = req[x]
    BY <2>1, <2>2, StayType
  <2>3. CASE req'[x] = [req[x] EXCEPT !.wait = "past"]
    BY <2>1, <2>3 DEF SameButWait, States
  <2> QED BY <1>1, <2>2, <2>3
<1>3. req'[r] = q
  BY <1>1
<1>4. req' \in [Requests -> States]
  BY <1>1, <1>2, <1>3
<1> QED BY <1>2, <1>3, <1>4 DEF OthersStay

(* The facts about a request do not depend on what it waits for.           *)
LEMMA WaitIsNoFact ==
  ASSUME NEW o \in States, NEW q, SameButWait(q, o), NEW t, NEW a, NEW n,
         Facts(o, t, a, n)
  PROVE  Facts(q, t, a, n)
<1>1. PICK w \in {"no", "current", "past"} : q = [o EXCEPT !.wait = w]
  BY DEF SameButWait
<1>2. /\ q.pc = o.pc /\ q.call = o.call /\ q.demand = o.demand /\ q.after = o.after
      /\ q.gone = o.gone /\ q.sid = o.sid /\ q.url = o.url
      /\ q.mains = o.mains /\ q.ups = o.ups
  BY <1>1 DEF States
<1> QED
  BY <1>2 DEF Facts, KindFits, EndFits, SidFits, RowFits, AnswerFits, UrlFits, JobsFit,
              DropFits, SaysDone,
              InMain, InUpsample, Polling, CallOver

-----------------------------------------------------------------------------
(* What a step that tells nobody anything must make of its request.        *)
Kept(q, t, a, n) == q \in States /\ Facts(q, t, a, n)

(* What is said after a word is what was said, and that word.              *)
LEMMA LaterWords ==
  ASSUME NEW a \in Seq(Words)
  PROVE  /\ \A w \in Words : Says(Append(a, "failure"), w) <=> w = "failure" \/ Says(a, w)
         /\ Len(Append(a, "failure")) = Len(a) + 1
         /\ Len(a) \in Nat
<1> DEFINE b == Append(a, "failure")
<1>1. /\ DOMAIN b = 1..(Len(a) + 1) /\ DOMAIN a = 1..Len(a) /\ Len(a) \in Nat
      /\ b[Len(a) + 1] = "failure" /\ \A i \in 1..Len(a) : b[i] = a[i]
  BY DEF Words
<1>2. Len(b) = Len(a) + 1
  BY DEF Words
<1> HIDE DEF b
<1>3. \A w : Says(b, w) <=> w = "failure" \/ Says(a, w)
  BY <1>1 DEF Says
<1> QED BY <1>1, <1>2, <1>3 DEF b

-----------------------------------------------------------------------------
(* Where a call that is over leads, by how it ended.                       *)
CallEnds(q, pc) ==
    \/ q.after = "leave" /\ pc = "done"
    \/ q.after = "return" /\ pc = (CASE q.call = "generate_image" -> "product"
                                    [] q.call = "upsample_image" -> "upsampled"
                                    [] q.call = "upsample_video" -> "upaccepted"
                                    [] OTHER -> "accepted")
    \/ q.after = "raise" /\ \/ q.call = "upsample_image" /\ pc \in {"upsample", "deliver"}
                            \/ q.call = "upsample_video" /\ pc = "finalize"
                            \/ q.call \notin Upsamples /\ pc = "fail"

(* The request of a client that has left.                                  *)
Gone(q) == [q EXCEPT !.gone = TRUE, !.wait = "no"]

LEMMA EndTypes ==
  ASSUME NEW q \in States, NEW pc \in Pcs,
         NEW after \in {"none", "retry", "raise", "return", "leave"}
  PROVE  /\ [q EXCEPT !.pc = pc, !.after = after] \in States
         /\ [q EXCEPT !.pc = pc, !.after = after, !.sid = FALSE] \in States
  BY DEF States

-----------------------------------------------------------------------------
(* What each step makes of its request, its row and its answers: the lemmas *)
(* of this section compare the nine fields that Facts speaks of and then go *)
(* by cases on the pcs and calls.  q, t, a and n are the request, the       *)
(* status of its row, its answers and its refused writes.                   *)
USE DEF Facts, KindFits, EndFits, SidFits, RowFits, AnswerFits, UrlFits, JobsFit,
        DropFits, SaysDone,
        InMain, InUpsample, Polling, CallOver, Early, CallPcs, Closing, ImagePcs, VideoPcs,
        SessionPcs, Upsamples

(* The last upload lands, or one gives up.                                 *)
LEMMA UploadKeeps ==
  ASSUME NEW q, NEW t, NEW a, NEW n \in Nat, Kept(q, t, a, n),
         q.pc = "upload", NEW pc \in {"submit", "fail"}
  PROVE  Kept(At(q, pc), t, a, n)
<1> DEFINE z == At(q, pc)
<1>1. q \in States
  BY DEF Kept
<1>2. z \in States
  BY <1>1 DEF States, Pcs, At
<1>3. /\ z.pc = pc
      /\ z.call = q.call /\ z.demand = q.demand /\ z.after = q.after /\ z.gone = q.gone
      /\ z.sid = q.sid /\ z.url = q.url /\ z.mains = q.mains /\ z.ups = q.ups
  BY <1>1 DEF States, At
<1> HIDE DEF z
<1>4. q.mains \in Nat /\ q.ups \in Nat /\ q.call \in Calls
  BY <1>1 DEF States
<1>5. Facts(q, t, a, n)
  BY DEF Kept
<1>6. Facts(z, t, a, n)
  BY <1>3, <1>4, <1>5
<1> QED BY <1>2, <1>6 DEF Kept, z

(* The source video of an edit is there.                                   *)
LEMMA ResolveKeeps ==
  ASSUME NEW q, NEW t, NEW a, NEW n \in Nat, Kept(q, t, a, n),
         q.pc = "resolve"
  PROVE  Kept(At(q, "submit"), t, a, n)
<1> DEFINE z == At(q, "submit")
<1>1. q \in States
  BY DEF Kept
<1>2. z \in States
  BY <1>1 DEF States, Pcs, At
<1>3. /\ z.pc = "submit"
      /\ z.call = q.call /\ z.demand = q.demand /\ z.after = q.after /\ z.gone = q.gone
      /\ z.sid = q.sid /\ z.url = q.url /\ z.mains = q.mains /\ z.ups = q.ups
  BY <1>1 DEF States, At
<1> HIDE DEF z
<1>4. q.mains \in Nat /\ q.ups \in Nat /\ q.call \in Calls
  BY <1>1 DEF States
<1>5. Facts(q, t, a, n)
  BY DEF Kept
<1>6. Facts(z, t, a, n)
  BY <1>3, <1>4, <1>5
<1> QED BY <1>2, <1>6 DEF Kept, z

(* A call begins.                                                          *)
LEMMA StartKeeps ==
  ASSUME NEW q, NEW t, NEW a, NEW n \in Nat, Kept(q, t, a, n),
         NEW call \in Calls \ {"none"},
         call \in {"generate_image", "upsample_image"} <=> q.demand.kind = "image",
         \/ q.pc = "submit" /\ call \notin Upsamples
         \/ q.pc = "upsample" /\ call \in Upsamples
  PROVE  Kept([q EXCEPT !.pc = "cool", !.call = call, !.try = 0, !.sends = 0,
                        !.err = "none"], t, a, n)
<1> DEFINE z == [q EXCEPT !.pc = "cool", !.call = call, !.try = 0, !.sends = 0,
                        !.err = "none"]
<1>1. q \in States
  BY DEF Kept
<1>2. z \in States
  BY <1>1 DEF States, Pcs
<1>3. /\ z.pc = "cool" /\ z.call = call
      /\ z.demand = q.demand /\ z.after = q.after /\ z.gone = q.gone /\ z.sid = q.sid
      /\ z.url = q.url /\ z.mains = q.mains /\ z.ups = q.ups
  BY <1>1 DEF States
<1> HIDE DEF z
<1>4. q.mains \in Nat /\ q.ups \in Nat /\ q.call \in Calls
  BY <1>1 DEF States
<1>5. Facts(q, t, a, n)
  BY DEF Kept
<1>6. Facts(z, t, a, n)
  BY <1>3, <1>4, <1>5
<1> QED BY <1>2, <1>6 DEF Kept, z

(* It sleeps through a cooldown ...                                        *)
LEMMA CoolKeeps ==
  ASSUME NEW q, NEW t, NEW a, NEW n \in Nat, Kept(q, t, a, n),
         q.pc = "cool"
  PROVE  Kept([q EXCEPT !.pc = "waiting", !.wait = "current"], t, a, n)
<1> DEFINE z == [q EXCEPT !.pc = "waiting", !.wait = "current"]
<1>1. q \in States
  BY DEF Kept
<1>2. z \in States
  BY <1>1 DEF States, Pcs
<1>3. /\ z.pc = "waiting"
      /\ z.call = q.call /\ z.demand = q.demand /\ z.after = q.after /\ z.gone = q.gone
      /\ z.sid = q.sid /\ z.url = q.url /\ z.mains = q.mains /\ z.ups = q.ups
  BY <1>1 DEF States
<1> HIDE DEF z
<1>4. q.mains \in Nat /\ q.ups \in Nat /\ q.call \in Calls
  BY <1>1 DEF States
<1>5. Facts(q, t, a, n)
  BY DEF Kept
<1>6. Facts(z, t, a, n)
  BY <1>3, <1>4, <1>5
<1> QED BY <1>2, <1>6 DEF Kept, z

(* ... or finds none ...                                                   *)
LEMMA CooledKeeps ==
  ASSUME NEW q, NEW t, NEW a, NEW n \in Nat, Kept(q, t, a, n),
         q.pc = "cool"
  PROVE  Kept(At(q, "solve"), t, a, n)
<1> DEFINE z == At(q, "solve")
<1>1. q \in States
  BY DEF Kept
<1>2. z \in States
  BY <1>1 DEF States, Pcs, At
<1>3. /\ z.pc = "solve"
      /\ z.call = q.call /\ z.demand = q.demand /\ z.after = q.after /\ z.gone = q.gone
      /\ z.sid = q.sid /\ z.url = q.url /\ z.mains = q.mains /\ z.ups = q.ups
  BY <1>1 DEF States, At
<1> HIDE DEF z
<1>4. q.mains \in Nat /\ q.ups \in Nat /\ q.call \in Calls
  BY <1>1 DEF States
<1>5. Facts(q, t, a, n)
  BY DEF Kept
<1>6. Facts(z, t, a, n)
  BY <1>3, <1>4, <1>5
<1> QED BY <1>2, <1>6 DEF Kept, z

(* ... and wakes.                                                          *)
LEMMA WakeKeeps ==
  ASSUME NEW q, NEW t, NEW a, NEW n \in Nat, Kept(q, t, a, n),
         q.pc = "waiting"
  PROVE  Kept([q EXCEPT !.pc = "solve", !.wait = "no"], t, a, n)
<1> DEFINE z == [q EXCEPT !.pc = "solve", !.wait = "no"]
<1>1. q \in States
  BY DEF Kept
<1>2. z \in States
  BY <1>1 DEF States, Pcs
<1>3. /\ z.pc = "solve"
      /\ z.call = q.call /\ z.demand = q.demand /\ z.after = q.after /\ z.gone = q.gone
      /\ z.sid = q.sid /\ z.url = q.url /\ z.mains = q.mains /\ z.ups = q.ups
  BY <1>1 DEF States
<1> HIDE DEF z
<1>4. q.mains \in Nat /\ q.ups \in Nat /\ q.call \in Calls
  BY <1>1 DEF States
<1>5. Facts(q, t, a, n)
  BY DEF Kept
<1>6. Facts(z, t, a, n)
  BY <1>3, <1>4, <1>5
<1> QED BY <1>2, <1>6 DEF Kept, z

(* The captcha is solved, with a session or without.                       *)
LEMMA SolvedKeeps ==
  ASSUME NEW q, NEW t, NEW a, NEW n \in Nat, Kept(q, t, a, n),
         q.pc = "solve", NEW sid \in BOOLEAN,
         NEW pc \in {"progress", "browser", "http"}
  PROVE  Kept([q EXCEPT !.pc = pc, !.sid = sid], t, a, n)
<1> DEFINE z == [q EXCEPT !.pc = pc, !.sid = sid]
<1>1. q \in States
  BY DEF Kept
<1>2. z \in States
  BY <1>1 DEF States, Pcs
<1>3. /\ z.pc = pc /\ z.sid = sid
      /\ z.call = q.call /\ z.demand = q.demand /\ z.after = q.after /\ z.gone = q.gone
      /\ z.url = q.url /\ z.mains = q.mains /\ z.ups = q.ups
  BY <1>1 DEF States
<1> HIDE DEF z
<1>4. q.mains \in Nat /\ q.ups \in Nat /\ q.call \in Calls
  BY <1>1 DEF States
<1>5. Facts(q, t, a, n)
  BY DEF Kept
<1>6. Facts(z, t, a, n)
  BY <1>3, <1>4, <1>5
<1> QED BY <1>2, <1>6 DEF Kept, z

(* On to the submission, or to another channel.                            *)
LEMMA ForwardKeeps ==
  ASSUME NEW q, NEW t, NEW a, NEW n \in Nat, Kept(q, t, a, n),
         q.pc \in {"progress", "browser", "http", "urllib"},
         NEW pc \in {"browser", "http", "urllib"}
  PROVE  Kept(At(q, pc), t, a, n)
<1> DEFINE z == At(q, pc)
<1>1. q \in States
  BY DEF Kept
<1>2. z \in States
  BY <1>1 DEF States, Pcs, At
<1>3. /\ z.pc = pc
      /\ z.call = q.call /\ z.demand = q.demand /\ z.after = q.after /\ z.gone = q.gone
      /\ z.sid = q.sid /\ z.url = q.url /\ z.mains = q.mains /\ z.ups = q.ups
  BY <1>1 DEF States, At
<1> HIDE DEF z
<1>4. q.mains \in Nat /\ q.ups \in Nat /\ q.call \in Calls
  BY <1>1 DEF States
<1>5. Facts(q, t, a, n)
  BY DEF Kept
<1>6. Facts(z, t, a, n)
  BY <1>3, <1>4, <1>5
<1> QED BY <1>2, <1>6 DEF Kept, z

(* An image is sent again.                                                 *)
LEMMA ResendKeeps ==
  ASSUME NEW q, NEW t, NEW a, NEW n \in Nat, Kept(q, t, a, n),
         q.pc \in {"browser", "http", "urllib"},
         NEW pc \in {"browser", "http"}
  PROVE  Kept([q EXCEPT !.pc = pc, !.sends = @ + 1], t, a, n)
<1> DEFINE z == [q EXCEPT !.pc = pc, !.sends = @ + 1]
<1>1. q \in States
  BY DEF Kept
<1>2. z \in States
  <2>1. q.sends + 1 \in Nat
    BY <1>1 DEF States
  <2> QED BY <1>1, <2>1 DEF States, Pcs
<1>3. /\ z.pc = pc
      /\ z.call = q.call /\ z.demand = q.demand /\ z.after = q.after /\ z.gone = q.gone
      /\ z.sid = q.sid /\ z.url = q.url /\ z.mains = q.mains /\ z.ups = q.ups
  BY <1>1 DEF States
<1> HIDE DEF z
<1>4. q.mains \in Nat /\ q.ups \in Nat /\ q.call \in Calls
  BY <1>1 DEF States
<1>5. Facts(q, t, a, n)
  BY DEF Kept
<1>6. Facts(z, t, a, n)
  BY <1>3, <1>4, <1>5
<1> QED BY <1>2, <1>6 DEF Kept, z

(* There is no token.                                                      *)
LEMMA DroppedKeeps ==
  ASSUME NEW q, NEW t, NEW a, NEW n \in Nat, Kept(q, t, a, n),
         q.pc = "solve"
  PROVE  Kept([q EXCEPT !.sid = FALSE], t, a, n)
<1> DEFINE z == [q EXCEPT !.sid = FALSE]
<1>1. q \in States
  BY DEF Kept
<1>2. z \in States
  BY <1>1 DEF States, Pcs
<1>3. /\ z.sid = FALSE
      /\ z.pc = q.pc /\ z.call = q.call /\ z.demand = q.demand /\ z.after = q.after
      /\ z.gone = q.gone /\ z.url = q.url /\ z.mains = q.mains /\ z.ups = q.ups
  BY <1>1 DEF States
<1> HIDE DEF z
<1>4. q.mains \in Nat /\ q.ups \in Nat /\ q.call \in Calls
  BY <1>1 DEF States
<1>5. Facts(q, t, a, n)
  BY DEF Kept
<1>6. Facts(z, t, a, n)
  BY <1>3, <1>4, <1>5
<1> QED BY <1>2, <1>6 DEF Kept, z

(* An error worth another attempt, and one that is not.                    *)
LEMMA PauseBeforeRetryKeeps ==
  ASSUME NEW q, NEW t, NEW a, NEW n \in Nat, Kept(q, t, a, n),
         q.pc \in {"solve", "browser", "http", "urllib"}, NEW e \in Errors
  PROVE  Kept([q EXCEPT !.pc = "pause", !.after = "retry", !.err = e], t, a, n)
<1> DEFINE z == [q EXCEPT !.pc = "pause", !.after = "retry", !.err = e]
<1>1. q \in States
  BY DEF Kept
<1>2. z \in States
  BY <1>1 DEF States, Pcs
<1>3. /\ z.pc = "pause" /\ z.after = "retry"
      /\ z.call = q.call /\ z.demand = q.demand /\ z.gone = q.gone /\ z.sid = q.sid
      /\ z.url = q.url /\ z.mains = q.mains /\ z.ups = q.ups
  BY <1>1 DEF States
<1> HIDE DEF z
<1>4. q.mains \in Nat /\ q.ups \in Nat /\ q.call \in Calls
  BY <1>1 DEF States
<1>5. Facts(q, t, a, n)
  BY DEF Kept
<1>6. Facts(z, t, a, n)
  BY <1>3, <1>4, <1>5
<1> QED BY <1>2, <1>6 DEF Kept, z

LEMMA GiveUpKeeps ==
  ASSUME NEW q, NEW t, NEW a, NEW n \in Nat, Kept(q, t, a, n),
         q.pc \in {"solve", "browser", "http", "urllib"}, NEW e \in Errors
  PROVE  Kept([q EXCEPT !.pc = "finish", !.after = "raise", !.err = e], t, a, n)
<1> DEFINE z == [q EXCEPT !.pc = "finish", !.after = "raise", !.err = e]
<1>1. q \in States
  BY DEF Kept
<1>2. z \in States
  BY <1>1 DEF States, Pcs
<1>3. /\ z.pc = "finish" /\ z.after = "raise"
      /\ z.call = q.call /\ z.demand = q.demand /\ z.gone = q.gone /\ z.sid = q.sid
      /\ z.url = q.url /\ z.mains = q.mains /\ z.ups = q.ups
  BY <1>1 DEF States
<1> HIDE DEF z
<1>4. q.mains \in Nat /\ q.ups \in Nat /\ q.call \in Calls
  BY <1>1 DEF States
<1>5. Facts(q, t, a, n)
  BY DEF Kept
<1>6. Facts(z, t, a, n)
  BY <1>3, <1>4, <1>5
<1> QED BY <1>2, <1>6 DEF Kept, z

(* The upstream takes a generation: the first of its request.              *)
LEMMA MainTakenKeeps ==
  ASSUME NEW q, NEW t, NEW a, NEW n \in Nat, Kept(q, t, a, n),
         q.pc \in {"browser", "http", "urllib"}, q.call \notin Upsamples
  PROVE  Kept([q EXCEPT !.pc = "finish", !.after = "return", !.err = "none",
                        !.mains = q.mains + 1, !.ups = q.ups], t, a, n)
<1> DEFINE z == [q EXCEPT !.pc = "finish", !.after = "return", !.err = "none",
                        !.mains = q.mains + 1, !.ups = q.ups]
<1>1. q \in States
  BY DEF Kept
<1>2. z \in States
  <2>1. q.mains + 1 \in Nat
    BY <1>1 DEF States
  <2> QED BY <1>1, <2>1 DEF States, Pcs
<1>3. /\ z.pc = "finish" /\ z.after = "return" /\ z.mains = q.mains + 1
      /\ z.call = q.call /\ z.demand = q.demand /\ z.gone = q.gone
      /\ z.sid = q.sid /\ z.url = q.url /\ z.ups = q.ups
  BY <1>1 DEF States
<1> HIDE DEF z
<1>4. q.mains \in Nat /\ q.ups \in Nat /\ q.call \in Calls
  BY <1>1 DEF States
<1>5. Facts(q, t, a, n)
  BY DEF Kept
<1>6. Facts(z, t, a, n)
  BY <1>3, <1>4, <1>5
<1> QED BY <1>2, <1>6 DEF Kept, z

(* The upstream takes an upsample: one per completion of the row.          *)
LEMMA UpsampleTakenKeeps ==
  ASSUME NEW q, NEW t, NEW a, NEW n \in Nat, Kept(q, t, a, n),
         q.pc \in {"browser", "http", "urllib"}, q.call \in Upsamples
  PROVE  Kept([q EXCEPT !.pc = "finish", !.after = "return", !.err = "none",
                        !.mains = q.mains, !.ups = q.ups + 1], t, a, n)
<1> DEFINE z == [q EXCEPT !.pc = "finish", !.after = "return", !.err = "none",
                        !.mains = q.mains, !.ups = q.ups + 1]
<1>1. q \in States
  BY DEF Kept
<1>2. z \in States
  <2>1. q.ups + 1 \in Nat
    BY <1>1 DEF States
  <2> QED BY <1>1, <2>1 DEF States, Pcs
<1>3. /\ z.pc = "finish" /\ z.after = "return" /\ z.ups = q.ups + 1
      /\ z.call = q.call /\ z.demand = q.demand /\ z.gone = q.gone
      /\ z.sid = q.sid /\ z.url = q.url /\ z.mains = q.mains
  BY <1>1 DEF States
<1> HIDE DEF z
<1>4. q.mains \in Nat /\ q.ups \in Nat /\ q.call \in Calls
  BY <1>1 DEF States
<1>5. Facts(q, t, a, n)
  BY DEF Kept
<1>6. Facts(z, t, a, n)
  BY <1>3, <1>4, <1>5
<1> QED BY <1>2, <1>6 DEF Kept, z

(* The pause is over.                                                      *)
LEMMA PauseKeeps ==
  ASSUME NEW q, NEW t, NEW a, NEW n \in Nat, Kept(q, t, a, n),
         q.pc = "pause"
  PROVE  Kept(At(q, "finish"), t, a, n)
<1> DEFINE z == At(q, "finish")
<1>1. q \in States
  BY DEF Kept
<1>2. z \in States
  BY <1>1 DEF States, Pcs, At
<1>3. /\ z.pc = "finish"
      /\ z.call = q.call /\ z.demand = q.demand /\ z.after = q.after /\ z.gone = q.gone
      /\ z.sid = q.sid /\ z.url = q.url /\ z.mains = q.mains /\ z.ups = q.ups
  BY <1>1 DEF States, At
<1> HIDE DEF z
<1>4. q.mains \in Nat /\ q.ups \in Nat /\ q.call \in Calls
  BY <1>1 DEF States
<1>5. Facts(q, t, a, n)
  BY DEF Kept
<1>6. Facts(z, t, a, n)
  BY <1>3, <1>4, <1>5
<1> QED BY <1>2, <1>6 DEF Kept, z

(* The next attempt begins.                                                *)
LEMMA RetryKeeps ==
  ASSUME NEW q, NEW t, NEW a, NEW n \in Nat, Kept(q, t, a, n),
         q.pc = "finish", q.after = "retry"
  PROVE  Kept(Retry(q), t, a, n)
<1> DEFINE z == Retry(q)
<1>1. q \in States
  BY DEF Kept
<1>2. z \in States
  <2>1. q.try + 1 \in Nat
    BY <1>1 DEF States
  <2> QED BY <1>1, <2>1 DEF States, Pcs, Retry
<1>3. /\ z.pc = "cool" /\ z.after = "none" /\ z.sid = FALSE
      /\ z.call = q.call /\ z.demand = q.demand /\ z.gone = q.gone
      /\ z.url = q.url /\ z.mains = q.mains /\ z.ups = q.ups
  BY <1>1 DEF States, Retry
<1> HIDE DEF z
<1>4. q.mains \in Nat /\ q.ups \in Nat /\ q.call \in Calls
  BY <1>1 DEF States
<1>5. Facts(q, t, a, n)
  BY DEF Kept
<1>6. Facts(z, t, a, n)
  BY <1>3, <1>4, <1>5
<1> QED BY <1>2, <1>6 DEF Kept, z

(* The call is over.                                                       *)
LEMMA EndedKeeps ==
  ASSUME NEW q, NEW t, NEW a, NEW n \in Nat, Kept(q, t, a, n),
         q.pc = "finish", NEW pc \in Pcs, NEW k \in Nat,
         CallEnds(q, pc)
  PROVE  Kept([q EXCEPT !.after = "none", !.sid = FALSE, !.pc = pc,
                        !.outer = k], t, a, n)
<1> DEFINE z == [q EXCEPT !.after = "none", !.sid = FALSE, !.pc = pc,
                        !.outer = k]
<1>1. q \in States
  BY DEF Kept
<1>2. z \in States
  BY <1>1 DEF States, Pcs
<1>3. /\ z.pc = pc /\ z.after = "none" /\ z.sid = FALSE
      /\ z.call = q.call /\ z.demand = q.demand /\ z.gone = q.gone
      /\ z.url = q.url /\ z.mains = q.mains /\ z.ups = q.ups
  BY <1>1 DEF States
<1> HIDE DEF z
<1>4. q.mains \in Nat /\ q.ups \in Nat /\ q.call \in Calls
  BY <1>1 DEF States
<1>5. Facts(q, t, a, n)
  BY DEF Kept
<1>6. Facts(z, t, a, n)
  BY <1>3, <1>4, <1>5 DEF CallEnds, Calls
<1> QED BY <1>2, <1>6 DEF Kept, z

(* An image has an address.                                                *)
LEMMA ImageKeeps ==
  ASSUME NEW q, NEW t, NEW a, NEW n \in Nat, Kept(q, t, a, n),
         q.pc = "product", NEW pc \in {"upsample", "deliver"}
  PROVE  Kept([q EXCEPT !.url = "source", !.outer = 0, !.pc = pc], t, a, n)
<1> DEFINE z == [q EXCEPT !.url = "source", !.outer = 0, !.pc = pc]
<1>1. q \in States
  BY DEF Kept
<1>2. z \in States
  BY <1>1 DEF States, Pcs
<1>3. /\ z.pc = pc /\ z.url = "source"
      /\ z.call = q.call /\ z.demand = q.demand /\ z.after = q.after /\ z.gone = q.gone
      /\ z.sid = q.sid /\ z.mains = q.mains /\ z.ups = q.ups
  BY <1>1 DEF States
<1> HIDE DEF z
<1>4. q.mains \in Nat /\ q.ups \in Nat /\ q.call \in Calls
  BY <1>1 DEF States
<1>5. Facts(q, t, a, n)
  BY DEF Kept
<1>6. Facts(z, t, a, n)
  BY <1>3, <1>4, <1>5 DEF Says
<1> QED BY <1>2, <1>6 DEF Kept, z

(* It was upsampled, or the reply was empty.                               *)
LEMMA UpsampledKeeps ==
  ASSUME NEW q, NEW t, NEW a, NEW n \in Nat, Kept(q, t, a, n),
         q.pc = "upsampled", NEW url \in {q.url, "upsampled"}
  PROVE  Kept([q EXCEPT !.pc = "deliver", !.url = url], t, a, n)
<1> DEFINE z == [q EXCEPT !.pc = "deliver", !.url = url]
<1>1. q \in States
  BY DEF Kept
<1>2. z \in States
  BY <1>1 DEF States, Pcs
<1>3. /\ z.pc = "deliver" /\ z.url = url
      /\ z.call = q.call /\ z.demand = q.demand /\ z.after = q.after /\ z.gone = q.gone
      /\ z.sid = q.sid /\ z.mains = q.mains /\ z.ups = q.ups
  BY <1>1 DEF States
<1> HIDE DEF z
<1>4. q.mains \in Nat /\ q.ups \in Nat /\ q.call \in Calls
  BY <1>1 DEF States
<1>5. Facts(q, t, a, n)
  BY DEF Kept
<1>6. Facts(z, t, a, n)
  BY <1>3, <1>4, <1>5 DEF Says
<1> QED BY <1>2, <1>6 DEF Kept, z

(* A video is on its way ...                                               *)
LEMMA AcceptedKeeps ==
  ASSUME NEW q, NEW t, NEW a, NEW n \in Nat, Kept(q, t, a, n),
         q.pc = "accepted"
  PROVE  Kept(At(q, "record"), t, a, n)
<1> DEFINE z == At(q, "record")
<1>1. q \in States
  BY DEF Kept
<1>2. z \in States
  BY <1>1 DEF States, Pcs, At
<1>3. /\ z.pc = "record"
      /\ z.call = q.call /\ z.demand = q.demand /\ z.after = q.after /\ z.gone = q.gone
      /\ z.sid = q.sid /\ z.url = q.url /\ z.mains = q.mains /\ z.ups = q.ups
  BY <1>1 DEF States, At
<1> HIDE DEF z
<1>4. q.mains \in Nat /\ q.ups \in Nat /\ q.call \in Calls
  BY <1>1 DEF States
<1>5. Facts(q, t, a, n)
  BY DEF Kept
<1>6. Facts(z, t, a, n)
  BY <1>3, <1>4, <1>5
<1> QED BY <1>2, <1>6 DEF Kept, z

(* A poll brings no video.                                                 *)
LEMMA PollKeeps ==
  ASSUME NEW q, NEW t, NEW a, NEW n \in Nat, Kept(q, t, a, n),
         q.pc = "poll", NEW pc \in {"poll", "failtask"},
         NEW k \in Nat, NEW m \in Nat
  PROVE  Kept([q EXCEPT !.pc = pc, !.poll = k, !.errs = m], t, a, n)
<1> DEFINE z == [q EXCEPT !.pc = pc, !.poll = k, !.errs = m]
<1>1. q \in States
  BY DEF Kept
<1>2. z \in States
  BY <1>1 DEF States, Pcs
<1>3. /\ z.pc = pc
      /\ z.call = q.call /\ z.demand = q.demand /\ z.after = q.after /\ z.gone = q.gone
      /\ z.sid = q.sid /\ z.url = q.url /\ z.mains = q.mains /\ z.ups = q.ups
  BY <1>1 DEF States
<1> HIDE DEF z
<1>4. q.mains \in Nat /\ q.ups \in Nat /\ q.call \in Calls
  BY <1>1 DEF States
<1>5. Facts(q, t, a, n)
  BY DEF Kept
<1>6. Facts(z, t, a, n)
  BY <1>3, <1>4, <1>5
<1> QED BY <1>2, <1>6 DEF Kept, z

(* A poll brings the video.                                                *)
LEMMA PollReadyKeeps ==
  ASSUME NEW q, NEW t, NEW a, NEW n \in Nat, Kept(q, t, a, n),
         q.pc = "poll", NEW pc \in {"upsample", "finalize"}
  PROVE  Kept([q EXCEPT !.errs = 0, !.url = "source", !.inner = FALSE,
                        !.pc = pc], t, a, n)
<1> DEFINE z == [q EXCEPT !.errs = 0, !.url = "source", !.inner = FALSE,
                        !.pc = pc]
<1>1. q \in States
  BY DEF Kept
<1>2. z \in States
  BY <1>1 DEF States, Pcs
<1>3. /\ z.pc = pc /\ z.url = "source"
      /\ z.call = q.call /\ z.demand = q.demand /\ z.after = q.after /\ z.gone = q.gone
      /\ z.sid = q.sid /\ z.mains = q.mains /\ z.ups = q.ups
  BY <1>1 DEF States
<1> HIDE DEF z
<1>4. q.mains \in Nat /\ q.ups \in Nat /\ q.call \in Calls
  BY <1>1 DEF States
<1>5. Facts(q, t, a, n)
  BY DEF Kept
<1>6. Facts(z, t, a, n)
  BY <1>3, <1>4, <1>5
<1> QED BY <1>2, <1>6 DEF Kept, z

(* The upsample of a video is accepted, or its reply unusable.             *)
LEMMA UpAcceptedKeeps ==
  ASSUME NEW q, NEW t, NEW a, NEW n \in Nat, Kept(q, t, a, n),
         q.pc = "upaccepted"
  PROVE  Kept([q EXCEPT !.pc = "uppoll", !.upoll = 0, !.uperrs = 0], t, a, n)
<1> DEFINE z == [q EXCEPT !.pc = "uppoll", !.upoll = 0, !.uperrs = 0]
<1>1. q \in States
  BY DEF Kept
<1>2. z \in States
  BY <1>1 DEF States, Pcs
<1>3. /\ z.pc = "uppoll"
      /\ z.call = q.call /\ z.demand = q.demand /\ z.after = q.after /\ z.gone = q.gone
      /\ z.sid = q.sid /\ z.url = q.url /\ z.mains = q.mains /\ z.ups = q.ups
  BY <1>1 DEF States
<1> HIDE DEF z
<1>4. q.mains \in Nat /\ q.ups \in Nat /\ q.call \in Calls
  BY <1>1 DEF States
<1>5. Facts(q, t, a, n)
  BY DEF Kept
<1>6. Facts(z, t, a, n)
  BY <1>3, <1>4, <1>5
<1> QED BY <1>2, <1>6 DEF Kept, z

LEMMA UpRefusedKeeps ==
  ASSUME NEW q, NEW t, NEW a, NEW n \in Nat, Kept(q, t, a, n),
         q.pc = "upaccepted"
  PROVE  Kept(At(q, "finalize"), t, a, n)
<1> DEFINE z == At(q, "finalize")
<1>1. q \in States
  BY DEF Kept
<1>2. z \in States
  BY <1>1 DEF States, Pcs, At
<1>3. /\ z.pc = "finalize"
      /\ z.call = q.call /\ z.demand = q.demand /\ z.after = q.after /\ z.gone = q.gone
      /\ z.sid = q.sid /\ z.url = q.url /\ z.mains = q.mains /\ z.ups = q.ups
  BY <1>1 DEF States, At
<1> HIDE DEF z
<1>4. q.mains \in Nat /\ q.ups \in Nat /\ q.call \in Calls
  BY <1>1 DEF States
<1>5. Facts(q, t, a, n)
  BY DEF Kept
<1>6. Facts(z, t, a, n)
  BY <1>3, <1>4, <1>5
<1> QED BY <1>2, <1>6 DEF Kept, z

(* A poll of the upsample brings nothing, or ends it.                      *)
LEMMA UpPollKeeps ==
  ASSUME NEW q, NEW t, NEW a, NEW n \in Nat, Kept(q, t, a, n),
         q.pc = "uppoll", NEW k \in Nat, NEW m \in Nat
  PROVE  Kept([q EXCEPT !.upoll = k, !.uperrs = m], t, a, n)
<1> DEFINE z == [q EXCEPT !.upoll = k, !.uperrs = m]
<1>1. q \in States
  BY DEF Kept
<1>2. z \in States
  BY <1>1 DEF States, Pcs
<1>3. /\ z.pc = q.pc /\ z.call = q.call /\ z.demand = q.demand
      /\ z.after = q.after /\ z.gone = q.gone
      /\ z.sid = q.sid /\ z.url = q.url /\ z.mains = q.mains /\ z.ups = q.ups
  BY <1>1 DEF States
<1> HIDE DEF z
<1>4. q.mains \in Nat /\ q.ups \in Nat /\ q.call \in Calls
  BY <1>1 DEF States
<1>5. Facts(q, t, a, n)
  BY DEF Kept
<1>6. Facts(z, t, a, n)
  BY <1>3, <1>4, <1>5
<1> QED BY <1>2, <1>6 DEF Kept, z

LEMMA ConcludedKeeps ==
  ASSUME NEW q, NEW t, NEW a, NEW n \in Nat, Kept(q, t, a, n),
         q.pc = "uppoll", NEW url \in {q.url, "upsampled", "missing"},
         NEW m \in Nat
  PROVE  Kept([q EXCEPT !.pc = "finalize", !.inner = TRUE, !.url = url, !.uperrs = m], t, a, n)
<1> DEFINE z == [q EXCEPT !.pc = "finalize", !.inner = TRUE, !.url = url, !.uperrs = m]
<1>1. q \in States
  BY DEF Kept
<1>2. z \in States
  BY <1>1 DEF States, Pcs
<1>3. /\ z.pc = "finalize" /\ z.url = url
      /\ z.call = q.call /\ z.demand = q.demand /\ z.after = q.after /\ z.gone = q.gone
      /\ z.sid = q.sid /\ z.mains = q.mains /\ z.ups = q.ups
  BY <1>1 DEF States
<1> HIDE DEF z
<1>4. q.mains \in Nat /\ q.ups \in Nat /\ q.call \in Calls
  BY <1>1 DEF States
<1>5. Facts(q, t, a, n)
  BY DEF Kept
<1>6. Facts(z, t, a, n)
  BY <1>3, <1>4, <1>5
<1> QED BY <1>2, <1>6 DEF Kept, z

(* A failure told on the spot.                                             *)
LEMMA DeclineKeeps ==
  ASSUME NEW q, NEW t, NEW a, NEW n \in Nat, Kept(q, t, a, n),
         q.pc \in {"resolve", "product", "accepted"}
  PROVE  Kept(At(q, "blame"), t, Append(a, "failure"), n)
<1> DEFINE z == At(q, "blame")
<1>1. q \in States
  BY DEF Kept
<1>2. z \in States
  BY <1>1 DEF States, Pcs, At
<1>3. /\ z.pc = "blame"
      /\ z.call = q.call /\ z.demand = q.demand /\ z.after = q.after /\ z.gone = q.gone
      /\ z.sid = q.sid /\ z.url = q.url /\ z.mains = q.mains /\ z.ups = q.ups
  BY <1>1 DEF States, At
<1> HIDE DEF z
<1>4. q.mains \in Nat /\ q.ups \in Nat /\ q.call \in Calls
  BY <1>1 DEF States
<1>5. Facts(q, t, a, n)
  BY DEF Kept
<1>7. Append(a, "failure") = <<"failure">>
  <2>1. a = <<>>
    BY <1>5
  <2> QED BY <2>1
<1>6. Facts(z, t, Append(a, "failure"), n)
  BY <1>3, <1>4, <1>5, <1>7 DEF Says
<1> QED BY <1>2, <1>6 DEF Kept, z

(* The word for a success.                                                 *)
WordFor(q) == IF q.url = "missing" THEN "hollow" ELSE "success"

LEMMA HollowSays ==
  /\ \A w : Says(<<"hollow">>, w) <=> w = "hollow"
  /\ \A w : Says(<<"success">>, w) <=> w = "success"
  /\ Len(<<"hollow">>) = 1 /\ Len(<<"success">>) = 1
  BY DEF Says

(* The image is delivered.                                                 *)
LEMMA DeliverKeeps ==
  ASSUME NEW q, NEW t, NEW a, NEW n \in Nat, Kept(q, t, a, n),
         q.pc = "deliver"
  PROVE  Kept(At(q, "usage"), t, Append(a, WordFor(q)), n)
<1> DEFINE z == At(q, "usage")
<1>1. q \in States
  BY DEF Kept
<1>2. z \in States
  BY <1>1 DEF States, Pcs, At
<1>3. /\ z.pc = "usage"
      /\ z.call = q.call /\ z.demand = q.demand /\ z.after = q.after /\ z.gone = q.gone
      /\ z.sid = q.sid /\ z.url = q.url /\ z.mains = q.mains /\ z.ups = q.ups
  BY <1>1 DEF States, At
<1> HIDE DEF z
<1>4. q.mains \in Nat /\ q.ups \in Nat /\ q.call \in Calls
  BY <1>1 DEF States
<1>5. Facts(q, t, a, n)
  BY DEF Kept
<1>7. Append(a, WordFor(q)) = IF q.url = "missing" THEN <<"hollow">> ELSE <<"success">>
  <2>1. a = <<>>
    BY <1>5
  <2> QED BY <2>1 DEF WordFor
<1>6. Facts(z, t, Append(a, WordFor(q)), n)
  BY <1>3, <1>4, <1>5, <1>7, HollowSays
<1> QED BY <1>2, <1>6 DEF Kept, z

(* ... and gets its row.                                                   *)
LEMMA CreateTaskKeeps ==
  ASSUME NEW q, NEW t, NEW a, NEW n \in Nat, Kept(q, t, a, n),
         q.pc = "record"
  PROVE  Kept([q EXCEPT !.pc = "poll", !.poll = 0, !.errs = 0], "processing", a, n)
<1> DEFINE z == [q EXCEPT !.pc = "poll", !.poll = 0, !.errs = 0]
<1>1. q \in States
  BY DEF Kept
<1>2. z \in States
  BY <1>1 DEF States, Pcs
<1>3. /\ z.pc = "poll"
      /\ z.call = q.call /\ z.demand = q.demand /\ z.after = q.after /\ z.gone = q.gone
      /\ z.sid = q.sid /\ z.url = q.url /\ z.mains = q.mains /\ z.ups = q.ups
  BY <1>1 DEF States
<1> HIDE DEF z
<1>4. q.mains \in Nat /\ q.ups \in Nat /\ q.call \in Calls
  BY <1>1 DEF States
<1>5. Facts(q, t, a, n)
  BY DEF Kept
<1>6. Facts(z, "processing", a, n)
  BY <1>3, <1>4, <1>5 DEF Says
<1> QED BY <1>2, <1>6 DEF Kept, z

(* The row of a video is completed and the client told.                    *)
LEMMA FinalizeKeeps ==
  ASSUME NEW q, NEW t, NEW a, NEW n \in Nat, Kept(q, t, a, n),
         q.pc = "finalize"
  PROVE  Kept(At(q, "usage"), "completed", Append(a, WordFor(q)), n)
<1> DEFINE z == At(q, "usage")
<1>1. q \in States
  BY DEF Kept
<1>2. z \in States
  BY <1>1 DEF States, Pcs, At
<1>3. /\ z.pc = "usage"
      /\ z.call = q.call /\ z.demand = q.demand /\ z.after = q.after /\ z.gone = q.gone
      /\ z.sid = q.sid /\ z.url = q.url /\ z.mains = q.mains /\ z.ups = q.ups
  BY <1>1 DEF States, At
<1> HIDE DEF z
<1>4. q.mains \in Nat /\ q.ups \in Nat /\ q.call \in Calls
  BY <1>1 DEF States
<1>5. Facts(q, t, a, n)
  BY DEF Kept
<1>7. Append(a, WordFor(q)) = IF q.url = "missing" THEN <<"hollow">> ELSE <<"success">>
  <2>1. a = <<>>
    BY <1>5
  <2> QED BY <2>1 DEF WordFor
<1>6. Facts(z, "completed", Append(a, WordFor(q)), n)
  BY <1>3, <1>4, <1>5, <1>7, HollowSays
<1> QED BY <1>2, <1>6 DEF Kept, z

(* The row of a video fails and the client is told.                        *)
LEMMA FailTaskKeeps ==
  ASSUME NEW q, NEW t, NEW a, NEW n \in Nat, Kept(q, t, a, n),
         q.pc = "failtask"
  PROVE  Kept(At(q, "blame"), "failed", Append(a, "failure"), n)
<1> DEFINE z == At(q, "blame")
<1>1. q \in States
  BY DEF Kept
<1>2. z \in States
  BY <1>1 DEF States, Pcs, At
<1>3. /\ z.pc = "blame"
      /\ z.call = q.call /\ z.demand = q.demand /\ z.after = q.after /\ z.gone = q.gone
      /\ z.sid = q.sid /\ z.url = q.url /\ z.mains = q.mains /\ z.ups = q.ups
  BY <1>1 DEF States, At
<1> HIDE DEF z
<1>4. q.mains \in Nat /\ q.ups \in Nat /\ q.call \in Calls
  BY <1>1 DEF States
<1>5. Facts(q, t, a, n)
  BY DEF Kept
<1>7. Append(a, "failure") = <<"failure">>
  <2>1. a = <<>>
    BY <1>5
  <2> QED BY <2>1
<1>6. Facts(z, "failed", Append(a, "failure"), n)
  BY <1>3, <1>4, <1>5, <1>7 DEF Says
<1> QED BY <1>2, <1>6 DEF Kept, z

(* The account is credited or blamed.                                      *)
LEMMA AccountKeeps ==
  ASSUME NEW q, NEW t, NEW a, NEW n \in Nat, Kept(q, t, a, n),
         q.pc \in {"usage", "blame"}
  PROVE  Kept(At(q, "done"), t, a, n)
<1> DEFINE z == At(q, "done")
<1>1. q \in States
  BY DEF Kept
<1>2. z \in States
  BY <1>1 DEF States, Pcs, At
<1>3. /\ z.pc = "done"
      /\ z.call = q.call /\ z.demand = q.demand /\ z.after = q.after /\ z.gone = q.gone
      /\ z.sid = q.sid /\ z.url = q.url /\ z.mains = q.mains /\ z.ups = q.ups
  BY <1>1 DEF States, At
<1> HIDE DEF z
<1>4. q.mains \in Nat /\ q.ups \in Nat /\ q.call \in Calls
  BY <1>1 DEF States
<1>5. Facts(q, t, a, n)
  BY DEF Kept
<1>6. Facts(z, t, a, n)
  BY <1>3, <1>4, <1>5 DEF Says
<1> QED BY <1>2, <1>6 DEF Kept, z

(* The except clause answers, alone unless a write was refused.            *)
LEMMA FailKeeps ==
  ASSUME NEW q, NEW t, NEW a, NEW n \in Nat, Kept(q, t, a, n),
         q.pc = "fail", a \in Seq(Words)
  PROVE  Kept(At(q, "done"), t, Append(a, "failure"), n)
<1> DEFINE z == At(q, "done")
<1>1. q \in States
  BY DEF Kept
<1>2. z \in States
  BY <1>1 DEF States, Pcs, At
<1>3. /\ z.pc = "done"
      /\ z.call = q.call /\ z.demand = q.demand /\ z.after = q.after /\ z.gone = q.gone
      /\ z.sid = q.sid /\ z.url = q.url /\ z.mains = q.mains /\ z.ups = q.ups
  BY <1>1 DEF States, At
<1> HIDE DEF z
<1>4. q.mains \in Nat /\ q.ups \in Nat /\ q.call \in Calls
  BY <1>1 DEF States
<1>5. Facts(q, t, a, n)
  BY DEF Kept
<1>7. /\ \A w \in Words : Says(Append(a, "failure"), w) <=> w = "failure" \/ Says(a, w)
      /\ n = 0 => Len(Append(a, "failure")) = 1
  BY <1>5, LaterWords
<1>6. Facts(z, t, Append(a, "failure"), n)
  BY <1>3, <1>4, <1>5, <1>7 DEF Words
<1> QED BY <1>2, <1>6 DEF Kept, z

(* The failure of a row is refused: the client is told all the same.       *)
LEMMA RefusedFailTaskKeeps ==
  ASSUME NEW q, NEW t, NEW a, NEW n \in Nat, Kept(q, t, a, n),
         q.pc = "failtask"
  PROVE  Kept(At(q, "blame"), t, Append(a, "failure"), n + 1)
<1> DEFINE z == At(q, "blame")
<1>1. q \in States
  BY DEF Kept
<1>2. z \in States
  BY <1>1 DEF States, Pcs, At
<1>3. /\ z.pc = "blame"
      /\ z.call = q.call /\ z.demand = q.demand /\ z.after = q.after /\ z.gone = q.gone
      /\ z.sid = q.sid /\ z.url = q.url /\ z.mains = q.mains /\ z.ups = q.ups
  BY <1>1 DEF States, At
<1> HIDE DEF z
<1>4. q.mains \in Nat /\ q.ups \in Nat /\ q.call \in Calls
  BY <1>1 DEF States
<1>5. Facts(q, t, a, n)
  BY DEF Kept
<1>7. Append(a, "failure") = <<"failure">>
  <2>1. a = <<>>
    BY <1>5
  <2> QED BY <2>1
<1>6. Facts(z, t, Append(a, "failure"), n + 1)
  BY <1>3, <1>4, <1>5, <1>7 DEF Says
<1> QED BY <1>2, <1>6 DEF Kept, z

(* Its completion is refused: tried again outside the try ...              *)
LEMMA RefusedFinalizeKeeps ==
  ASSUME NEW q, NEW t, NEW a, NEW n \in Nat, Kept(q, t, a, n),
         q.pc = "finalize"
  PROVE  Kept([q EXCEPT !.inner = FALSE], t, a, n + 1)
<1> DEFINE z == [q EXCEPT !.inner = FALSE]
<1>1. q \in States
  BY DEF Kept
<1>2. z \in States
  BY <1>1 DEF States, Pcs
<1>3. /\ z.pc = q.pc /\ z.call = q.call /\ z.demand = q.demand
      /\ z.after = q.after /\ z.gone = q.gone
      /\ z.sid = q.sid /\ z.url = q.url /\ z.mains = q.mains /\ z.ups = q.ups
  BY <1>1 DEF States
<1> HIDE DEF z
<1>4. q.mains \in Nat /\ q.ups \in Nat /\ q.call \in Calls
  BY <1>1 DEF States
<1>5. Facts(q, t, a, n)
  BY DEF Kept
<1>6. Facts(z, t, a, n + 1)
  BY <1>3, <1>4, <1>5
<1> QED BY <1>2, <1>6 DEF Kept, z

(* ... or at the next poll.                                                *)
LEMMA RefusedPollKeeps ==
  ASSUME NEW q, NEW t, NEW a, NEW n \in Nat, Kept(q, t, a, n),
         q.pc = "finalize", NEW pc \in {"poll", "failtask"},
         NEW k \in Nat, NEW m \in Nat
  PROVE  Kept([q EXCEPT !.pc = pc, !.poll = k, !.errs = m], t, a, n + 1)
<1> DEFINE z == [q EXCEPT !.pc = pc, !.poll = k, !.errs = m]
<1>1. q \in States
  BY DEF Kept
<1>2. z \in States
  BY <1>1 DEF States, Pcs
<1>3. /\ z.pc = pc
      /\ z.call = q.call /\ z.demand = q.demand /\ z.after = q.after /\ z.gone = q.gone
      /\ z.sid = q.sid /\ z.url = q.url /\ z.mains = q.mains /\ z.ups = q.ups
  BY <1>1 DEF States
<1> HIDE DEF z
<1>4. q.mains \in Nat /\ q.ups \in Nat /\ q.call \in Calls
  BY <1>1 DEF States
<1>5. Facts(q, t, a, n)
  BY DEF Kept
<1>6. Facts(z, t, a, n + 1)
  BY <1>3, <1>4, <1>5
<1> QED BY <1>2, <1>6 DEF Kept, z

(* Any other refusal fails the request.                                    *)
LEMMA RefusedKeeps ==
  ASSUME NEW q, NEW t, NEW a, NEW n \in Nat, Kept(q, t, a, n),
         q.pc \in {"record", "usage", "blame"}
  PROVE  Kept(At(q, "fail"), t, a, n + 1)
<1> DEFINE z == At(q, "fail")
<1>1. q \in States
  BY DEF Kept
<1>2. z \in States
  BY <1>1 DEF States, Pcs, At
<1>3. /\ z.pc = "fail"
      /\ z.call = q.call /\ z.demand = q.demand /\ z.after = q.after /\ z.gone = q.gone
      /\ z.sid = q.sid /\ z.url = q.url /\ z.mains = q.mains /\ z.ups = q.ups
  BY <1>1 DEF States, At
<1> HIDE DEF z
<1>4. q.mains \in Nat /\ q.ups \in Nat /\ q.call \in Calls
  BY <1>1 DEF States
<1>5. Facts(q, t, a, n)
  BY DEF Kept
<1>6. Facts(z, t, a, n + 1)
  BY <1>3, <1>4, <1>5
<1> QED BY <1>2, <1>6 DEF Kept, z

(* A refusal while failing leaves the client without an answer.            *)
LEMMA RefusedFailKeeps ==
  ASSUME NEW q, NEW t, NEW a, NEW n \in Nat, Kept(q, t, a, n),
         q.pc = "fail"
  PROVE  Kept(At(q, "done"), t, a, n + 1)
<1> DEFINE z == At(q, "done")
<1>1. q \in States
  BY DEF Kept
<1>2. z \in States
  BY <1>1 DEF States, Pcs, At
<1>3. /\ z.pc = "done"
      /\ z.call = q.call /\ z.demand = q.demand /\ z.after = q.after /\ z.gone = q.gone
      /\ z.sid = q.sid /\ z.url = q.url /\ z.mains = q.mains /\ z.ups = q.ups
  BY <1>1 DEF States, At
<1> HIDE DEF z
<1>4. q.mains \in Nat /\ q.ups \in Nat /\ q.call \in Calls
  BY <1>1 DEF States
<1>5. Facts(q, t, a, n)
  BY DEF Kept
<1>6. Facts(z, t, a, n + 1)
  BY <1>3, <1>4, <1>5
<1> QED BY <1>2, <1>6 DEF Kept, z

(* A client leaves inside the try of a call, or elsewhere.                 *)
LEMMA LeaveCallKeeps ==
  ASSUME NEW q, NEW t, NEW a, NEW n \in Nat, Kept(q, t, a, n),
         q.pc \in {"browser", "http", "urllib", "pause"}
  PROVE  Kept([Gone(q) EXCEPT !.pc = "finish", !.after = "leave"], t, a, n)
<1> DEFINE z == [Gone(q) EXCEPT !.pc = "finish", !.after = "leave"]
<1>1. q \in States
  BY DEF Kept
<1>2. z \in States
  <2>1. Gone(q) \in States
    BY <1>1 DEF States, Gone
  <2> QED BY <2>1, EndTypes DEF Pcs
<1>3. /\ z.pc = "finish" /\ z.after = "leave" /\ z.gone = TRUE
      /\ z.call = q.call /\ z.demand = q.demand /\ z.sid = q.sid
      /\ z.url = q.url /\ z.mains = q.mains /\ z.ups = q.ups
  BY <1>1 DEF States, Gone
<1> HIDE DEF z
<1>4. q.mains \in Nat /\ q.ups \in Nat /\ q.call \in Calls
  BY <1>1 DEF States
<1>5. Facts(q, t, a, n)
  BY DEF Kept
<1>6. Facts(z, t, a, n)
  BY <1>3, <1>4, <1>5
<1> QED BY <1>2, <1>6 DEF Kept, z

LEMMA LeaveKeeps ==
  ASSUME NEW q, NEW t, NEW a, NEW n \in Nat, Kept(q, t, a, n),
         q.pc \notin {"new", "done"}
  PROVE  Kept([Gone(q) EXCEPT !.pc = "done", !.after = "none", !.sid = FALSE], t, a, n)
<1> DEFINE z == [Gone(q) EXCEPT !.pc = "done", !.after = "none", !.sid = FALSE]
<1>1. q \in States
  BY DEF Kept
<1>2. z \in States
  <2>1. Gone(q) \in States
    BY <1>1 DEF States, Gone
  <2> QED BY <2>1, EndTypes DEF Pcs
<1>3. /\ z.pc = "done" /\ z.after = "none" /\ z.gone = TRUE /\ z.sid = FALSE
      /\ z.call = q.call /\ z.demand = q.demand /\ z.url = q.url
      /\ z.mains = q.mains /\ z.ups = q.ups
  BY <1>1 DEF States, Gone
<1> HIDE DEF z
<1>4. q.mains \in Nat /\ q.ups \in Nat /\ q.call \in Calls
  BY <1>1 DEF States
<1>5. Facts(q, t, a, n)
  BY DEF Kept
<1>6. Facts(z, t, a, n)
  BY <1>3, <1>4, <1>5
<1> QED BY <1>2, <1>6 DEF Kept, z

HIDE DEF Facts, KindFits, EndFits, SidFits, RowFits, AnswerFits, UrlFits, JobsFit,
         DropFits, SaysDone,
         InMain, InUpsample, Polling, CallOver, Early, CallPcs, Closing, ImagePcs, VideoPcs,
         SessionPcs, Upsamples

-----------------------------------------------------------------------------
(* Sessions are the remote service's.                                      *)
MethodFits == \A r \in Requests : req[r].sid => scene.method = "remote_browser"

Inv == TypeOK /\ FactsInv /\ SessionsFinished /\ MethodFits

RestTyped ==
    /\ scene \in Scenes
    /\ shots \in [Requests -> [1..MaxInputs -> 0..Landed]]
    /\ cooling \in [Projects -> BOOLEAN]
    /\ sessions \subseteq Requests
    /\ task \in [Requests -> Statuses]
    /\ answers \in [Requests -> Seq(Words)]
    /\ refused \in [Requests -> Nat]
    /\ excused \subseteq Requests
    /\ leaves \in Nat
    /\ refusals \in Nat

Heeded ==
    \A r \in Requests :
        req'[r].pc = "solve" /\ req[r].pc # "solve" =>
            ~cooling[req[r].project] \/ req[r].wait = "past"

(* A step is fine when it keeps the invariant and heeds the cooldown.      *)
Fine == Inv' /\ Heeded

LEMMA TypeParts == TypeOK <=> req \in [Requests -> States] /\ RestTyped
  BY DEF TypeOK, RestTyped, Statuses, Words

LEMMA InvFacts ==
  ASSUME Inv, NEW r \in Requests
  PROVE  /\ Kept(req[r], task[r], answers[r], refused[r])
         /\ req[r] \in States /\ req \in [Requests -> States] /\ RestTyped
         /\ task[r] \in Statuses /\ answers[r] \in Seq(Words) /\ refused[r] \in Nat
         /\ req[r].sid => req[r].pc \in SessionPcs /\ scene.method = "remote_browser"
<1>1. req \in [Requests -> States] /\ RestTyped
  BY TypeParts DEF Inv
<1>2. Facts(req[r], task[r], answers[r], refused[r])
  BY DEF Inv, FactsInv
<1>3. task[r] \in Statuses /\ answers[r] \in Seq(Words) /\ refused[r] \in Nat
  BY <1>1 DEF RestTyped
<1>4. req[r].sid => req[r].pc \in SessionPcs /\ scene.method = "remote_browser"
  BY <1>2 DEF Inv, MethodFits, Facts, SidFits
<1> QED BY <1>1, <1>2, <1>3, <1>4 DEF Kept

(* What makes a step of one request fine.                                  *)
LEMMA MoveFine ==
  ASSUME Inv, NEW r \in Requests, NEW q,
         OthersStay(r), req'[r] = q, RestTyped', scene' = scene,
         Facts(q, task'[r], answers'[r], refused'[r]),
         \A x \in Requests \ {r} : /\ task'[x] = task[x] /\ answers'[x] = answers[x]
                                   /\ refused'[x] = refused[x],
         q.sid => scene.method = "remote_browser",
         r \in sessions' => r \in excused' \/ q.sid,
         sessions' \subseteq sessions \cup {r}, excused \subseteq excused',
         q.pc = "solve" => \/ req[r].pc = "solve"
                           \/ ~cooling[req[r].project] \/ req[r].wait = "past"
  PROVE  Fine
<1>1. req' \in [Requests -> States] /\ TypeOK'
  <2>1. req' \in [Requests -> States]
    BY DEF OthersStay
  <2> QED BY <2>1 DEF TypeOK, RestTyped, Statuses, Words
<1>2. \A x \in Requests \ {r} :
        /\ req'[x].pc = req[x].pc /\ req'[x].sid = req[x].sid
        /\ Facts(req'[x], task'[x], answers'[x], refused'[x])
  <2> SUFFICES ASSUME NEW x \in Requests \ {r}
               PROVE /\ req'[x].pc = req[x].pc /\ req'[x].sid = req[x].sid
                     /\ Facts(req'[x], task'[x], answers'[x], refused'[x])
    OBVIOUS
  <2>1. SameButWait(req'[x], req[x])
    BY DEF OthersStay
  <2>2. req[x] \in States /\ Facts(req[x], task[x], answers[x], refused[x])
    BY InvFacts DEF Kept
  <2>3. req'[x].pc = req[x].pc /\ req'[x].sid = req[x].sid
    BY <2>1, <2>2 DEF SameButWait, States
  <2>4. Facts(req'[x], task[x], answers[x], refused[x])
    BY <2>1, <2>2, WaitIsNoFact
  <2> QED BY <2>3, <2>4
<1>3. FactsInv'
  BY <1>2 DEF FactsInv
<1>4. SessionsFinished'
  <2>1. \A x \in sessions' : x \in Requests
    BY DEF RestTyped
  <2>2. \A x \in sessions' \ {r} : x \in excused' \/ req'[x].sid
    BY <1>2, <2>1 DEF Inv, SessionsFinished
  <2> QED BY <2>2 DEF SessionsFinished
<1>5. MethodFits'
  BY <1>2 DEF Inv, MethodFits
<1>6. Heeded
  BY <1>2 DEF Heeded
<1> QED BY <1>1, <1>3, <1>4, <1>5, <1>6 DEF Fine, Inv

(* A step of the handler or the polling.                                   *)
LEMMA HandledFine ==
  ASSUME Inv, NEW r \in Requests, NEW q, NEW t \in Statuses, NEW a \in Seq(Words),
         Put(r, q), Kept(q, t, a, refused[r]), q.sid = req[r].sid, q.pc # "solve",
         task' = [task EXCEPT ![r] = t], answers' = [answers EXCEPT ![r] = a],
         UNCHANGED refused, NoCaptcha, Outside
  PROVE  Fine
<1>1. OthersStay(r) /\ req'[r] = q
  BY InvFacts, PutMoves DEF Kept
<1>2. RestTyped /\ RestTyped' /\ scene' = scene
  BY InvFacts DEF RestTyped, NoCaptcha, Outside
<1>3. /\ task'[r] = t /\ answers'[r] = a /\ refused'[r] = refused[r]
      /\ \A x \in Requests \ {r} : /\ task'[x] = task[x] /\ answers'[x] = answers[x]
                                   /\ refused'[x] = refused[x]
  BY <1>2 DEF RestTyped
<1>4. r \in sessions' => r \in excused' \/ q.sid
  BY DEF NoCaptcha, Inv, SessionsFinished
<1>5. q.sid => scene.method = "remote_browser"
  BY InvFacts
<1>6. sessions' \subseteq sessions \cup {r} /\ excused \subseteq excused'
  BY DEF NoCaptcha
<1>7. Facts(q, task'[r], answers'[r], refused'[r])
  BY <1>3 DEF Kept
<1> QED BY <1>1, <1>2, <1>3, <1>4, <1>5, <1>6, <1>7, MoveFine

LEMMA QuietFine ==
  ASSUME Inv, NEW r \in Requests, NEW q, Put(r, q),
         Kept(q, task[r], answers[r], refused[r]), q.sid = req[r].sid, q.pc # "solve",
         Told, NoCaptcha, Outside
  PROVE  Fine
<1>1. RestTyped /\ task[r] \in Statuses /\ answers[r] \in Seq(Words)
  BY InvFacts
<1>2. task' = [task EXCEPT ![r] = task[r]] /\ answers' = [answers EXCEPT ![r] = answers[r]]
  BY <1>1 DEF RestTyped, Told
<1> QED BY <1>1, <1>2, HandledFine DEF Told

(* A step of a call, which may change cooldowns and sessions.              *)
LEMMA CallFine ==
  ASSUME Inv, NEW r \in Requests, NEW q, Put(r, q) \/ Unsettle(r, q),
         Kept(q, task[r], answers[r], refused[r]),
         Told, Outside, cooling' \in [Projects -> BOOLEAN],
         q.sid => scene.method = "remote_browser",
         r \in sessions' => r \in excused' \/ q.sid,
         sessions' \subseteq sessions \cup {r}, excused \subseteq excused',
         excused' \subseteq excused \cup {r},
         q.pc = "solve" => \/ req[r].pc = "solve"
                           \/ ~cooling[req[r].project] \/ req[r].wait = "past"
  PROVE  Fine
<1>1. OthersStay(r) /\ req'[r] = q
  BY InvFacts, PutMoves, UnsettleMoves DEF Kept
<1>2. RestTyped' /\ scene' = scene
  BY InvFacts DEF RestTyped, Told, Outside
<1>3. /\ task'[r] = task[r] /\ answers'[r] = answers[r] /\ refused'[r] = refused[r]
      /\ \A x \in Requests \ {r} : /\ task'[x] = task[x] /\ answers'[x] = answers[x]
                                   /\ refused'[x] = refused[x]
  BY DEF Told
<1>4. Facts(q, task'[r], answers'[r], refused'[r])
  BY <1>3 DEF Kept
<1> QED BY <1>1, <1>2, <1>3, <1>4, MoveFine

(* A step of a call that leaves cooldowns and sessions alone.              *)
LEMMA CalmFine ==
  ASSUME Inv, NEW r \in Requests, NEW q, Put(r, q) \/ Unsettle(r, q),
         Kept(q, task[r], answers[r], refused[r]), q.sid = req[r].sid, Told, Outside,
         cooling' \in [Projects -> BOOLEAN], UNCHANGED <<sessions, excused>>,
         q.pc = "solve" => \/ req[r].pc = "solve"
                           \/ ~cooling[req[r].project] \/ req[r].wait = "past"
  PROVE  Fine
<1>1. /\ q.sid => scene.method = "remote_browser"
      /\ r \in sessions' => r \in excused' \/ q.sid
  BY InvFacts DEF Inv, SessionsFinished
<1> QED BY <1>1, CallFine

-----------------------------------------------------------------------------
(* Before the first submission.                                            *)
LEMMA BeginFine ==
  ASSUME Inv, NEW r \in Requests, NEW d \in Demands, NEW p \in Projects, Begin(r, d, p)
  PROVE  Fine
<1> DEFINE pc == IF ~Accepts(d) THEN "blame"
                 ELSE CASE d.kind = "edit" -> "resolve"
                        [] Images(d) > 0 -> "upload"
                        [] OTHER -> "submit"
           q == At(Fresh(d, p), pc)
           a == IF Accepts(d) THEN <<>> ELSE <<"failure">>
<1>1. \/ pc \in {"resolve", "upload", "submit"} /\ Accepts(d)
      \/ pc = "blame" /\ ~Accepts(d)
  <2>1. CASE Accepts(d)
    <3>1. pc \in {"resolve", "upload", "submit"}
      BY <2>1
    <3> QED BY <2>1, <3>1
  <2>2. CASE ~Accepts(d)
    BY <2>2
  <2> QED BY <2>1, <2>2
<1> HIDE DEF pc
<1>3. req[r].pc = "new" /\ Put(r, q)
  BY DEF Begin, pc
<1>4. /\ req[r] \in States /\ Facts(req[r], task[r], answers[r], refused[r])
      /\ RestTyped /\ refused[r] \in Nat /\ (req[r].sid => req[r].pc \in SessionPcs)
  BY InvFacts DEF Kept
<1>5. req[r].sid = FALSE
  BY <1>3, <1>4 DEF SessionPcs, States
<1>6. task[r] = "none" /\ answers[r] = <<>>
  BY <1>3, <1>4 DEF Facts, RowFits, AnswerFits, Closing, Polling, InUpsample, CallPcs
<1>7. q \in States
  BY <1>1 DEF At, Fresh, States, Pcs, Calls, Errors
<1>8. /\ q.pc = pc /\ q.call = "none" /\ q.demand = d /\ q.after = "none" /\ q.gone = FALSE
      /\ q.sid = FALSE /\ q.url = "none" /\ q.mains = 0 /\ q.ups = 0
  BY DEF At, Fresh
<1> HIDE DEF q
<1>9. a \in Seq(Words)
  <2>1. <<>> \in Seq(Words) /\ <<"failure">> \in Seq(Words)
    BY DEF Words
  <2> QED BY <2>1
<1>10. Facts(q, "none", a, refused[r])
  <2> USE DEF Closing, CallPcs, InMain, InUpsample, Upsamples, Early
  <2>1. KindFits(q) /\ EndFits(q) /\ SidFits(q)
    BY <1>1, <1>8 DEF KindFits, EndFits, SidFits, ImagePcs, VideoPcs, SessionPcs
  <2>2. ~Says(a, "success") /\ ~Says(a, "hollow") /\ Len(a) \leq 1
    BY DEF Says
  <2>3. RowFits(q, "none", a)
    BY <1>1, <1>8, <2>2 DEF RowFits, Polling, SaysDone
  <2>4. AnswerFits(q, "none", a, refused[r])
    BY <1>1, <1>8, <2>2 DEF AnswerFits
  <2>5. UrlFits(q, a, refused[r])
    BY <1>8 DEF UrlFits
  <2>6. JobsFit(q, refused[r])
    BY <1>4, <1>8 DEF JobsFit
  <2>7. DropFits(q, a)
    BY <1>1, <1>8, <2>2 DEF DropFits
  <2> QED BY <2>1, <2>3, <2>4, <2>5, <2>6, <2>7 DEF Facts
<1>11. answers' = [answers EXCEPT ![r] = a]
  <2>1. CASE Accepts(d)
    BY <1>4, <1>6, <2>1 DEF Begin, RestTyped
  <2>2. CASE ~Accepts(d)
    BY <1>4, <1>6, <2>2 DEF Begin, Answer, RestTyped
  <2> QED BY <2>1, <2>2
<1>12. task' = [task EXCEPT ![r] = "none"]
  BY <1>4, <1>6 DEF Begin, RestTyped
<1>13. q.pc # "solve"
  BY <1>1, <1>8
<1> HIDE DEF a
<1> QED
  BY <1>3, <1>5, <1>7, <1>8, <1>9, <1>10, <1>11, <1>12, <1>13, HandledFine
  DEF Begin, Kept, Statuses

(* The uploads of a request are its own.                                   *)
LEMMA ShotFine ==
  ASSUME Inv, NEW r \in Requests, NEW i \in 1..MaxInputs, NEW n \in 0..Landed,
         shots' = [shots EXCEPT ![r][i] = n], UNCHANGED <<scene, leaves, refusals>>,
         Told, NoCaptcha,
         \/ UNCHANGED req
         \/ req[r].pc = "upload" /\ \E pc \in {"submit", "fail"} : Put(r, At(req[r], pc))
  PROVE  Fine
<1>1. RestTyped' /\ scene' = scene
  BY InvFacts DEF RestTyped, Told, NoCaptcha
<1>2. PICK q : /\ OthersStay(r) /\ req'[r] = q /\ q.sid = req[r].sid
               /\ Kept(q, task[r], answers[r], refused[r])
               /\ q.pc = "solve" => req[r].pc = "solve"
  <2>1. CASE UNCHANGED req
    <3>1. OthersStay(r)
      BY <2>1, InvFacts, StayType DEF OthersStay
    <3> QED BY <2>1, <3>1, InvFacts
  <2>2. CASE req[r].pc = "upload" /\ \E pc \in {"submit", "fail"} : Put(r, At(req[r], pc))
    <3>1. PICK pc \in {"submit", "fail"} : Put(r, At(req[r], pc))
      BY <2>2
    <3>2. Kept(At(req[r], pc), task[r], answers[r], refused[r])
      BY <2>2, InvFacts, UploadKeeps
    <3>3. OthersStay(r) /\ req'[r] = At(req[r], pc)
      BY <3>1, <3>2, InvFacts, PutMoves DEF Kept
    <3>4. At(req[r], pc).sid = req[r].sid /\ At(req[r], pc).pc = pc
      BY InvFacts DEF At, States
    <3> QED BY <3>2, <3>3, <3>4
  <2> QED BY <2>1, <2>2
<1>3. Facts(q, task'[r], answers'[r], refused'[r])
  BY <1>2 DEF Told, Kept
<1>4. /\ q.sid => scene.method = "remote_browser"
      /\ r \in sessions' => r \in excused' \/ q.sid
      /\ sessions' \subseteq sessions \cup {r} /\ excused \subseteq excused'
  BY <1>2, InvFacts DEF Inv, SessionsFinished, NoCaptcha
<1> QED BY <1>1, <1>2, <1>3, <1>4, MoveFine DEF Told

LEMMA LandedType == Landed \in Nat /\ Uploads \in Nat /\ Landed = Uploads + 1 /\ 1 \leq Uploads
  BY BoundsAssumption DEF Landed

LEMMA UploadFine ==
  ASSUME Inv, NEW r \in Requests, NEW i \in 1..MaxInputs,
         \/ UploadStart(r, i) \/ UploadDone(r, i)
         \/ \E e \in scene.errors : UploadFails(r, i, e)
  PROVE  Fine
<1>1. CASE UploadStart(r, i)
  <2>1. /\ 1 \in 0..Landed /\ shots' = [shots EXCEPT ![r][i] = 1] /\ UNCHANGED req
        /\ UNCHANGED <<scene, leaves, refusals>> /\ Told /\ NoCaptcha
    BY <1>1, LandedType DEF UploadStart
  <2> QED BY <2>1, ShotFine
<1>2. CASE UploadDone(r, i)
  <2>1. /\ Landed \in 0..Landed /\ shots' = [shots EXCEPT ![r][i] = Landed]
        /\ UNCHANGED <<scene, leaves, refusals>> /\ Told /\ NoCaptcha
    BY <1>2, LandedType DEF UploadDone
  <2>2. UNCHANGED req \/ (req[r].pc = "upload" /\ Put(r, At(req[r], "submit")))
    BY <1>2 DEF UploadDone
  <2> QED BY <2>1, <2>2, ShotFine
<1>3. ASSUME NEW e \in scene.errors, UploadFails(r, i, e) PROVE Fine
  <2>1. shots[r][i] \in 1..Uploads /\ shots[r][i] + 1 \in 0..Landed /\ Landed \in 0..Landed
    BY <1>3, LandedType DEF UploadFails, Flying
  <2>2. CASE shots[r][i] < UploadTries(e)
    <3>1. shots' = [shots EXCEPT ![r][i] = shots[r][i] + 1]
      BY <1>3, <2>2 DEF UploadFails
    <3> QED BY <1>3, <2>1, <2>2, <3>1, ShotFine DEF UploadFails
  <2>3. CASE ~(shots[r][i] < UploadTries(e))
    BY <1>3, <2>1, <2>3, ShotFine DEF UploadFails
  <2> QED BY <2>2, <2>3
<1> QED BY <1>1, <1>2, <1>3

(* A failure told to the client on the spot.                               *)
LEMMA DeclineFine ==
  ASSUME Inv, NEW r \in Requests, req[r].pc \in {"resolve", "product", "accepted"},
         Put(r, At(req[r], "blame")), Answer(r, "failure"), UNCHANGED <<task, refused>>,
         NoCaptcha, Outside
  PROVE  Fine
<1>1. Kept(At(req[r], "blame"), task[r], Append(answers[r], "failure"), refused[r])
  BY InvFacts, DeclineKeeps
<1>2. At(req[r], "blame").sid = req[r].sid /\ At(req[r], "blame").pc = "blame"
  BY InvFacts DEF At, States
<1>3. /\ RestTyped /\ task[r] \in Statuses
      /\ Append(answers[r], "failure") \in Seq(Words)
  BY InvFacts DEF Words
<1>4. /\ task' = [task EXCEPT ![r] = task[r]]
      /\ answers' = [answers EXCEPT ![r] = Append(answers[r], "failure")]
  BY <1>3 DEF RestTyped, Answer
<1> QED BY <1>1, <1>2, <1>3, <1>4, HandledFine

LEMMA ResolveFine ==
  ASSUME Inv, NEW r \in Requests, NEW found \in BOOLEAN, Resolve(r, found)
  PROVE  Fine
<1>1. CASE found
  <2>1. Kept(At(req[r], "submit"), task[r], answers[r], refused[r])
    BY InvFacts, ResolveKeeps DEF Resolve
  <2>2. At(req[r], "submit").sid = req[r].sid /\ At(req[r], "submit").pc = "submit"
    BY InvFacts DEF At, States
  <2> QED BY <1>1, <2>1, <2>2, QuietFine DEF Resolve, Told
<1>2. CASE ~found
  BY <1>2, DeclineFine DEF Resolve
<1> QED BY <1>1, <1>2

-----------------------------------------------------------------------------
(* The calls and their attempts.                                           *)
LEMMA StartCallFine ==
  ASSUME Inv, NEW r \in Requests, NEW call \in Calls \ {"none"}, StartCall(r, call),
         call \in {"generate_image", "upsample_image"} <=> req[r].demand.kind = "image",
         \/ req[r].pc = "submit" /\ call \notin Upsamples
         \/ req[r].pc = "upsample" /\ call \in Upsamples
  PROVE  Fine
<1> DEFINE q == [req[r] EXCEPT !.pc = "cool", !.call = call, !.try = 0, !.sends = 0,
                               !.err = "none"]
<1>1. Kept(q, task[r], answers[r], refused[r])
  BY InvFacts, StartKeeps
<1>2. q.sid = req[r].sid /\ q.pc = "cool"
  BY InvFacts DEF States
<1>3. Put(r, q) /\ Told /\ NoCaptcha /\ Outside
  BY DEF StartCall
<1> HIDE DEF q
<1> QED BY <1>1, <1>2, <1>3, QuietFine

LEMMA StartFine ==
  ASSUME Inv, NEW r \in Requests,
         \/ GenerateImage(r) \/ GenerateVideoEdit(r) \/ GenerateVideoStartEnd(r)
         \/ GenerateVideoStartImage(r) \/ GenerateVideoReferenceImages(r)
         \/ GenerateVideoText(r) \/ UpsampleImage(r) \/ UpsampleVideo(r)
  PROVE  Fine
<1> USE DEF Calls, Upsamples
<1>1. CASE GenerateImage(r) BY <1>1, StartCallFine DEF GenerateImage
<1>2. CASE GenerateVideoEdit(r) BY <1>2, StartCallFine DEF GenerateVideoEdit
<1>3. CASE GenerateVideoStartEnd(r) BY <1>3, StartCallFine DEF GenerateVideoStartEnd
<1>4. CASE GenerateVideoStartImage(r) BY <1>4, StartCallFine DEF GenerateVideoStartImage
<1>5. CASE GenerateVideoReferenceImages(r)
  BY <1>5, StartCallFine DEF GenerateVideoReferenceImages
<1>6. CASE GenerateVideoText(r) BY <1>6, StartCallFine DEF GenerateVideoText
<1>7. CASE UpsampleImage(r) BY <1>7, StartCallFine DEF UpsampleImage
<1>8. CASE UpsampleVideo(r) BY <1>8, StartCallFine DEF UpsampleVideo
<1> QED BY <1>1, <1>2, <1>3, <1>4, <1>5, <1>6, <1>7, <1>8

LEMMA CooldownFine ==
  ASSUME Inv, NEW r \in Requests, AwaitCooldown(r) \/ Wake(r)
  PROVE  Fine
<1>1. RestTyped /\ cooling \in [Projects -> BOOLEAN]
  BY InvFacts DEF RestTyped
<1>2. CASE AwaitCooldown(r) /\ cooling[req[r].project]
  <2> DEFINE q == [req[r] EXCEPT !.pc = "waiting", !.wait = "current"]
  <2>1. Kept(q, task[r], answers[r], refused[r])
    BY <1>2, InvFacts, CoolKeeps DEF AwaitCooldown
  <2>2. q.sid = req[r].sid /\ q.pc = "waiting" /\ Put(r, q)
    BY <1>2, InvFacts DEF AwaitCooldown, States
  <2> HIDE DEF q
  <2> QED BY <1>2, <2>1, <2>2, QuietFine DEF AwaitCooldown
<1>3. CASE AwaitCooldown(r) /\ ~cooling[req[r].project]
  <2> DEFINE q == At(req[r], "solve")
  <2>1. Kept(q, task[r], answers[r], refused[r])
    BY <1>3, InvFacts, CooledKeeps DEF AwaitCooldown
  <2>2. q.sid = req[r].sid /\ Put(r, q)
    BY <1>3, InvFacts DEF AwaitCooldown, States, At
  <2> HIDE DEF q
  <2> QED BY <1>1, <1>3, <2>1, <2>2, CalmFine DEF AwaitCooldown, NoCaptcha
<1>4. CASE Wake(r)
  <2> DEFINE q == [req[r] EXCEPT !.pc = "solve", !.wait = "no"]
  <2>1. Kept(q, task[r], answers[r], refused[r])
    BY <1>4, InvFacts, WakeKeeps DEF Wake
  <2>2. q.sid = req[r].sid /\ Put(r, q)
    BY <1>4, InvFacts DEF Wake, States
  <2> HIDE DEF q
  <2> QED BY <1>1, <1>4, <2>1, <2>2, CalmFine DEF Wake, NoCaptcha
<1> QED BY <1>2, <1>3, <1>4

LEMMA ErrorsAreErrors ==
  ASSUME Inv, NEW e \in scene.errors
  PROVE  e \in Errors
  BY ScenesAssumption DEF Inv, TypeOK

(* A session is on record for a request that has it in hand, or excused.   *)
LEMMA NoSessionBefore ==
  ASSUME Inv, NEW r \in Requests, req[r].pc \notin SessionPcs
  PROVE  r \in sessions => r \in excused
  BY InvFacts DEF Inv, SessionsFinished

LEMMA ChannelPcs == Channel \in {"browser", "http"}
  BY DEF Channel

LEMMA SolvedFine ==
  ASSUME Inv, NEW r \in Requests, Solved(r)
  PROVE  Fine
<1> DEFINE pc == IF req[r].call = "generate_image" THEN "progress" ELSE Channel
           sid == (scene.method = "remote_browser")
           q == [req[r] EXCEPT !.pc = pc, !.sid = sid]
<1>1. pc \in {"progress", "browser", "http"} /\ sid \in BOOLEAN
  BY ChannelPcs
<1>2. req[r].pc = "solve" /\ Put(r, q)
  BY DEF Solved
<1> HIDE DEF pc, sid
<1>3. Kept(q, task[r], answers[r], refused[r])
  BY <1>1, <1>2, InvFacts, SolvedKeeps
<1>4. q.sid = sid
  BY InvFacts DEF States
<1> HIDE DEF q
<1>5. /\ cooling' \in [Projects -> BOOLEAN] /\ Told /\ Outside /\ UNCHANGED excused
      /\ sessions' = IF sid THEN sessions \cup {r} ELSE sessions
  BY InvFacts DEF Solved, RestTyped, sid
<1>6. r \in sessions => r \in excused
  BY <1>2, NoSessionBefore DEF SessionPcs
<1>7. r \in sessions' => r \in excused' \/ q.sid
  BY <1>4, <1>5, <1>6
<1>8. q.sid => scene.method = "remote_browser"
  BY <1>4 DEF sid
<1>9. sessions' \subseteq sessions \cup {r} /\ excused \subseteq excused'
      /\ excused' \subseteq excused \cup {r}
  BY <1>5
<1> QED BY <1>2, <1>3, <1>5, <1>7, <1>8, <1>9, CallFine

(* On to another channel, with the same session.                           *)
LEMMA ForwardFine ==
  ASSUME Inv, NEW r \in Requests, NEW pc \in {"browser", "http", "urllib"},
         req[r].pc \in {"progress", "browser", "http", "urllib"}, Put(r, At(req[r], pc)),
         Told, NoCaptcha, Outside
  PROVE  Fine
<1>1. Kept(At(req[r], pc), task[r], answers[r], refused[r])
  BY InvFacts, ForwardKeeps
<1>2. At(req[r], pc).sid = req[r].sid /\ At(req[r], pc).pc = pc
  BY InvFacts DEF At, States
<1> QED BY <1>1, <1>2, QuietFine

LEMMA ProgressFine ==
  ASSUME Inv, NEW r \in Requests, Progress(r)
  PROVE  Fine
  BY ForwardFine, ChannelPcs DEF Progress

LEMMA JudgedKeeps ==
  ASSUME NEW q, NEW t, NEW a, NEW n \in Nat, Kept(q, t, a, n), NEW e \in Errors,
         q.pc \in {"solve", "browser", "http", "urllib"}
  PROVE  /\ Kept(Judged(q, e), t, a, n)
         /\ Judged(q, e).sid = q.sid /\ Judged(q, e).pc \in {"pause", "finish"}
<1>1. q \in States
  BY DEF Kept
<1>2. CASE RetryReason(e) /\ q.try < Retries - 1
  <2>1. Judged(q, e) = [q EXCEPT !.pc = "pause", !.after = "retry", !.err = e]
    BY <1>2 DEF Judged
  <2>2. Kept(Judged(q, e), t, a, n)
    <3>1. Kept([q EXCEPT !.pc = "pause", !.after = "retry", !.err = e], t, a, n)
      BY PauseBeforeRetryKeeps
    <3> QED BY <2>1, <3>1
  <2>3. Judged(q, e).sid = q.sid /\ Judged(q, e).pc = "pause"
    BY <1>1, <2>1 DEF States
  <2> QED BY <2>2, <2>3
<1>3. CASE ~(RetryReason(e) /\ q.try < Retries - 1)
  <2>1. Judged(q, e) = [q EXCEPT !.pc = "finish", !.after = "raise", !.err = e]
    BY <1>3 DEF Judged
  <2>2. Kept(Judged(q, e), t, a, n)
    <3>1. Kept([q EXCEPT !.pc = "finish", !.after = "raise", !.err = e], t, a, n)
      BY GiveUpKeeps
    <3> QED BY <2>1, <3>1
  <2>3. Judged(q, e).sid = q.sid /\ Judged(q, e).pc = "finish"
    BY <1>1, <2>1 DEF States
  <2> QED BY <2>2, <2>3
<1> QED BY <1>2, <1>3

LEMMA RejectFine ==
  ASSUME Inv, NEW r \in Requests, NEW q, NEW e \in Errors, Reject(r, q, e),
         Kept(q, task[r], answers[r], refused[r]),
         q.pc \in {"solve", "browser", "http", "urllib"}, Told, Outside,
         q.sid => scene.method = "remote_browser",
         r \in sessions' => r \in excused' \/ q.sid,
         sessions' \subseteq sessions \cup {r}, excused \subseteq excused',
         excused' \subseteq excused \cup {r}
  PROVE  Fine
<1> DEFINE z == Judged(q, e)
<1>1. /\ Kept(z, task[r], answers[r], refused[r])
      /\ z.sid = q.sid /\ z.pc \in {"pause", "finish"}
  BY InvFacts, JudgedKeeps
<1>2. (Put(r, z) \/ Unsettle(r, z)) /\ cooling' \in [Projects -> BOOLEAN]
  BY InvFacts DEF Reject, RestTyped
<1> HIDE DEF z
<1>3. z.pc # "solve" /\ (z.sid => scene.method = "remote_browser")
      /\ (r \in sessions' => r \in excused' \/ z.sid)
  BY <1>1
<1> QED BY <1>1, <1>2, <1>3, CallFine

LEMMA NoTokenFine ==
  ASSUME Inv, NEW r \in Requests, NEW spoilt \in BOOLEAN, NoToken(r, spoilt)
  PROVE  Fine
<1> DEFINE q == [req[r] EXCEPT !.sid = FALSE]
<1>1. req[r].pc = "solve" /\ Reject(r, q, "captcha") /\ Told /\ Outside
  BY DEF NoToken
<1>2. Kept(q, task[r], answers[r], refused[r])
  BY <1>1, InvFacts, DroppedKeeps
<1>3. q.pc = "solve" /\ q.sid = FALSE
  BY <1>1, InvFacts DEF States
<1> HIDE DEF q
<1>4. r \in sessions => r \in excused
  BY <1>1, NoSessionBefore DEF SessionPcs
<1>5. /\ r \in sessions' => r \in excused'
      /\ sessions' \subseteq sessions \cup {r} /\ excused \subseteq excused'
      /\ excused' \subseteq excused \cup {r}
  BY <1>4 DEF NoToken
<1>6. "captcha" \in Errors
  BY DEF Errors
<1> QED BY <1>1, <1>2, <1>3, <1>5, <1>6, RejectFine

LEMMA SendFailsFine ==
  ASSUME Inv, NEW r \in Requests, NEW e \in Errors, SendFails(r, e),
         req[r].pc \in {"browser", "http", "urllib"}
  PROVE  Fine
<1>1. Told /\ Outside /\ UNCHANGED <<sessions, excused>>
  BY DEF SendFails
<1>2. CASE req[r].call = "generate_image" /\ IsTimeout(e) /\ req[r].sends < Sends - 1
  <2> DEFINE q == [req[r] EXCEPT !.pc = Channel, !.sends = @ + 1]
  <2>1. Put(r, q) /\ UNCHANGED cooling
    BY <1>2 DEF SendFails
  <2>2. Kept(q, task[r], answers[r], refused[r])
    BY ChannelPcs, InvFacts, ResendKeeps
  <2>3. q.sid = req[r].sid /\ q.pc = Channel
    BY InvFacts DEF States
  <2> HIDE DEF q
  <2> QED BY <1>1, <2>1, <2>2, <2>3, ChannelPcs, QuietFine DEF NoCaptcha
<1>3. CASE ~(req[r].call = "generate_image" /\ IsTimeout(e) /\ req[r].sends < Sends - 1)
  <2>1. Reject(r, req[r], e)
    BY <1>3 DEF SendFails
  <2>2. r \in sessions' => r \in excused' \/ req[r].sid
    BY <1>1 DEF Inv, SessionsFinished
  <2> QED BY <1>1, <2>1, <2>2, InvFacts, RejectFine
<1> QED BY <1>2, <1>3

LEMMA TakenFine ==
  ASSUME Inv, NEW r \in Requests, Taken(r), req[r].pc \in {"browser", "http", "urllib"}
  PROVE  Fine
<1> DEFINE up == req[r].call \in Upsamples
           q == [req[r] EXCEPT !.pc = "finish", !.after = "return", !.err = "none",
                               !.mains = IF up THEN @ ELSE @ + 1,
                               !.ups = IF up THEN @ + 1 ELSE @]
<1>1. /\ Unsettle(r, q) /\ UNCHANGED <<sessions, excused>> /\ Told /\ Outside
      /\ cooling' \in [Projects -> BOOLEAN]
  BY InvFacts DEF Taken, RestTyped
<1>2. Kept(q, task[r], answers[r], refused[r])
  <2>1. CASE up
    <3>1. q = [req[r] EXCEPT !.pc = "finish", !.after = "return", !.err = "none",
                             !.mains = req[r].mains, !.ups = req[r].ups + 1]
      BY <2>1
    <3> QED BY <2>1, <3>1, InvFacts, UpsampleTakenKeeps
  <2>2. CASE ~up
    <3>1. q = [req[r] EXCEPT !.pc = "finish", !.after = "return", !.err = "none",
                             !.mains = req[r].mains + 1, !.ups = req[r].ups]
      BY <2>2
    <3> QED BY <2>2, <3>1, InvFacts, MainTakenKeeps
  <2> QED BY <2>1, <2>2
<1>3. q.sid = req[r].sid /\ q.pc = "finish"
  BY InvFacts DEF States
<1> HIDE DEF q
<1> QED BY <1>1, <1>2, <1>3, CalmFine

LEMMA SendFine ==
  ASSUME Inv, NEW r \in Requests,
         \/ SubmitFlowRequest(r) \/ Post(r) \/ UrllibPost(r)
         \/ \E e \in scene.errors :
               SubmitFlowRequestFails(r, e) \/ PostFails(r, e) \/ UrllibPostFails(r, e)
  PROVE  Fine
<1>1. CASE SubmitFlowRequest(r) \/ Post(r) \/ UrllibPost(r)
  BY <1>1, TakenFine DEF SubmitFlowRequest, Post, UrllibPost
<1>2. ASSUME NEW e \in scene.errors, SubmitFlowRequestFails(r, e) PROVE Fine
  <2>1. req[r].pc = "browser" /\ e \in Errors
    BY <1>2, ErrorsAreErrors DEF SubmitFlowRequestFails
  <2>2. Reroute(r, "http") \/ Reroute(r, "urllib") \/ SendFails(r, e)
    BY <1>2 DEF SubmitFlowRequestFails
  <2> QED BY <2>1, <2>2, ForwardFine, SendFailsFine DEF Reroute
<1>3. ASSUME NEW e \in scene.errors, PostFails(r, e) PROVE Fine
  <2>1. req[r].pc = "http" /\ e \in Errors
    BY <1>3, ErrorsAreErrors DEF PostFails
  <2>2. Reroute(r, "urllib") \/ SendFails(r, e)
    BY <1>3 DEF PostFails
  <2> QED BY <2>1, <2>2, ForwardFine, SendFailsFine DEF Reroute
<1>4. ASSUME NEW e \in scene.errors, UrllibPostFails(r, e) PROVE Fine
  BY <1>4, ErrorsAreErrors, SendFailsFine DEF UrllibPostFails
<1> QED BY <1>1, <1>2, <1>3, <1>4

LEMMA PauseFine ==
  ASSUME Inv, NEW r \in Requests, Pause(r)
  PROVE  Fine
<1>1. Kept(At(req[r], "finish"), task[r], answers[r], refused[r])
  BY InvFacts, PauseKeeps DEF Pause
<1>2. At(req[r], "finish").sid = req[r].sid /\ At(req[r], "finish").pc = "finish"
  BY InvFacts DEF At, States
<1> QED BY <1>1, <1>2, QuietFine DEF Pause, Reroute

LEMMA OverKeeps ==
  ASSUME NEW q, NEW t, NEW a, NEW n \in Nat, Kept(q, t, a, n), q.pc = "finish"
  PROVE  Kept(Over(q), t, a, n) /\ Over(q).sid = FALSE /\ Over(q).pc # "solve"
<1> DEFINE ended(pc, k) == [q EXCEPT !.after = "none", !.sid = FALSE, !.pc = pc, !.outer = k]
<1>1. /\ q \in States /\ q.after \in {"retry", "raise", "return", "leave"}
      /\ q.outer \in Nat /\ q.outer + 1 \in Nat
  BY DEF Kept, Facts, EndFits, States
<1>2. CASE q.after = "retry"
  <2>1. Over(q) = Retry(q)
    BY <1>2 DEF Over
  <2>2. Retry(q).sid = FALSE /\ Retry(q).pc = "cool"
    BY <1>1 DEF Retry, States
  <2> QED BY <1>2, <2>1, <2>2, RetryKeeps
<1>3. ASSUME NEW pc \in Pcs \ {"solve"}, NEW k \in Nat, Over(q) = ended(pc, k),
             CallEnds(q, pc)
      PROVE  Kept(Over(q), t, a, n) /\ Over(q).sid = FALSE /\ Over(q).pc # "solve"
  <2>1. Kept(ended(pc, k), t, a, n)
    BY <1>3, EndedKeeps
  <2>2. ended(pc, k).sid = FALSE /\ ended(pc, k).pc = pc
    BY <1>1 DEF States
  <2> QED BY <1>3, <2>1, <2>2
<1>4. CASE q.after = "return"
  <2> DEFINE pc == CASE q.call = "generate_image" -> "product"
                     [] q.call = "upsample_image" -> "upsampled"
                     [] q.call = "upsample_video" -> "upaccepted"
                     [] OTHER -> "accepted"
  <2>1. pc \in Pcs \ {"solve"} /\ CallEnds(q, pc)
    BY <1>4 DEF Pcs, CallEnds
  <2>2. Over(q) = [q EXCEPT !.after = "none", !.sid = FALSE, !.pc = pc]
    BY <1>4 DEF Over, Returned
  <2> HIDE DEF pc
  <2>3. Over(q) = ended(pc, q.outer)
    BY <1>1, <2>2 DEF States
  <2> QED BY <1>1, <1>3, <2>1, <2>3
<1>5. CASE q.after = "raise"
  <2>1. Over(q) = Raised(q)
    BY <1>5 DEF Over
  <2>2. CASE q.call = "upsample_image" /\ RetryReason(q.err) /\ q.outer < UpTries - 1
    <3>1. Over(q) = ended("upsample", q.outer + 1)
      BY <1>1, <2>1, <2>2 DEF Raised, States
    <3> QED BY <1>1, <1>3, <1>5, <2>2, <3>1 DEF CallEnds, Pcs
  <2>3. CASE q.call = "upsample_image" /\ ~(RetryReason(q.err) /\ q.outer < UpTries - 1)
    <3>1. Over(q) = [q EXCEPT !.after = "none", !.sid = FALSE, !.pc = "deliver"]
      BY <2>1, <2>3 DEF Raised
    <3>2. Over(q) = ended("deliver", q.outer)
      BY <1>1, <3>1 DEF States
    <3> QED BY <1>1, <1>3, <1>5, <2>3, <3>2 DEF CallEnds, Pcs
  <2>4. CASE q.call = "upsample_video"
    <3>1. Over(q) = [q EXCEPT !.after = "none", !.sid = FALSE, !.pc = "finalize"]
      BY <2>1, <2>4 DEF Raised
    <3>2. Over(q) = ended("finalize", q.outer)
      BY <1>1, <3>1 DEF States
    <3> QED BY <1>1, <1>3, <1>5, <2>4, <3>2 DEF CallEnds, Pcs
  <2>5. CASE q.call \notin Upsamples
    <3>1. Over(q) = [q EXCEPT !.after = "none", !.sid = FALSE, !.pc = "fail"]
      BY <2>1, <2>5 DEF Raised, Upsamples
    <3>2. Over(q) = ended("fail", q.outer)
      BY <1>1, <3>1 DEF States
    <3> QED BY <1>1, <1>3, <1>5, <2>5, <3>2 DEF CallEnds, Pcs
  <2> QED BY <2>2, <2>3, <2>4, <2>5 DEF Upsamples
<1>6. CASE q.after = "leave"
  <2>1. Over(q) = [q EXCEPT !.after = "none", !.sid = FALSE, !.pc = "done"]
    BY <1>6 DEF Over
  <2>2. Over(q) = ended("done", q.outer)
    BY <1>1, <2>1 DEF States
  <2> QED BY <1>1, <1>3, <1>6, <2>2 DEF CallEnds, Pcs
<1> QED BY <1>1, <1>2, <1>4, <1>5, <1>6

LEMMA FinishFine ==
  ASSUME Inv, NEW r \in Requests, NEW heard \in BOOLEAN, Finish(r, heard)
  PROVE  Fine
<1> DEFINE q == Over(req[r])
<1>1. req[r].pc = "finish" /\ Put(r, q) /\ Told /\ Outside
      /\ cooling' \in [Projects -> BOOLEAN]
  BY InvFacts DEF Finish, RestTyped
<1>2. Kept(q, task[r], answers[r], refused[r]) /\ q.sid = FALSE /\ q.pc # "solve"
  BY <1>1, InvFacts, OverKeeps
<1> HIDE DEF q
<1>3. /\ r \in sessions' => r \in excused'
      /\ sessions' \subseteq sessions \cup {r} /\ excused \subseteq excused'
      /\ excused' \subseteq excused \cup {r}
  BY DEF Finish, Inv, SessionsFinished
<1> QED BY <1>1, <1>2, <1>3, CallFine

-----------------------------------------------------------------------------
(* The handler and the polling.                                            *)
LEMMA ImageFine ==
  ASSUME Inv, NEW r \in Requests, NEW named \in BOOLEAN, ImageReady(r, named)
  PROVE  Fine
<1> DEFINE pc == IF req[r].demand.up /\ named THEN "upsample" ELSE "deliver"
           q == [req[r] EXCEPT !.url = "source", !.outer = 0, !.pc = pc]
<1>1. pc \in {"upsample", "deliver"}
  OBVIOUS
<1>2. req[r].pc = "product" /\ Put(r, q) /\ Told /\ NoCaptcha /\ Outside
  BY DEF ImageReady, Handled, Told
<1> HIDE DEF pc
<1>3. Kept(q, task[r], answers[r], refused[r])
  BY <1>1, <1>2, InvFacts, ImageKeeps
<1>4. q.sid = req[r].sid /\ q.pc = pc
  BY InvFacts DEF States
<1> HIDE DEF q
<1> QED BY <1>1, <1>2, <1>3, <1>4, QuietFine

LEMMA UpsampledFine ==
  ASSUME Inv, NEW r \in Requests, NEW empty \in BOOLEAN, UpsampledImage(r, empty)
  PROVE  Fine
<1> DEFINE url == IF empty THEN req[r].url ELSE "upsampled"
           q == [req[r] EXCEPT !.pc = "deliver", !.url = url]
<1>1. url \in {req[r].url, "upsampled"}
  OBVIOUS
<1>2. req[r].pc = "upsampled" /\ Put(r, q) /\ Told /\ NoCaptcha /\ Outside
  BY DEF UpsampledImage, Handled, Told
<1> HIDE DEF url
<1>3. Kept(q, task[r], answers[r], refused[r])
  BY <1>1, <1>2, InvFacts, UpsampledKeeps
<1>4. q.sid = req[r].sid /\ q.pc = "deliver"
  BY InvFacts DEF States
<1> HIDE DEF q
<1> QED BY <1>2, <1>3, <1>4, QuietFine

LEMMA DeclinedFine ==
  ASSUME Inv, NEW r \in Requests, ImageMissing(r) \/ VideoUnusable(r)
  PROVE  Fine
  BY DeclineFine DEF ImageMissing, VideoUnusable, Decline, Handled

(* Answers and rows, written together.                                     *)
LEMMA ToldFine ==
  ASSUME Inv, NEW r \in Requests, NEW pc \in {"usage", "blame", "done"}, NEW t \in Statuses,
         NEW w \in Words, Put(r, At(req[r], pc)), Answer(r, w),
         task' = [task EXCEPT ![r] = t], Handled,
         Kept(At(req[r], pc), t, Append(answers[r], w), refused[r])
  PROVE  Fine
<1>1. At(req[r], pc).sid = req[r].sid /\ At(req[r], pc).pc # "solve"
  BY InvFacts DEF At, States
<1>2. /\ Append(answers[r], w) \in Seq(Words)
      /\ answers' = [answers EXCEPT ![r] = Append(answers[r], w)]
  BY InvFacts DEF Answer
<1> QED BY <1>1, <1>2, HandledFine DEF Handled

LEMMA AnswerFine ==
  ASSUME Inv, NEW r \in Requests,
         DeliverImage(r) \/ Finalize(r) \/ FailTask(r) \/ Fail(r)
  PROVE  Fine
<1>1. task = [task EXCEPT ![r] = task[r]] /\ task[r] \in Statuses /\ answers[r] \in Seq(Words)
  BY InvFacts DEF RestTyped
<1>2. /\ {"completed", "failed"} \subseteq Statuses
      /\ "failure" \in Words /\ WordFor(req[r]) \in Words
      /\ Success(r) => Answer(r, WordFor(req[r]))
  BY DEF Statuses, Words, Success, WordFor
<1>3. CASE DeliverImage(r)
  <2>1. Kept(At(req[r], "usage"), task[r], Append(answers[r], WordFor(req[r])), refused[r])
    BY <1>3, InvFacts, DeliverKeeps DEF DeliverImage
  <2> QED BY <1>1, <1>2, <1>3, <2>1, ToldFine DEF DeliverImage
<1>4. CASE Finalize(r)
  <2>1. Kept(At(req[r], "usage"), "completed", Append(answers[r], WordFor(req[r])), refused[r])
    BY <1>4, InvFacts, FinalizeKeeps DEF Finalize
  <2> QED BY <1>2, <1>4, <2>1, ToldFine DEF Finalize
<1>5. CASE FailTask(r)
  <2>1. Kept(At(req[r], "blame"), "failed", Append(answers[r], "failure"), refused[r])
    BY <1>5, InvFacts, FailTaskKeeps DEF FailTask
  <2> QED BY <1>2, <1>5, <2>1, ToldFine DEF FailTask
<1>6. CASE Fail(r)
  <2>1. Kept(At(req[r], "done"), task[r], Append(answers[r], "failure"), refused[r])
    BY <1>6, InvFacts, FailKeeps DEF Fail
  <2> QED BY <1>1, <1>2, <1>6, <2>1, ToldFine DEF Fail
<1> QED BY <1>3, <1>4, <1>5, <1>6

LEMMA RecordFine ==
  ASSUME Inv, NEW r \in Requests, VideoAccepted(r) \/ CreateTask(r) \/ Account(r)
  PROVE  Fine
<1>1. CASE VideoAccepted(r)
  <2>1. Kept(At(req[r], "record"), task[r], answers[r], refused[r])
    BY <1>1, InvFacts, AcceptedKeeps DEF VideoAccepted
  <2>2. At(req[r], "record").sid = req[r].sid /\ At(req[r], "record").pc = "record"
    BY InvFacts DEF At, States
  <2> QED BY <1>1, <2>1, <2>2, QuietFine DEF VideoAccepted, Handled, Told
<1>2. CASE Account(r)
  <2>1. Kept(At(req[r], "done"), task[r], answers[r], refused[r])
    BY <1>2, InvFacts, AccountKeeps DEF Account
  <2>2. At(req[r], "done").sid = req[r].sid /\ At(req[r], "done").pc = "done"
    BY InvFacts DEF At, States
  <2> QED BY <1>2, <2>1, <2>2, QuietFine DEF Account, Handled, Told
<1>3. CASE CreateTask(r)
  <2> DEFINE q == [req[r] EXCEPT !.pc = "poll", !.poll = 0, !.errs = 0]
  <2>1. Kept(q, "processing", answers[r], refused[r])
    BY <1>3, InvFacts, CreateTaskKeeps DEF CreateTask
  <2>2. q.sid = req[r].sid /\ q.pc = "poll" /\ Put(r, q)
    BY <1>3, InvFacts DEF CreateTask, States
  <2> HIDE DEF q
  <2>3. /\ "processing" \in Statuses /\ answers[r] \in Seq(Words)
        /\ answers' = [answers EXCEPT ![r] = answers[r]]
    BY <1>3, InvFacts DEF CreateTask, Statuses, RestTyped
  <2> QED BY <1>3, <2>1, <2>2, <2>3, HandledFine DEF CreateTask, Handled
<1> QED BY <1>1, <1>2, <1>3

LEMMA PolledFine ==
  ASSUME Inv, NEW r \in Requests, NEW q, Polled(r, q),
         Kept(q, task[r], answers[r], refused[r]), q.sid = req[r].sid, q.pc # "solve"
  PROVE  Fine
  BY QuietFine DEF Polled, Handled, Told

(* What a poll that brings no video makes of its request.                  *)
Onward(o, q) ==
    \E pc \in {"poll", "failtask"}, k \in Nat, m \in Nat :
        q = [o EXCEPT !.pc = pc, !.poll = k, !.errs = m]

LEMMA NextPollOnward ==
  ASSUME NEW o \in States, NEW m \in Nat
  PROVE  Onward(o, NextPoll([o EXCEPT !.errs = m]))
<1> DEFINE e == [o EXCEPT !.errs = m]
           pc == IF e.poll + 1 < Limit(e) THEN "poll" ELSE "failtask"
<1>1. pc \in {"poll", "failtask"}
  OBVIOUS
<1>2. e.poll = o.poll /\ o.poll + 1 \in Nat
  BY DEF States
<1>3. NextPoll(e) = [e EXCEPT !.pc = pc, !.poll = e.poll + 1]
  BY DEF NextPoll
<1> HIDE DEF pc
<1>4. NextPoll(e) = [o EXCEPT !.pc = pc, !.poll = o.poll + 1, !.errs = m]
  BY <1>2, <1>3 DEF States
<1> QED BY <1>1, <1>2, <1>4 DEF Onward

LEMMA PollErrorOnward ==
  ASSUME NEW b \in States, NEW e \in Nat
  PROVE  Onward(b, PollError([b EXCEPT !.errs = e])) /\ Onward(b, PollError(b))
<1> SUFFICES ASSUME NEW c \in Nat PROVE Onward(b, PollError([b EXCEPT !.errs = c]))
  <2>1. b.errs \in Nat /\ b = [b EXCEPT !.errs = b.errs]
    BY DEF States
  <2> QED BY <2>1
<1> DEFINE o == [b EXCEPT !.errs = c]
<1>1. o.errs = c /\ c + 1 \in Nat /\ b.poll \in Nat
  BY DEF States
<1>2. [o EXCEPT !.errs = c + 1] = [b EXCEPT !.errs = c + 1]
  BY DEF States
<1>3. [o EXCEPT !.pc = "failtask", !.errs = c + 1]
      = [b EXCEPT !.pc = "failtask", !.poll = b.poll, !.errs = c + 1]
  BY DEF States
<1>4. CASE c + 1 >= PollErrors
  <2>1. PollError(o) = [o EXCEPT !.pc = "failtask", !.errs = c + 1]
    BY <1>1, <1>4 DEF PollError
  <2> HIDE DEF o
  <2>2. Onward(b, PollError(o))
    BY <1>1, <1>3, <2>1 DEF Onward
  <2> QED BY <2>2 DEF o
<1>5. CASE ~(c + 1 >= PollErrors)
  <2>1. PollError(o) = NextPoll([o EXCEPT !.errs = c + 1])
    BY <1>1, <1>5 DEF PollError
  <2>2. Onward(b, NextPoll([b EXCEPT !.errs = c + 1]))
    BY <1>1, NextPollOnward
  <2> HIDE DEF o
  <2>3. Onward(b, PollError(o))
    BY <1>2, <2>1, <2>2
  <2> QED BY <2>3 DEF o
<1> QED BY <1>4, <1>5

LEMMA PollFine ==
  ASSUME Inv, NEW r \in Requests,
         \/ PollPending(r) \/ PollLost(r)
         \/ \E checked \in BOOLEAN : PollFails(r, checked)
  PROVE  Fine
<1>1. req[r].pc = "poll" /\ \E q : Polled(r, q) /\ Onward(req[r], q)
  <2>1. CASE PollPending(r)
    BY <2>1, InvFacts, NextPollOnward DEF PollPending
  <2>2. ASSUME NEW checked \in BOOLEAN, PollFails(r, checked)
        PROVE  req[r].pc = "poll" /\ \E q : Polled(r, q) /\ Onward(req[r], q)
    <3> DEFINE e == IF checked THEN 0 ELSE req[r].errs
    <3>1. req[r].errs \in Nat /\ e \in Nat
      BY InvFacts DEF States
    <3>2. req[r].pc = "poll" /\ Polled(r, PollError([req[r] EXCEPT !.errs = e]))
      BY <2>2 DEF PollFails
    <3> HIDE DEF e
    <3> QED BY <3>1, <3>2, InvFacts, PollErrorOnward
  <2>3. CASE PollLost(r)
    <3>1. /\ [req[r] EXCEPT !.pc = "failtask", !.errs = 0]
             = [req[r] EXCEPT !.pc = "failtask", !.poll = req[r].poll, !.errs = 0]
          /\ req[r].poll \in Nat
      BY InvFacts DEF States
    <3> QED BY <2>3, <3>1 DEF PollLost, Onward
  <2> QED BY <2>1, <2>2, <2>3
<1>2. PICK w : Polled(r, w) /\ Onward(req[r], w)
  BY <1>1
<1>3. PICK pc \in {"poll", "failtask"}, k \in Nat, m \in Nat :
        w = [req[r] EXCEPT !.pc = pc, !.poll = k, !.errs = m]
  BY <1>2 DEF Onward
<1> DEFINE q == [req[r] EXCEPT !.pc = pc, !.poll = k, !.errs = m]
<1>4. Kept(q, task[r], answers[r], refused[r])
  BY <1>1, InvFacts, PollKeeps
<1>5. q.sid = req[r].sid /\ q.pc = pc
  BY InvFacts DEF States
<1> QED BY <1>2, <1>4, <1>5, <1>3, PolledFine

LEMMA PollReadyFine ==
  ASSUME Inv, NEW r \in Requests, NEW named \in BOOLEAN, PollReady(r, named)
  PROVE  Fine
<1> DEFINE pc == IF req[r].demand.up /\ named THEN "upsample" ELSE "finalize"
           q == [req[r] EXCEPT !.errs = 0, !.url = "source", !.inner = FALSE, !.pc = pc]
<1>1. pc \in {"upsample", "finalize"}
  OBVIOUS
<1>2. req[r].pc = "poll" /\ Polled(r, q)
  BY DEF PollReady
<1> HIDE DEF pc
<1>3. Kept(q, task[r], answers[r], refused[r])
  BY <1>1, <1>2, InvFacts, PollReadyKeeps
<1>4. q.sid = req[r].sid /\ q.pc = pc
  BY InvFacts DEF States
<1> HIDE DEF q
<1> QED BY <1>1, <1>2, <1>3, <1>4, PolledFine

LEMMA UpAcceptedFine ==
  ASSUME Inv, NEW r \in Requests, NEW usable \in BOOLEAN, UpsampleAccepted(r, usable)
  PROVE  Fine
<1>1. CASE usable
  <2> DEFINE q == [req[r] EXCEPT !.pc = "uppoll", !.upoll = 0, !.uperrs = 0]
  <2>1. Kept(q, task[r], answers[r], refused[r])
    BY <1>1, InvFacts, UpAcceptedKeeps DEF UpsampleAccepted
  <2>2. q.sid = req[r].sid /\ q.pc = "uppoll" /\ Polled(r, q)
    BY <1>1, InvFacts DEF UpsampleAccepted, States
  <2> HIDE DEF q
  <2> QED BY <2>1, <2>2, PolledFine
<1>2. CASE ~usable
  <2> DEFINE q == At(req[r], "finalize")
  <2>1. Kept(q, task[r], answers[r], refused[r])
    BY <1>2, InvFacts, UpRefusedKeeps DEF UpsampleAccepted
  <2>2. q.sid = req[r].sid /\ q.pc = "finalize" /\ Polled(r, q)
    BY <1>2, InvFacts DEF UpsampleAccepted, States, At
  <2> HIDE DEF q
  <2> QED BY <2>1, <2>2, PolledFine
<1> QED BY <1>1, <1>2

(* What a poll of the upsample makes of its request.                       *)
Upward(o, q) ==
    \/ \E k \in Nat, m \in Nat : q = [o EXCEPT !.upoll = k, !.uperrs = m]
    \/ \E url \in {o.url, "upsampled", "missing"}, m \in Nat :
          q = [o EXCEPT !.pc = "finalize", !.inner = TRUE, !.url = url, !.uperrs = m]

LEMMA ConcludedUpward ==
  ASSUME NEW o \in States, NEW m \in Nat
  PROVE  /\ Upward(o, Concluded([o EXCEPT !.uperrs = m])) /\ Upward(o, Concluded(o))
         /\ \A url \in {"upsampled", "missing"} : Upward(o, [Concluded(o) EXCEPT !.url = url])
<1>1. o.uperrs \in Nat
  BY DEF States
<1>2. Concluded([o EXCEPT !.uperrs = m])
      = [o EXCEPT !.pc = "finalize", !.inner = TRUE, !.url = o.url, !.uperrs = m]
  BY DEF Concluded, States
<1>3. Concluded(o)
      = [o EXCEPT !.pc = "finalize", !.inner = TRUE, !.url = o.url, !.uperrs = o.uperrs]
  BY DEF Concluded, States
<1>4. \A url \in {"upsampled", "missing"} :
        [Concluded(o) EXCEPT !.url = url]
        = [o EXCEPT !.pc = "finalize", !.inner = TRUE, !.url = url, !.uperrs = o.uperrs]
  BY DEF Concluded, States
<1> QED BY <1>1, <1>2, <1>3, <1>4 DEF Upward

LEMMA NextUpPollUpward ==
  ASSUME NEW o \in States, NEW m \in Nat
  PROVE  Upward(o, NextUpPoll([o EXCEPT !.uperrs = m]))
<1> DEFINE e == [o EXCEPT !.uperrs = m]
<1>1. e.upoll = o.upoll /\ o.upoll + 1 \in Nat
  BY DEF States
<1>2. CASE e.upoll + 1 < UpPolls
  <2>1. NextUpPoll(e) = [e EXCEPT !.upoll = e.upoll + 1]
    BY <1>2 DEF NextUpPoll
  <2>2. NextUpPoll(e) = [o EXCEPT !.upoll = o.upoll + 1, !.uperrs = m]
    BY <1>1, <2>1 DEF States
  <2> QED BY <1>1, <2>2 DEF Upward
<1>3. CASE ~(e.upoll + 1 < UpPolls)
  BY <1>3, ConcludedUpward DEF NextUpPoll
<1> QED BY <1>2, <1>3

LEMMA UpsampleErrorUpward ==
  ASSUME NEW o \in States, NEW e \in Nat
  PROVE  Upward(o, UpsampleError([o EXCEPT !.uperrs = e]))
<1> DEFINE b == [o EXCEPT !.uperrs = e]
<1>1. b.uperrs = e /\ e + 1 \in Nat
  BY DEF States
<1>4. [b EXCEPT !.uperrs = e + 1] = [o EXCEPT !.uperrs = e + 1]
  BY DEF States
<1>2. CASE e + 1 >= UpErrors
  <2>1. UpsampleError(b) = Concluded(b)
    BY <1>1, <1>2 DEF UpsampleError
  <2> QED BY <2>1, ConcludedUpward
<1>3. CASE ~(e + 1 >= UpErrors)
  <2>1. UpsampleError(b) = NextUpPoll([o EXCEPT !.uperrs = e + 1])
    BY <1>1, <1>3, <1>4 DEF UpsampleError
  <2> QED BY <1>1, <2>1, NextUpPollUpward
<1> QED BY <1>2, <1>3

LEMMA UpPollFine ==
  ASSUME Inv, NEW r \in Requests,
         \/ UpsamplePending(r) \/ UpsampleLost(r)
         \/ \E checked \in BOOLEAN : UpsamplePollFails(r, checked)
         \/ \E found \in BOOLEAN : UpsampleReady(r, found)
  PROVE  Fine
<1>1. req[r] \in States /\ req[r].uperrs + 1 \in Nat
  BY InvFacts DEF States
<1>2. req[r].pc = "uppoll" /\ \E q : Polled(r, q) /\ Upward(req[r], q)
  <2>1. CASE UpsamplePending(r)
    BY <1>1, <2>1, NextUpPollUpward DEF UpsamplePending
  <2>2. ASSUME NEW checked \in BOOLEAN, UpsamplePollFails(r, checked)
        PROVE  req[r].pc = "uppoll" /\ \E q : Polled(r, q) /\ Upward(req[r], q)
    <3> DEFINE e == IF checked THEN 0 ELSE req[r].uperrs
    <3>1. req[r].uperrs \in Nat /\ e \in Nat
      BY <1>1 DEF States
    <3>2. req[r].pc = "uppoll" /\ Polled(r, UpsampleError([req[r] EXCEPT !.uperrs = e]))
      BY <2>2 DEF UpsamplePollFails
    <3> HIDE DEF e
    <3> QED BY <1>1, <3>1, <3>2, UpsampleErrorUpward
  <2>3. CASE UpsampleLost(r)
    BY <1>1, <2>3, ConcludedUpward DEF UpsampleLost
  <2>4. ASSUME NEW found \in BOOLEAN, UpsampleReady(r, found)
        PROVE  req[r].pc = "uppoll" /\ \E q : Polled(r, q) /\ Upward(req[r], q)
    <3> DEFINE url == IF found THEN "upsampled" ELSE "missing"
    <3>1. url \in {"upsampled", "missing"}
      OBVIOUS
    <3>2. req[r].pc = "uppoll" /\ Polled(r, [Concluded(req[r]) EXCEPT !.url = url])
      BY <2>4 DEF UpsampleReady
    <3> QED BY <1>1, <3>1, <3>2, ConcludedUpward
  <2> QED BY <2>1, <2>2, <2>3, <2>4
<1>3. PICK q : Polled(r, q) /\ Upward(req[r], q)
  BY <1>2
<1>4. /\ Kept(q, task[r], answers[r], refused[r])
      /\ q.sid = req[r].sid /\ q.pc \in {"uppoll", "finalize"}
  <2>1. ASSUME NEW k \in Nat, NEW m \in Nat, q = [req[r] EXCEPT !.upoll = k, !.uperrs = m]
        PROVE  /\ Kept(q, task[r], answers[r], refused[r])
               /\ q.sid = req[r].sid /\ q.pc \in {"uppoll", "finalize"}
    <3>1. Kept(q, task[r], answers[r], refused[r])
      BY <1>2, <2>1, InvFacts, UpPollKeeps
    <3>2. q.sid = req[r].sid /\ q.pc = "uppoll"
      BY <1>1, <1>2, <2>1 DEF States
    <3> QED BY <3>1, <3>2
  <2>2. ASSUME NEW url \in {req[r].url, "upsampled", "missing"}, NEW m \in Nat,
               q = [req[r] EXCEPT !.pc = "finalize", !.inner = TRUE, !.url = url, !.uperrs = m]
        PROVE  /\ Kept(q, task[r], answers[r], refused[r])
               /\ q.sid = req[r].sid /\ q.pc \in {"uppoll", "finalize"}
    <3>1. Kept(q, task[r], answers[r], refused[r])
      BY <1>2, <2>2, InvFacts, ConcludedKeeps
    <3>2. q.sid = req[r].sid /\ q.pc = "finalize"
      BY <1>1, <2>2 DEF States
    <3> QED BY <3>1, <3>2
  <2> QED BY <1>3, <2>1, <2>2 DEF Upward
<1> QED BY <1>3, <1>4, PolledFine

-----------------------------------------------------------------------------
(* Refused writes and departures.                                          *)
LEMMA RefusedFine ==
  ASSUME Inv, NEW r \in Requests, NEW q, NEW a \in Seq(Words), Put(r, q), Refuse(r),
         Kept(q, task[r], a, refused[r] + 1), q.sid = req[r].sid, q.pc # "solve",
         answers' = [answers EXCEPT ![r] = a]
  PROVE  Fine
<1>1. OthersStay(r) /\ req'[r] = q
  BY InvFacts, PutMoves DEF Kept
<1>2. /\ refused' = [refused EXCEPT ![r] = refused[r] + 1] /\ refusals > 0
      /\ refusals' = refusals - 1
      /\ UNCHANGED <<scene, shots, task, leaves>> /\ NoCaptcha
  BY DEF Refuse
<1>3. refused' \in [Requests -> Nat] /\ refusals' \in Nat
  <2>1. refused[r] + 1 \in Nat /\ refusals \in Nat /\ refused \in [Requests -> Nat]
    BY InvFacts DEF RestTyped
  <2> QED BY <1>2, <2>1
<1>4. RestTyped /\ RestTyped' /\ scene' = scene
  BY <1>2, <1>3, InvFacts DEF RestTyped, NoCaptcha
<1>5. /\ task'[r] = task[r] /\ answers'[r] = a /\ refused'[r] = refused[r] + 1
      /\ \A x \in Requests \ {r} : /\ task'[x] = task[x] /\ answers'[x] = answers[x]
                                   /\ refused'[x] = refused[x]
  BY <1>2, <1>4 DEF RestTyped
<1>6. Facts(q, task'[r], answers'[r], refused'[r])
  BY <1>5 DEF Kept
<1>7. /\ r \in sessions' => r \in excused' \/ q.sid
      /\ q.sid => scene.method = "remote_browser"
      /\ sessions' \subseteq sessions \cup {r} /\ excused \subseteq excused'
  BY <1>2, InvFacts DEF NoCaptcha, Inv, SessionsFinished
<1> QED BY <1>1, <1>4, <1>5, <1>6, <1>7, MoveFine

LEMMA RefuseFine ==
  ASSUME Inv, NEW r \in Requests, Refuse(r)
  PROVE  Fine
<1>1. /\ req[r] \in States /\ answers[r] \in Seq(Words)
      /\ Kept(req[r], task[r], answers[r], refused[r]) /\ refused[r] \in Nat
      /\ answers = [answers EXCEPT ![r] = answers[r]]
  BY InvFacts DEF RestTyped
<1>2. \A pc \in Pcs : At(req[r], pc).sid = req[r].sid /\ At(req[r], pc).pc = pc
  BY <1>1 DEF At, States
<1>3. CASE req[r].pc = "failtask"
  <2> DEFINE q == At(req[r], "blame")
             a == Append(answers[r], "failure")
  <2>1. Put(r, q) /\ answers' = [answers EXCEPT ![r] = a]
    BY <1>3 DEF Refuse, Answer
  <2>2. a \in Seq(Words)
    BY <1>1 DEF Words
  <2>3. Kept(q, task[r], a, refused[r] + 1)
    BY <1>1, <1>3, RefusedFailTaskKeeps
  <2>4. q.sid = req[r].sid /\ q.pc # "solve"
    BY <1>2 DEF Pcs
  <2> HIDE DEF q, a
  <2> QED BY <2>1, <2>2, <2>3, <2>4, RefusedFine
<1>4. CASE req[r].pc = "finalize" /\ req[r].inner
  <2> DEFINE q == [req[r] EXCEPT !.inner = FALSE]
  <2>1. Put(r, q) /\ UNCHANGED answers
    BY <1>4 DEF Refuse
  <2>2. Kept(q, task[r], answers[r], refused[r] + 1)
    BY <1>1, <1>4, RefusedFinalizeKeeps
  <2>3. q.sid = req[r].sid /\ q.pc = "finalize"
    BY <1>1, <1>4 DEF States
  <2> HIDE DEF q
  <2> QED BY <1>1, <2>1, <2>2, <2>3, RefusedFine
<1>5. CASE req[r].pc = "finalize" /\ ~req[r].inner
  <2>1. Put(r, PollError(req[r])) /\ UNCHANGED answers
    BY <1>5 DEF Refuse
  <2>2. PICK pc \in {"poll", "failtask"}, k \in Nat, m \in Nat :
          PollError(req[r]) = [req[r] EXCEPT !.pc = pc, !.poll = k, !.errs = m]
    BY <1>1, PollErrorOnward DEF Onward
  <2> DEFINE q == [req[r] EXCEPT !.pc = pc, !.poll = k, !.errs = m]
  <2>3. Kept(q, task[r], answers[r], refused[r] + 1)
    BY <1>1, <1>5, RefusedPollKeeps
  <2>4. q.sid = req[r].sid /\ q.pc = pc
    BY <1>1 DEF States
  <2> QED BY <1>1, <2>1, <2>2, <2>3, <2>4, RefusedFine
<1>6. CASE req[r].pc \in {"record", "usage", "blame"}
  <2>1. Put(r, At(req[r], "fail")) /\ UNCHANGED answers
    BY <1>6 DEF Refuse
  <2>2. Kept(At(req[r], "fail"), task[r], answers[r], refused[r] + 1)
    BY <1>1, <1>6, RefusedKeeps
  <2> QED BY <1>1, <1>2, <2>1, <2>2, RefusedFine DEF Pcs
<1>7. CASE req[r].pc = "fail"
  <2>1. Put(r, At(req[r], "done")) /\ UNCHANGED answers
    BY <1>7 DEF Refuse
  <2>2. Kept(At(req[r], "done"), task[r], answers[r], refused[r] + 1)
    BY <1>1, <1>7, RefusedFailKeeps
  <2> QED BY <1>1, <1>2, <2>1, <2>2, RefusedFine DEF Pcs
<1>8. req[r].pc \in {"failtask", "finalize", "record", "usage", "blame", "fail"}
  BY DEF Refuse
<1> QED BY <1>3, <1>4, <1>5, <1>6, <1>7, <1>8

LEMMA LeaveFine ==
  ASSUME Inv, NEW r \in Requests, Leave(r)
  PROVE  Fine
<1> DEFINE o == req[r]
           inside == o.pc \in {"browser", "http", "urllib", "pause"}
           stays == /\ scene.method = "remote_browser"
                    /\ o.pc = "solve" \/ (o.pc \in {"progress", "finish"} /\ o.sid)
           q == IF inside THEN [Gone(o) EXCEPT !.pc = "finish", !.after = "leave"]
                ELSE [Gone(o) EXCEPT !.pc = "done", !.after = "none", !.sid = FALSE]
<1>1. /\ o \in States /\ Kept(o, task[r], answers[r], refused[r]) /\ refused[r] \in Nat
      /\ o.sid => o.pc \in SessionPcs /\ scene.method = "remote_browser"
      /\ req \in [Requests -> States] /\ RestTyped
  BY InvFacts
<1>2. Gone(o).pc = o.pc /\ Gone(o).sid = o.sid /\ Gone(o).after = o.after /\ Gone(o) \in States
  BY <1>1 DEF Gone, States
<1>3. /\ leaves > 0 /\ leaves' = leaves - 1 /\ o.pc \notin {"new", "done"}
      /\ Put(r, q)
      /\ sessions' = IF stays THEN sessions \cup {r} ELSE sessions
      /\ excused' = IF stays THEN excused \cup {r} ELSE excused
      /\ UNCHANGED <<scene, cooling, refusals>> /\ Told
  BY <1>2 DEF Leave, Gone
<1>4. Kept(q, task[r], answers[r], refused[r])
  <2>1. CASE inside
    BY <1>1, <2>1, LeaveCallKeeps
  <2>2. CASE ~inside
    BY <1>1, <1>3, <2>2, LeaveKeeps
  <2> QED BY <2>1, <2>2
<1>5. IF inside THEN q.pc = "finish" /\ q.sid = o.sid ELSE q.pc = "done" /\ q.sid = FALSE
  BY <1>2 DEF States
<1> HIDE DEF q
<1>6. OthersStay(r) /\ req'[r] = q
  BY <1>1, <1>3, <1>4, PutMoves DEF Kept
<1>7. shots' \in [Requests -> [1..MaxInputs -> 0..Landed]]
  <2>1. shots' = [shots EXCEPT ![r] =
                   [i \in 1..MaxInputs |-> IF Gone(o).pc = "upload" THEN Landed
                                           ELSE shots[r][i]]]
    BY DEF Leave, Gone
  <2>2. Landed \in 0..Landed
    BY LandedType
  <2>3. shots \in [Requests -> [1..MaxInputs -> 0..Landed]]
    BY <1>1 DEF RestTyped
  <2> QED BY <2>1, <2>2, <2>3
<1>8. RestTyped'
  <2>1. leaves' \in Nat
    BY <1>1, <1>3 DEF RestTyped
  <2>2. sessions' \subseteq Requests /\ excused' \subseteq Requests
    BY <1>1, <1>3 DEF RestTyped
  <2> QED BY <1>1, <1>3, <1>7, <2>1, <2>2 DEF RestTyped, Told
<1>9. r \in sessions' => r \in excused' \/ q.sid
  <2>1. r \in sessions => r \in excused \/ o.sid
    BY DEF Inv, SessionsFinished
  <2>2. o.sid => inside \/ stays
    BY <1>1 DEF SessionPcs
  <2> QED BY <1>3, <1>5, <2>1, <2>2
<1>10. /\ sessions' \subseteq sessions \cup {r} /\ excused \subseteq excused'
       /\ q.sid => scene.method = "remote_browser"
       /\ q.pc # "solve"
  BY <1>1, <1>3, <1>5
<1>11. /\ Facts(q, task'[r], answers'[r], refused'[r])
       /\ \A x \in Requests \ {r} : /\ task'[x] = task[x] /\ answers'[x] = answers[x]
                                    /\ refused'[x] = refused[x]
  BY <1>3, <1>4 DEF Kept, Told
<1> QED BY <1>3, <1>6, <1>8, <1>9, <1>10, <1>11, MoveFine

LEMMA StillFine ==
  ASSUME Inv, UNCHANGED <<req, sessions, excused, scene, task, answers, refused>>, RestTyped'
  PROVE  Fine
<1>1. TypeOK'
  BY DEF Inv, TypeOK, RestTyped, Statuses, Words
<1>2. FactsInv' /\ SessionsFinished' /\ MethodFits'
  BY DEF Inv, FactsInv, SessionsFinished, MethodFits
<1> QED BY <1>1, <1>2 DEF Fine, Inv, Heeded

LEMMA IdleFine ==
  ASSUME Inv, UNCHANGED vars \/ \E p \in Projects : Elapse(p)
  PROVE  Fine
<1>1. RestTyped
  BY TypeParts DEF Inv
<1>2. CASE UNCHANGED vars
  BY <1>1, <1>2, StillFine DEF vars, RestTyped
<1>3. ASSUME NEW p \in Projects, Elapse(p) PROVE Fine
  <2>1. cooling' \in [Projects -> BOOLEAN]
    BY <1>1, <1>3 DEF Elapse, RestTyped
  <2>2. RestTyped'
    BY <1>1, <1>3, <2>1 DEF RestTyped, Elapse, Told, Outside
  <2> QED BY <1>3, <2>2, StillFine DEF Elapse, Told, Outside
<1> QED BY <1>2, <1>3

LEMMA NextFine ==
  ASSUME Inv, [Next]_vars
  PROVE  Fine
<1>1. ASSUME NEW r \in Requests, Prepare(r) PROVE Fine
  BY <1>1, UploadFine, ResolveFine, StartFine DEF Prepare
<1>2. ASSUME NEW r \in Requests, Attempt(r) PROVE Fine
  BY <1>2, CooldownFine, SolvedFine, ProgressFine, NoTokenFine, SendFine, PauseFine, FinishFine
  DEF Attempt
<1>3. ASSUME NEW r \in Requests, Conclude(r) PROVE Fine
  BY <1>3, ImageFine, PollReadyFine, UpsampledFine, UpAcceptedFine, UpPollFine, DeclinedFine,
     AnswerFine, RecordFine, PollFine
  DEF Conclude
<1> QED BY <1>1, <1>2, <1>3, BeginFine, RefuseFine, LeaveFine, IdleFine DEF Next, Step

LEMMA InitInv == Init => Inv
<1> SUFFICES ASSUME Init PROVE Inv
  OBVIOUS
<1> DEFINE p == CHOOSE x \in Projects : TRUE
<1>1. p \in Projects
  BY NamesAssumption
<1> HIDE DEF p
<1>2. /\ MaxInputs \in Nat /\ NoDemand \in Demands
  BY BoundsAssumption DEF NoDemand, Demands, Kinds
<1>3. Fresh(NoDemand, p) \in States
  BY <1>1, <1>2 DEF Fresh, States, Pcs, Calls, Errors
<1>4. \A r \in Requests : req[r] = Fresh(NoDemand, p) /\ task[r] = "none" /\ answers[r] = <<>>
                          /\ refused[r] = 0
  BY DEF Init, p
<1>5. TypeOK
  <2>1. scene \in Scenes /\ scene.leaves \in Nat /\ scene.refusals \in Nat
    BY ScenesAssumption DEF Init
  <2>2. req \in [Requests -> States]
    BY <1>3 DEF Init, p
  <2>3. shots \in [Requests -> [1..MaxInputs -> 0..Landed]]
    BY LandedType DEF Init
  <2> QED BY <2>1, <2>2, <2>3 DEF Init, TypeOK
<1>6. FactsInv
  <2> SUFFICES ASSUME NEW r \in Requests PROVE Facts(req[r], "none", <<>>, 0)
    BY <1>4 DEF FactsInv
  <2>1. /\ req[r].pc = "new" /\ req[r].call = "none" /\ req[r].after = "none"
        /\ req[r].gone = FALSE /\ req[r].sid = FALSE /\ req[r].url = "none"
        /\ req[r].mains = 0 /\ req[r].ups = 0
    BY <1>4 DEF Fresh
  <2>2. ~Says(<<>>, "success") /\ ~Says(<<>>, "hollow") /\ Len(<<>>) = 0
    BY DEF Says
  <2> USE DEF Closing, CallPcs, InMain, InUpsample, Early
  <2>3. KindFits(req[r]) /\ EndFits(req[r]) /\ SidFits(req[r])
    BY <2>1 DEF KindFits, EndFits, SidFits, ImagePcs, VideoPcs
  <2>4. RowFits(req[r], "none", <<>>) /\ AnswerFits(req[r], "none", <<>>, 0)
    BY <2>1, <2>2 DEF RowFits, Polling, AnswerFits, SaysDone
  <2>5. UrlFits(req[r], <<>>, 0) /\ JobsFit(req[r], 0) /\ DropFits(req[r], <<>>)
    BY <2>1, <2>2 DEF UrlFits, JobsFit, DropFits
  <2> QED BY <2>3, <2>4, <2>5 DEF Facts
<1>7. SessionsFinished /\ MethodFits
  BY <1>4 DEF Init, SessionsFinished, MethodFits, Fresh
<1> QED BY <1>5, <1>6, <1>7 DEF Inv

THEOREM Invariance == Spec => []Inv
<1>1. Inv /\ [Next]_vars => Inv'
  BY NextFine DEF Fine
<1> QED BY InitInv, <1>1, PTL DEF Spec

-----------------------------------------------------------------------------
(* Every variable keeps its type, whatever the upstream, the captcha       *)
(* service, the database and the clients do.                               *)
THEOREM TypeCorrect == Spec => []TypeOK
<1>1. Inv => TypeOK
  BY DEF Inv
<1> QED BY Invariance, <1>1, PTL

(* A client is answered once, unless the database refuses to account for   *)
(* the outcome: the handler, the polling and the call have one answer      *)
(* between them.                                                           *)
THEOREM ClientsAnsweredOnce == Spec => []AnsweredOnce
<1>1. Inv => AnsweredOnce
  BY DEF Inv, FactsInv, Facts, AnswerFits, AnsweredOnce, Ended
<1> QED BY Invariance, <1>1, PTL

(* The row of a video agrees with what its client was told.                *)
THEOREM RowsTellAnswers == Spec => []TaskTellsAnswer
<1>1. Inv => TaskTellsAnswer
  BY DEF Inv, FactsInv, Facts, RowFits, AnswerFits, TaskTellsAnswer, Succeeded, SaysDone, Ended,
         Has, Says
<1> QED BY Invariance, <1>1, PTL

(* A request that has had an address ends with an answer that has one,     *)
(* whatever becomes of its upsample, unless a write was refused or the     *)
(* upsample was taken, completed and has no address; a success without an  *)
(* address is told in that last case only.                                 *)
THEOREM ProductsDelivered == Spec => []ProductDelivered
<1>1. Inv => ProductDelivered
  BY DEF Inv, FactsInv, Facts, UrlFits, DropFits, ProductDelivered, SourceDropped, Ended, Has, Says
<1> QED BY Invariance, <1>1, PTL

(* A request costs one generation and, but for refused writes, one upsample. *)
THEOREM JobsAreOrderedOnce == Spec => []JobsOrderedOnce
<1>1. Inv => JobsOrderedOnce
  BY DEF Inv, FactsInv, Facts, JobsFit, JobsOrderedOnce
<1> QED BY Invariance, <1>1, PTL

(* No session of the remote captcha service is left open but the excused.  *)
THEOREM SessionsAreFinished == Spec => []SessionsFinished
<1>1. Inv => SessionsFinished
  BY DEF Inv
<1> QED BY Invariance, <1>1, PTL

(* No token is asked for inside a cooldown, but by those who slept through *)
(* its renewal.                                                            *)
THEOREM CooldownsHeeded == Spec => CooldownHeeded
<1>1. Inv /\ [Next]_vars =>
        [\A r \in Requests :
            req'[r].pc = "solve" /\ req[r].pc # "solve" =>
                ~cooling[req[r].project] \/ req[r].wait = "past"]_vars
  BY NextFine DEF Fine, Heeded
<1> QED BY Invariance, <1>1, PTL DEF Spec, CooldownHeeded
=============================================================================
