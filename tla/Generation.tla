---------------------------- MODULE Generation -----------------------------
(***************************************************************************)
(* What a generation request does once it has an account: the pipelines of *)
(* GenerationHandler (generation_handler.py) and the calls of FlowClient   *)
(* (flow_client.py) that they are made of, from the uploads of the input   *)
(* images to the answer, with the captcha cooldown of each project, the    *)
(* remote captcha sessions and the rows of the tasks table.                *)
(*                                                                         *)
(* All calls that submit work share one loop: wait for the cooldown, get a *)
(* reCAPTCHA token, submit, and on an error that is worth it start again.  *)
(* What the upstream, the captcha service and the database answer is a     *)
(* choice of each step; a client may leave at any await.                   *)
(***************************************************************************)
EXTENDS Integers, Sequences, FiniteSets

CONSTANTS
    Requests,
    Projects,
    Scenes,      \* configurations, demands and faults to consider
    MaxInputs,   \* bound on the inputs of a request
    FrameMin,    \* min_images and max_images of the first/last frame models
    FrameMax,
    RefMax,      \* max_images of the reference models
    Retries,     \* flow_max_retries
    Sends,       \* flow_image_timeout_retry_count + 1
    Uploads,     \* tries of an upload after transient errors
    ShortUploads,\* and after the other errors worth a retry
    UpTries,     \* max_retries of an image upsample
    Polls,       \* max_poll_attempts
    UpFactor,    \* times that, for a video that will be upsampled
    PollErrors,  \* max_consecutive_poll_errors
    UpPolls,     \* ups_max
    UpErrors     \* consecutive errors that end the polling of an upsample

Kinds == {"image", "t2v", "i2v", "r2v", "edit"}

Demands == [kind : Kinds, inputs : 0..MaxInputs, up : BOOLEAN]

\* Errors by what the classifiers of flow/errors.py see in their text.
Errors == {"fatal", "busy", "captcha", "gateway", "reset", "hangup", "timeout"}

ASSUME NamesAssumption == IsFiniteSet(Requests) /\ Projects # {}
ASSUME BoundsAssumption ==
    /\ {MaxInputs, FrameMin, FrameMax, RefMax} \subseteq Nat
    /\ {Retries, Sends, Uploads, ShortUploads, UpTries, Polls, UpFactor, PollErrors,
        UpPolls, UpErrors} \subseteq Nat \ {0}
    /\ ShortUploads <= Uploads
ASSUME ScenesAssumption ==
    \A s \in Scenes :
        /\ s.crew \subseteq Requests
        /\ s.demands \subseteq Demands /\ s.errors \subseteq Errors
        /\ s.method \in {"personal", "remote_browser", "api"}
        /\ {s.submit, s.fallback, s.faulty} \subseteq BOOLEAN
        /\ s.leaves \in Nat /\ s.refusals \in Nat

VARIABLES
    scene,     \* configuration and faults of this behaviour
    req,       \* request -> where it is and what it holds
    shots,     \* request -> its uploads: tries under way, 0 before, Landed after
    cooling,   \* project -> whether its captcha cooldown runs
    sessions,  \* requests with an open session at the remote captcha service
    task,      \* request -> the status of its row in the tasks table
    answers,   \* history: request -> what its client was told, in order
    refused,   \* history: request -> writes of it that the database refused
    excused,   \* history: requests whose session nobody could finish
    leaves,    \* bound: clients that may still leave
    refusals   \* bound: writes that the database may still refuse

vars == <<scene, req, shots, cooling, sessions, task, answers, refused, excused,
          leaves, refusals>>

Pcs == {"new", "upload", "resolve", "submit", "cool", "waiting", "solve", "progress",
        "browser", "http", "urllib", "pause", "finish", "product", "upsample", "upsampled",
        "deliver", "accepted", "record", "poll", "upaccepted", "uppoll", "finalize",
        "failtask", "usage", "blame", "fail", "done"}

Calls == {"none", "generate_image", "generate_video_text", "generate_video_start_image",
          "generate_video_start_end", "generate_video_reference_images",
          "generate_video_edit", "upsample_image", "upsample_video"}

Upsamples == {"upsample_image", "upsample_video"}

States ==
    [pc : Pcs, demand : Demands, project : Projects, call : Calls, try : Nat, sends : Nat,
     outer : Nat, poll : Nat, errs : Nat, upoll : Nat, uperrs : Nat,
     err : Errors \cup {"none"}, after : {"none", "retry", "raise", "return", "leave"},
     wait : {"no", "current", "past"}, sid : BOOLEAN, inner : BOOLEAN, gone : BOOLEAN,
     url : {"none", "source", "upsampled", "missing"}, mains : Nat, ups : Nat]

Fresh(d, p) ==
    [pc |-> "new", demand |-> d, project |-> p, call |-> "none", try |-> 0, sends |-> 0,
     outer |-> 0, poll |-> 0, errs |-> 0, upoll |-> 0, uperrs |-> 0,
     err |-> "none", after |-> "none", wait |-> "no", sid |-> FALSE, inner |-> FALSE,
     gone |-> FALSE, url |-> "none", mains |-> 0, ups |-> 0]

NoDemand == [kind |-> "image", inputs |-> 0, up |-> FALSE]

Landed == Uploads + 1

\* What a client may be told; a hollow success is one whose address is None.
Words == {"success", "hollow", "failure"}

-----------------------------------------------------------------------------
(***************************************************************************)
(* flow/errors.py.  "busy" is a 403 or 429, "gateway" a 5xx whose text     *)
(* speaks of a timeout, "reset" a broken connection, "hangup" a timeout of *)
(* curl and "timeout" one of another client, "fatal" an error with none of *)
(* the keywords: an exhausted quota, a bad argument.                       *)
(***************************************************************************)
RetryReason(e) == e \in {"busy", "captcha", "gateway", "reset"}

IsTimeout(e) == e \in {"gateway", "hangup", "timeout"}

FallsBack(e) == e \in {"reset", "hangup"}

IsCaptchaRejection(e) == e = "captcha"

\* upload_image stays longer with errors that pass by themselves.
UploadTries(e) ==
    CASE IsTimeout(e) \/ e = "reset" -> Uploads
      [] RetryReason(e) /\ ~IsTimeout(e) /\ e # "reset" -> ShortUploads
      [] OTHER -> 1

-----------------------------------------------------------------------------
Put(r, q) == req' = [req EXCEPT ![r] = q]

At(q, pc) == [q EXCEPT !.pc = pc]

Answer(r, word) == answers' = [answers EXCEPT ![r] = Append(@, word)]

Told == UNCHANGED <<task, answers, refused>>

Outside == UNCHANGED <<scene, shots, leaves, refusals>>

\* What the upload, the handler and the polling steps leave alone.
NoCaptcha == UNCHANGED <<cooling, sessions, excused>>

Asleep(p) == {x \in Requests : req[x].wait = "current" /\ req[x].project = p}

\* A rejection or a success renews or drops the cooldown of the project; those who sleep
\* go by the delay they read.
Unsettle(r, q) ==
    req' = [x \in Requests |->
              IF x = r THEN q
              ELSE IF x \in Asleep(q.project) THEN [req[x] EXCEPT !.wait = "past"]
              ELSE req[x]]

-----------------------------------------------------------------------------
(***************************************************************************)
(* Before the first submission.                                            *)
(***************************************************************************)
Accepts(d) ==
    CASE d.kind = "i2v" -> FrameMin <= d.inputs /\ d.inputs <= FrameMax
      [] d.kind = "r2v" -> d.inputs <= RefMax
      [] d.kind = "edit" -> d.inputs = 1
      [] OTHER -> TRUE

\* Images to upload; text models ignore theirs and the input of an edit is a video.
Images(d) == IF d.kind \in {"t2v", "edit"} THEN 0 ELSE d.inputs

Begin(r, d, p) ==
    /\ req[r].pc = "new"
    /\ r \in scene.crew /\ d \in scene.demands
    /\ Put(r, At(Fresh(d, p),
                 IF ~Accepts(d) THEN "blame"
                 ELSE CASE d.kind = "edit" -> "resolve"
                        [] Images(d) > 0 -> "upload"
                        [] OTHER -> "submit"))
    /\ IF Accepts(d) THEN UNCHANGED answers ELSE Answer(r, "failure")
    /\ UNCHANGED <<task, refused>> /\ NoCaptcha /\ Outside

Flying(r) == {i \in 1..MaxInputs : shots[r][i] \in 1..Uploads}

\* Two uploads at a time for an image, one for a video.  Those of an image that wait for
\* their turn get it also when another has failed the request: gather cancels none.
UploadStart(r, i) ==
    LET d == req[r].demand
    IN  /\ req[r].pc = "upload" \/ (d.kind = "image" /\ \E j \in 1..MaxInputs : shots[r][j] # 0)
        /\ i <= Images(d) /\ shots[r][i] = 0
        /\ \A j \in 1..(i - 1) : shots[r][j] # 0
        /\ Cardinality(Flying(r)) < (IF d.kind = "image" THEN 2 ELSE 1)
        /\ shots' = [shots EXCEPT ![r][i] = 1]
        /\ UNCHANGED <<scene, req, leaves, refusals>> /\ Told /\ NoCaptcha

UploadDone(r, i) ==
    /\ i \in Flying(r)
    /\ shots' = [shots EXCEPT ![r][i] = Landed]
    /\ IF req[r].pc = "upload" /\ \A j \in 1..Images(req[r].demand) : shots'[r][j] = Landed
         THEN Put(r, At(req[r], "submit"))
         ELSE UNCHANGED req
    /\ UNCHANGED <<scene, leaves, refusals>> /\ Told /\ NoCaptcha

\* The first upload that gives up fails the request; gather leaves the others running.
UploadFails(r, i, e) ==
    /\ i \in Flying(r)
    /\ IF shots[r][i] < UploadTries(e)
         THEN /\ shots' = [shots EXCEPT ![r][i] = @ + 1]
              /\ UNCHANGED req
         ELSE /\ shots' = [shots EXCEPT ![r][i] = Landed]
              /\ IF req[r].pc = "upload" THEN Put(r, At(req[r], "fail")) ELSE UNCHANGED req
    /\ UNCHANGED <<scene, leaves, refusals>> /\ Told /\ NoCaptcha

\* The source video of an edit must be there, finished and complete.
Resolve(r, found) ==
    /\ req[r].pc = "resolve"
    /\ Put(r, At(req[r], IF found THEN "submit" ELSE "blame"))
    /\ IF found THEN UNCHANGED answers ELSE Answer(r, "failure")
    /\ UNCHANGED <<task, refused>> /\ NoCaptcha /\ Outside

-----------------------------------------------------------------------------
(***************************************************************************)
(* The calls.                                                              *)
(***************************************************************************)
StartCall(r, call) ==
    /\ Put(r, [req[r] EXCEPT !.pc = "cool", !.call = call, !.try = 0, !.sends = 0,
                             !.err = "none"])
    /\ Told /\ NoCaptcha /\ Outside

GenerateImage(r) ==
    req[r].pc = "submit" /\ req[r].demand.kind = "image" /\ StartCall(r, "generate_image")

GenerateVideoEdit(r) ==
    req[r].pc = "submit" /\ req[r].demand.kind = "edit" /\ StartCall(r, "generate_video_edit")

GenerateVideoStartEnd(r) ==
    /\ req[r].pc = "submit" /\ req[r].demand.kind = "i2v" /\ req[r].demand.inputs = 2
    /\ StartCall(r, "generate_video_start_end")

GenerateVideoStartImage(r) ==
    /\ req[r].pc = "submit" /\ req[r].demand.kind = "i2v" /\ req[r].demand.inputs = 1
    /\ StartCall(r, "generate_video_start_image")

GenerateVideoReferenceImages(r) ==
    /\ req[r].pc = "submit" /\ req[r].demand.kind = "r2v" /\ req[r].demand.inputs > 0
    /\ StartCall(r, "generate_video_reference_images")

\* Also a reference model without references.
GenerateVideoText(r) ==
    /\ req[r].pc = "submit"
    /\ req[r].demand.kind \in {"t2v", "i2v", "r2v"} /\ Images(req[r].demand) = 0
    /\ StartCall(r, "generate_video_text")

UpsampleImage(r) ==
    /\ req[r].pc = "upsample" /\ req[r].demand.kind = "image"
    /\ StartCall(r, "upsample_image")

UpsampleVideo(r) ==
    /\ req[r].pc = "upsample" /\ req[r].demand.kind # "image"
    /\ StartCall(r, "upsample_video")

-----------------------------------------------------------------------------
(***************************************************************************)
(* One attempt of a call.                                                  *)
(***************************************************************************)
\* Mutant of AwaitCooldown: retries do not wait.
AwaitCooldownOnce(r) ==
    /\ req[r].pc = "cool"
    /\ IF cooling[req[r].project] /\ req[r].try = 0
         THEN Put(r, [req[r] EXCEPT !.pc = "waiting", !.wait = "current"])
         ELSE Put(r, At(req[r], "solve"))
    /\ Told /\ NoCaptcha /\ Outside

AwaitCooldown(r) ==
    /\ req[r].pc = "cool"
    /\ IF cooling[req[r].project]
         THEN Put(r, [req[r] EXCEPT !.pc = "waiting", !.wait = "current"])
         ELSE Put(r, At(req[r], "solve"))
    /\ Told /\ NoCaptcha /\ Outside

\* The delay was read once: a cooldown renewed meanwhile does not lengthen it.
Wake(r) ==
    /\ req[r].pc = "waiting"
    /\ req[r].wait = "past" \/ ~cooling[req[r].project]
    /\ Put(r, [req[r] EXCEPT !.pc = "solve", !.wait = "no"])
    /\ Told /\ NoCaptcha /\ Outside

Elapse(p) ==
    /\ cooling[p]
    /\ cooling' = [cooling EXCEPT ![p] = FALSE]
    /\ UNCHANGED <<req, sessions, excused>> /\ Told /\ Outside

\* _should_submit_via_captcha_browser: where the token came from a tab of the pool.
Channel == IF scene.submit /\ scene.method = "personal" THEN "browser" ELSE "http"

Solved(r) ==
    /\ req[r].pc = "solve"
    /\ Put(r, [req[r] EXCEPT !.pc = IF req[r].call = "generate_image" THEN "progress"
                                    ELSE Channel,
                             !.sid = (scene.method = "remote_browser")])
    /\ sessions' = IF scene.method = "remote_browser" THEN sessions \cup {r} ELSE sessions
    /\ UNCHANGED <<cooling, excused>> /\ Told /\ Outside

\* _image_progress_callback, between the token and the try that finishes its session.
Progress(r) ==
    /\ req[r].pc = "progress"
    /\ Put(r, At(req[r], Channel))
    /\ Told /\ NoCaptcha /\ Outside

\* _handle_retryable_generation_error
Judged(q, e) ==
    IF RetryReason(e) /\ q.try < Retries - 1
      THEN [q EXCEPT !.pc = "pause", !.after = "retry", !.err = e]
      ELSE [q EXCEPT !.pc = "finish", !.after = "raise", !.err = e]

Reject(r, q, e) ==
    IF IsCaptchaRejection(e)
      THEN /\ cooling' = [cooling EXCEPT ![q.project] = TRUE]
           /\ Unsettle(r, Judged(q, e))
      ELSE Put(r, Judged(q, e)) /\ UNCHANGED cooling

\* No token: the service failed, or answered a session with a token that is none, which
\* leaves a session that nobody will finish.
NoToken(r, spoilt) ==
    /\ req[r].pc = "solve"
    /\ spoilt => scene.faulty /\ scene.method = "remote_browser"
    /\ Reject(r, [req[r] EXCEPT !.sid = FALSE], "captcha")
    /\ sessions' = IF spoilt THEN sessions \cup {r} ELSE sessions
    /\ excused' = IF spoilt THEN excused \cup {r} ELSE excused
    /\ Told /\ Outside

\* The upstream took the job and said so.
Taken(r) ==
    /\ cooling' = [cooling EXCEPT ![req[r].project] = FALSE]
    /\ LET up == req[r].call \in Upsamples
       IN  Unsettle(r, [req[r] EXCEPT !.pc = "finish", !.after = "return", !.err = "none",
                                      !.mains = IF up THEN @ ELSE @ + 1,
                                      !.ups = IF up THEN @ + 1 ELSE @])
    /\ UNCHANGED <<sessions, excused>> /\ Told /\ Outside

\* A send ended with an error: images are sent again, with the same token, on a timeout.
SendFails(r, e) ==
    /\ IF req[r].call = "generate_image" /\ IsTimeout(e) /\ req[r].sends < Sends - 1
         THEN /\ Put(r, [req[r] EXCEPT !.pc = Channel, !.sends = @ + 1])
              /\ UNCHANGED cooling
         ELSE Reject(r, req[r], e)
    /\ UNCHANGED <<sessions, excused>> /\ Told /\ Outside

Reroute(r, pc) == Put(r, At(req[r], pc)) /\ Told /\ NoCaptcha /\ Outside

SubmitFlowRequest(r) == req[r].pc = "browser" /\ Taken(r)

SubmitFlowRequestFails(r, e) ==
    /\ req[r].pc = "browser"
    /\ CASE scene.fallback -> Reroute(r, "http")
         [] ~scene.fallback /\ FallsBack(e) -> Reroute(r, "urllib")
         [] OTHER -> SendFails(r, e)

Post(r) == req[r].pc = "http" /\ Taken(r)

PostFails(r, e) ==
    /\ req[r].pc = "http"
    /\ IF FallsBack(e) THEN Reroute(r, "urllib") ELSE SendFails(r, e)

UrllibPost(r) == req[r].pc = "urllib" /\ Taken(r)

UrllibPostFails(r, e) == req[r].pc = "urllib" /\ SendFails(r, e)

Pause(r) == req[r].pc = "pause" /\ Reroute(r, "finish")

-----------------------------------------------------------------------------
(***************************************************************************)
(* The call ends, and the handler runs on.                                 *)
(***************************************************************************)
Retry(q) ==
    [q EXCEPT !.pc = "cool", !.try = @ + 1, !.sends = 0, !.sid = FALSE, !.after = "none"]

Returned(q) ==
    [q EXCEPT !.after = "none", !.sid = FALSE,
              !.pc = CASE q.call = "generate_image" -> "product"
                       [] q.call = "upsample_image" -> "upsampled"
                       [] q.call = "upsample_video" -> "upaccepted"
                       [] OTHER -> "accepted"]

\* Mutant of Raised: a failed upsample fails the request.
RaisedThrough(q) == [q EXCEPT !.after = "none", !.sid = FALSE, !.pc = "fail"]

\* An upsample that fails leaves the original to be delivered; an image gets two more tries
\* for an error worth it.
Raised(q) ==
    CASE q.call = "upsample_image" /\ RetryReason(q.err) /\ q.outer < UpTries - 1 ->
           [q EXCEPT !.after = "none", !.sid = FALSE, !.pc = "upsample", !.outer = @ + 1]
      [] q.call = "upsample_image" /\ ~(RetryReason(q.err) /\ q.outer < UpTries - 1) ->
           [q EXCEPT !.after = "none", !.sid = FALSE, !.pc = "deliver"]
      [] q.call = "upsample_video" ->
           [q EXCEPT !.after = "none", !.sid = FALSE, !.pc = "finalize"]
      [] OTHER -> [q EXCEPT !.after = "none", !.sid = FALSE, !.pc = "fail"]

Over(q) ==
    CASE q.after = "retry" -> Retry(q)
      [] q.after = "return" -> Returned(q)
      [] q.after = "raise" -> Raised(q)
      [] OTHER -> [q EXCEPT !.after = "none", !.sid = FALSE, !.pc = "done"]

\* Mutant of Finish: only a success finishes the session.
FinishReturned(r, heard) ==
    /\ req[r].pc = "finish"
    /\ ~heard => scene.faulty /\ req[r].sid
    /\ Put(r, Over(req[r]))
    /\ sessions' = IF req[r].sid /\ heard /\ r \notin excused /\ req[r].after = "return"
                     THEN sessions \ {r} ELSE sessions
    /\ excused' = IF heard THEN excused ELSE excused \cup {r}
    /\ UNCHANGED cooling /\ Told /\ Outside

\* finally: _notify_browser_captcha_request_finished, whose own failure is swallowed.
Finish(r, heard) ==
    /\ req[r].pc = "finish"
    /\ ~heard => scene.faulty /\ req[r].sid
    /\ Put(r, Over(req[r]))
    /\ sessions' = IF req[r].sid /\ heard /\ r \notin excused
                     THEN sessions \ {r} ELSE sessions
    /\ excused' = IF heard THEN excused ELSE excused \cup {r}
    /\ UNCHANGED cooling /\ Told /\ Outside

Handled == UNCHANGED refused /\ NoCaptcha /\ Outside

\* An error of the handler that is answered on the spot.
Decline(r) == Put(r, At(req[r], "blame")) /\ Answer(r, "failure") /\ UNCHANGED task /\ Handled

\* The reply of a generation has media with an address, or one to be asked for, or none.
ImageReady(r, named) ==
    /\ req[r].pc = "product"
    /\ Put(r, [req[r] EXCEPT !.url = "source", !.outer = 0,
                             !.pc = IF req[r].demand.up /\ named THEN "upsample" ELSE "deliver"])
    /\ UNCHANGED <<task, answers>> /\ Handled

ImageMissing(r) == req[r].pc = "product" /\ Decline(r)

\* Mutant of UpsampledImage: an empty reply is tried again.
UpsampledImageAgain(r, empty) ==
    /\ req[r].pc = "upsampled"
    /\ Put(r, IF empty /\ req[r].outer < UpTries - 1
                THEN [req[r] EXCEPT !.pc = "upsample", !.outer = @ + 1]
                ELSE [req[r] EXCEPT !.pc = "deliver", !.url = IF empty THEN @ ELSE "upsampled"])
    /\ UNCHANGED <<task, answers>> /\ Handled

UpsampledImage(r, empty) ==
    /\ req[r].pc = "upsampled"
    /\ Put(r, [req[r] EXCEPT !.pc = "deliver", !.url = IF empty THEN @ ELSE "upsampled"])
    /\ UNCHANGED <<task, answers>> /\ Handled

\* The answer of a success has the address the handler holds, whatever that is.
Success(r) == Answer(r, IF req[r].url = "missing" THEN "hollow" ELSE "success")

\* Caching never fails the request: the address upstream, or the data itself, will do.
DeliverImage(r) ==
    /\ req[r].pc = "deliver"
    /\ Put(r, At(req[r], "usage"))
    /\ Success(r)
    /\ UNCHANGED task /\ Handled

\* _normalize_video_submit_response found something to poll.
VideoAccepted(r) ==
    /\ req[r].pc = "accepted"
    /\ Put(r, At(req[r], "record"))
    /\ UNCHANGED <<task, answers>> /\ Handled

VideoUnusable(r) == req[r].pc = "accepted" /\ Decline(r)

CreateTask(r) ==
    /\ req[r].pc = "record"
    /\ Put(r, [req[r] EXCEPT !.pc = "poll", !.poll = 0, !.errs = 0])
    /\ task' = [task EXCEPT ![r] = "processing"]
    /\ UNCHANGED answers /\ Handled

-----------------------------------------------------------------------------
(***************************************************************************)
(* _poll_video_result                                                      *)
(***************************************************************************)
Limit(q) == IF q.demand.up THEN Polls * UpFactor ELSE Polls

\* Mutant of NextPoll: what has nothing to say does not count.
NextPollUncounted(q) == [q EXCEPT !.pc = "poll"]

NextPoll(q) ==
    [q EXCEPT !.pc = IF q.poll + 1 < Limit(q) THEN "poll" ELSE "failtask", !.poll = @ + 1]

PollError(q) ==
    IF q.errs + 1 >= PollErrors
      THEN [q EXCEPT !.pc = "failtask", !.errs = @ + 1]
      ELSE NextPoll([q EXCEPT !.errs = @ + 1])

Polled(r, q) == Put(r, q) /\ UNCHANGED <<task, answers>> /\ Handled

PollPending(r) == req[r].pc = "poll" /\ Polled(r, NextPoll([req[r] EXCEPT !.errs = 0]))

\* The status was not to be had; or it was, which ends the row of errors, and the address of
\* what it speaks of was not.
PollFails(r, checked) ==
    req[r].pc = "poll" /\ Polled(r, PollError([req[r] EXCEPT !.errs = IF checked THEN 0 ELSE @]))

\* FAILED, ERROR*, or finished with no address to be had.
PollLost(r) == req[r].pc = "poll" /\ Polled(r, [req[r] EXCEPT !.pc = "failtask", !.errs = 0])

PollReady(r, named) ==
    /\ req[r].pc = "poll"
    /\ Polled(r, [req[r] EXCEPT !.errs = 0, !.url = "source", !.inner = FALSE,
                                !.pc = IF req[r].demand.up /\ named THEN "upsample"
                                       ELSE "finalize"])

UpsampleAccepted(r, usable) ==
    /\ req[r].pc = "upaccepted"
    /\ Polled(r, IF usable
                   THEN [req[r] EXCEPT !.pc = "uppoll", !.upoll = 0, !.uperrs = 0]
                   ELSE At(req[r], "finalize"))

\* What follows the upsample polling runs inside the try of the upsample.
Concluded(q) == [q EXCEPT !.pc = "finalize", !.inner = TRUE]

NextUpPoll(q) ==
    IF q.upoll + 1 < UpPolls THEN [q EXCEPT !.upoll = @ + 1] ELSE Concluded(q)

UpsamplePending(r) ==
    req[r].pc = "uppoll" /\ Polled(r, NextUpPoll([req[r] EXCEPT !.uperrs = 0]))

UpsampleError(q) ==
    IF q.uperrs + 1 >= UpErrors
      THEN Concluded(q)
      ELSE NextUpPoll([q EXCEPT !.uperrs = @ + 1])

UpsamplePollFails(r, checked) ==
    /\ req[r].pc = "uppoll"
    /\ Polled(r, UpsampleError([req[r] EXCEPT !.uperrs = IF checked THEN 0 ELSE @]))

\* FAILED, ERROR*, or finished without a media id: the source is what there is.
UpsampleLost(r) == req[r].pc = "uppoll" /\ Polled(r, Concluded(req[r]))

\* The address is taken as it comes: one that is not to be had replaces that of the source.
UpsampleReady(r, found) ==
    /\ req[r].pc = "uppoll"
    /\ Polled(r, [Concluded(req[r]) EXCEPT !.url = IF found THEN "upsampled" ELSE "missing"])

\* Mutant of Finalize: the client is answered and the row is not written.
FinalizeUnwritten(r) ==
    /\ req[r].pc = "finalize"
    /\ Put(r, At(req[r], "usage"))
    /\ Success(r)
    /\ UNCHANGED task /\ Handled

Finalize(r) ==
    /\ req[r].pc = "finalize"
    /\ Put(r, At(req[r], "usage"))
    /\ task' = [task EXCEPT ![r] = "completed"]
    /\ Success(r)
    /\ Handled

\* Mutant of FailTask: a status of its own for a video that took too long.
FailTaskLate(r) ==
    /\ req[r].pc = "failtask"
    /\ Put(r, At(req[r], "blame"))
    /\ task' = [task EXCEPT ![r] = IF req[r].errs = 0 THEN "timeout" ELSE "failed"]
    /\ Answer(r, "failure")
    /\ Handled

FailTask(r) ==
    /\ req[r].pc = "failtask"
    /\ Put(r, At(req[r], "blame"))
    /\ task' = [task EXCEPT ![r] = "failed"]
    /\ Answer(r, "failure")
    /\ Handled

-----------------------------------------------------------------------------
(***************************************************************************)
(* The end of handle_generation.                                           *)
(***************************************************************************)
\* record_usage and record_success after a success, _record_generation_error after a failure.
Account(r) ==
    /\ req[r].pc \in {"usage", "blame"}
    /\ Put(r, At(req[r], "done"))
    /\ UNCHANGED <<task, answers>> /\ Handled

\* Mutant of Fail: the answer is left to the caller.
FailSilently(r) ==
    /\ req[r].pc = "fail"
    /\ Put(r, At(req[r], "done"))
    /\ UNCHANGED <<task, answers>> /\ Handled

\* except Exception: account for the error and answer.
Fail(r) ==
    /\ req[r].pc = "fail"
    /\ Put(r, At(req[r], "done"))
    /\ Answer(r, "failure")
    /\ UNCHANGED task /\ Handled

\* The database refuses a write.  The status of a failed task is given up; the completion of
\* one is tried again, outside the try of the upsample or after the next poll; any other
\* refusal is an exception of the handler, and in its own except clause the end.
Refuse(r) ==
    /\ refusals > 0
    /\ refusals' = refusals - 1
    /\ refused' = [refused EXCEPT ![r] = @ + 1]
    /\ CASE req[r].pc = "failtask" -> Put(r, At(req[r], "blame")) /\ Answer(r, "failure")
         [] req[r].pc = "finalize" ->
              /\ Put(r, IF req[r].inner THEN [req[r] EXCEPT !.inner = FALSE] ELSE PollError(req[r]))
              /\ UNCHANGED answers
         [] req[r].pc \in {"record", "usage", "blame"} ->
              Put(r, At(req[r], "fail")) /\ UNCHANGED answers
         [] req[r].pc = "fail" -> Put(r, At(req[r], "done")) /\ UNCHANGED answers
         [] OTHER -> FALSE
    /\ UNCHANGED <<scene, shots, task, leaves>> /\ NoCaptcha

\* The client leaves.  Inside the try of a call the finally clause still runs; a session
\* that is being opened, or is not yet in that try, or is being finished stays behind.
Leave(r) ==
    LET q == [req[r] EXCEPT !.gone = TRUE, !.wait = "no"]
        stays == scene.method = "remote_browser"
                 /\ (q.pc = "solve" \/ (q.pc \in {"progress", "finish"} /\ q.sid))
    IN  /\ leaves > 0 /\ q.pc \notin {"new", "done"} /\ q.after # "leave"
        /\ leaves' = leaves - 1
        /\ Put(r, IF q.pc \in {"browser", "http", "urllib", "pause"}
                    THEN [q EXCEPT !.pc = "finish", !.after = "leave"]
                    ELSE [q EXCEPT !.pc = "done", !.after = "none", !.sid = FALSE])
        /\ shots' = [shots EXCEPT ![r] =
                       [i \in 1..MaxInputs |-> IF q.pc = "upload" THEN Landed ELSE @[i]]]
        /\ sessions' = IF stays THEN sessions \cup {r} ELSE sessions
        /\ excused' = IF stays THEN excused \cup {r} ELSE excused
        /\ UNCHANGED <<scene, cooling, refusals>> /\ Told

-----------------------------------------------------------------------------
Init ==
    /\ scene \in Scenes
    /\ req = [r \in Requests |-> Fresh(NoDemand, CHOOSE p \in Projects : TRUE)]
    /\ shots = [r \in Requests |-> [i \in 1..MaxInputs |-> 0]]
    /\ cooling = [p \in Projects |-> FALSE]
    /\ sessions = {}
    /\ task = [r \in Requests |-> "none"]
    /\ answers = [r \in Requests |-> <<>>]
    /\ refused = [r \in Requests |-> 0]
    /\ excused = {}
    /\ leaves = scene.leaves
    /\ refusals = scene.refusals

Prepare(r) ==
    \/ \E i \in 1..MaxInputs :
          \/ UploadStart(r, i) \/ UploadDone(r, i)
          \/ \E e \in scene.errors : UploadFails(r, i, e)
    \/ \E found \in BOOLEAN : Resolve(r, found)
    \/ GenerateImage(r) \/ GenerateVideoEdit(r) \/ GenerateVideoStartEnd(r)
    \/ GenerateVideoStartImage(r) \/ GenerateVideoReferenceImages(r) \/ GenerateVideoText(r)
    \/ UpsampleImage(r) \/ UpsampleVideo(r)

Attempt(r) ==
    \/ AwaitCooldown(r) \/ Wake(r) \/ Solved(r) \/ Progress(r)
    \/ \E spoilt \in BOOLEAN : NoToken(r, spoilt)
    \/ SubmitFlowRequest(r) \/ Post(r) \/ UrllibPost(r)
    \/ \E e \in scene.errors :
          SubmitFlowRequestFails(r, e) \/ PostFails(r, e) \/ UrllibPostFails(r, e)
    \/ Pause(r)
    \/ \E heard \in BOOLEAN : Finish(r, heard)

Conclude(r) ==
    \/ \E named \in BOOLEAN : ImageReady(r, named) \/ PollReady(r, named)
    \/ \E empty \in BOOLEAN : UpsampledImage(r, empty)
    \/ \E usable \in BOOLEAN : UpsampleAccepted(r, usable) \/ UpsampleReady(r, usable)
    \/ ImageMissing(r) \/ DeliverImage(r) \/ VideoAccepted(r) \/ VideoUnusable(r)
    \/ \E checked \in BOOLEAN : PollFails(r, checked) \/ UpsamplePollFails(r, checked)
    \/ CreateTask(r) \/ PollPending(r) \/ PollLost(r) \/ UpsamplePending(r) \/ UpsampleLost(r)
    \/ Finalize(r) \/ FailTask(r) \/ Account(r) \/ Fail(r)

Step(r) == Prepare(r) \/ Attempt(r) \/ Conclude(r)

Next ==
    \/ \E r \in Requests :
          \/ \E d \in Demands, p \in Projects : Begin(r, d, p)
          \/ Step(r) \/ Refuse(r) \/ Leave(r)
    \/ \E p \in Projects : Elapse(p)

Spec == Init /\ [][Next]_vars

\* Every await returns: the clients, the captcha service, the upstream and the sleeps all
\* have time limits.
FairSpec ==
    /\ Spec
    /\ \A r \in Requests : WF_vars(Step(r))
    /\ \A p \in Projects : WF_vars(Elapse(p))

-----------------------------------------------------------------------------
TypeOK ==
    /\ scene \in Scenes
    /\ req \in [Requests -> States]
    /\ shots \in [Requests -> [1..MaxInputs -> 0..Landed]]
    /\ cooling \in [Projects -> BOOLEAN]
    /\ sessions \subseteq Requests
    /\ task \in [Requests -> {"none", "processing", "completed", "failed"}]
    /\ answers \in [Requests -> Seq(Words)]
    /\ refused \in [Requests -> Nat]
    /\ excused \subseteq Requests
    /\ leaves \in Nat
    /\ refusals \in Nat

Ended(r) == req[r].pc = "done" /\ ~req[r].gone

Has(r, word) == \E i \in DOMAIN answers[r] : answers[r][i] = word

\* A client that stays is answered once, unless the database refuses to account for the
\* outcome: then a success may be followed by a failure, and a failure be left unsaid.
AnsweredOnce ==
    \A r \in Requests :
        refused[r] = 0 => /\ Len(answers[r]) <= 1
                          /\ Ended(r) => Len(answers[r]) = 1

Succeeded(r) == Has(r, "success") \/ Has(r, "hollow")

\* The row of a video says what its client was told, whichever of the polling, upsampling
\* and persisting steps failed on the way; it stays "processing" only for a client that left
\* or when the database refused to be told of the failure.
TaskTellsAnswer ==
    \A r \in Requests :
        /\ task[r] = "completed" => Succeeded(r)
        /\ task[r] = "failed" => Has(r, "failure") /\ ~Succeeded(r)
        /\ Succeeded(r) => task[r] \in {"none", "completed"}
        /\ Ended(r) /\ refused[r] = 0 => task[r] # "processing"

\* An upsample that was ordered and taken, and has no address, took the place of its source.
SourceDropped(r) == req[r].url = "missing" /\ req[r].ups > 0

\* Once a request has had the address of its product, a client that stays is answered with
\* an address: that of the source when the upsample is refused, fails, gets lost or takes too
\* long.  Excused are a refusal of the database, and a source dropped for an upsample without
\* an address: in that case, and in no other, a client is told a success that is hollow.
ProductDelivered ==
    \A r \in Requests :
        /\ Ended(r) /\ req[r].url # "none" /\ refused[r] = 0 =>
              Has(r, "success") \/ SourceDropped(r)
        /\ Has(r, "hollow") => SourceDropped(r)

\* A job that the upstream is known to have taken is not ordered again: a request costs one
\* generation, and one upsample unless the completion of its row is refused.
JobsOrderedOnce ==
    \A r \in Requests : req[r].mains <= 1 /\ req[r].ups <= 1 + refused[r]

\* Every remote captcha session is finished by the request that opened it, on errors, retries
\* and departures too, but for those its client left or the service spoilt at a bad moment.
SessionsFinished ==
    \A r \in sessions : r \in excused \/ req[r].sid

\* A request does not ask for a token inside a cooldown, except one that was renewed or
\* begun while it already slept through another.
CooldownHeeded ==
    [][\A r \in Requests :
          req'[r].pc = "solve" /\ req[r].pc # "solve" =>
              ~cooling[req[r].project] \/ req[r].wait = "past"]_vars

\* Every request comes to its end, however the upstream, the captcha service and the other
\* requests of its project behave.
RequestsEnd == <>[](\A r \in Requests : req[r].pc \in {"new", "done"})
=============================================================================
