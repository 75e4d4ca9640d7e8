------------------------------ MODULE FileCache ------------------------------
(***************************************************************************)
(* The cache of generated media (shared/storage/file_cache.py): requests   *)
(* that ask for a file, the background clean-up, and operators who change  *)
(* the time a file is kept.  Coroutines meet only at the awaits: a         *)
(* clean-up pass and the command-line downloads run in one turn of the     *)
(* event loop.                                                             *)
(***************************************************************************)
EXTENDS Naturals, Sequences, SequencesExt

CONSTANTS Requests,       \* coroutines that may ask for a file
          Files,          \* cache names (a hash of the address)
          Presigned,      \* those whose address is a signed image address
          Timeouts,       \* values of default_timeout, 0 for no clean-up
          Oldest,         \* bound: ages are counted up to here
          NoFile          \* no file

ASSUME FileCacheAssumption ==
  /\ Presigned \subseteq Files /\ NoFile \notin Files \cup (0..Oldest)
  /\ Oldest \in Nat /\ \A t \in Timeouts : t \in Nat /\ t < Oldest

VARIABLES age,            \* age of a file (its mtime), NoFile when absent
          broken,         \* files a command-line tool left cut or wrong
          queue,          \* the lock of a name: its holder, then the waiters
          pc, file,       \* where a request stands, and with which file
          timeout,        \* default_timeout
          cleaner,        \* the clean-up task: off, on or being stopped
          overlapped      \* history: a setting came while it was stopping

cache == <<age, broken, queue, pc, file, timeout, cleaner, overlapped>>
media == <<age, broken>>
settings == <<timeout, cleaner, overlapped>>

Ages == (0..Oldest) \cup {NoFile}
Pcs == {"idle", "wait", "race", "fetch"}

FileCacheInit ==
  /\ age = [f \in Files |-> NoFile] /\ broken = {}
  /\ queue = [f \in Files |-> <<>>]
  /\ pc = [r \in Requests |-> "idle"] /\ file = [r \in Requests |-> NoFile]
  /\ timeout \in Timeouts
  /\ cleaner = (IF timeout > 0 THEN "on" ELSE "off") /\ overlapped = FALSE

Moves(r, label) == pc' = [pc EXCEPT ![r] = label] /\ UNCHANGED file

(* A request is through with its file, whatever the answer: the lock goes  *)
(* to the next in line.                                                    *)
Leave(r) == /\ \E i \in DOMAIN queue[file[r]] :
                 /\ queue[file[r]][i] = r
                 /\ queue' = [queue EXCEPT ![file[r]] = RemoveAt(@, i)]
            /\ pc' = [pc EXCEPT ![r] = "idle"] /\ file' = [file EXCEPT ![r] = NoFile]

(* A file written with the mtime of a file so old.                         *)
Write(f, old, good) == /\ age' = [age EXCEPT ![f] = old]
                       /\ broken' = IF good THEN broken \ {f} ELSE broken \cup {f}

(* A file unlinked.                                                        *)
Unlink(fs) == /\ age' = [f \in Files |-> IF f \in fs THEN NoFile ELSE age[f]]
              /\ broken' = broken \ fs

-----------------------------------------------------------------------------
(* download_and_cache *)

Ask(r, f) ==
  /\ pc[r] = "idle"
  /\ pc' = [pc EXCEPT ![r] = "wait"] /\ file' = [file EXCEPT ![r] = f]
  /\ queue' = [queue EXCEPT ![f] = Append(@, r)]
  /\ UNCHANGED <<media, settings>>

Entered(r) == pc[r] = "wait" /\ Head(queue[file[r]]) = r

Usable(f) == age[f] # NoFile /\ (timeout = 0 \/ age[f] < timeout)

(* Mutant: a hit renews the file.                                          *)
HitRenews(r) ==
  /\ Entered(r) /\ Usable(file[r]) /\ Leave(r)
  /\ age' = [age EXCEPT ![file[r]] = 0]
  /\ UNCHANGED <<broken, settings>>

(* The file is there and young enough, or nothing expires: its name is the *)
(* answer.                                                                 *)
Hit(r) == /\ Entered(r) /\ Usable(file[r]) /\ Leave(r)
          /\ UNCHANGED <<media, settings>>

(* Otherwise an expired copy is unlinked, if the system lets it, and the   *)
(* download begins.                                                        *)
Miss(r) == /\ Entered(r) /\ ~Usable(file[r])
           /\ Unlink({file[r]}) \/ UNCHANGED media
           /\ Moves(r, IF file[r] \in Presigned THEN "race" ELSE "fetch")
           /\ UNCHANGED <<queue, settings>>

(* Direct and proxied downloads of a signed image: the first that succeeds *)
(* is written to a temporary file and moved into place.                    *)
RaceWon(r) == /\ pc[r] = "race" /\ Write(file[r], 0, TRUE) /\ Leave(r)
              /\ UNCHANGED settings

RaceLost(r) == /\ pc[r] = "race" /\ Moves(r, "fetch")
               /\ UNCHANGED <<media, queue, settings>>

(* curl_cffi *)
Fetched(r) == /\ pc[r] = "fetch" /\ Write(file[r], 0, TRUE) /\ Leave(r)
              /\ UNCHANGED settings

(* It fails, and wget and then curl write the file in place: one of them   *)
(* is taken to have succeeded (curl also on an error page), or both fail,  *)
(* and what they wrote stays behind.  wget dates the file as the server    *)
(* does.                                                                   *)
ToolFetched(r) ==
  /\ pc[r] = "fetch"
  /\ \E old \in 0..Oldest, good \in BOOLEAN : Write(file[r], old, good)
  /\ Leave(r) /\ UNCHANGED settings

ToolsFail(r) == /\ pc[r] = "fetch" /\ Leave(r)
                /\ UNCHANGED <<media, settings>>

(* Mutant: the lock is not released by a cancelled download.               *)
CancelledLocked(r) ==
  /\ pc[r] # "idle"
  /\ pc' = [pc EXCEPT ![r] = "idle"] /\ file' = [file EXCEPT ![r] = NoFile]
  /\ UNCHANGED <<queue, media, settings>>

(* The client goes away while its request awaits.                          *)
Cancelled(r) == /\ pc[r] # "idle" /\ Leave(r)
                /\ UNCHANGED <<media, settings>>

-----------------------------------------------------------------------------
(* Time, the clean-up loop and the settings *)

Tick == /\ age' = [f \in Files |-> IF age[f] \in 0..(Oldest - 1) THEN age[f] + 1 ELSE age[f]]
        /\ UNCHANGED <<broken, queue, pc, file, settings>>

(* _cleanup_expired_files: one pass, without an await, which leaves a file *)
(* that cannot be unlinked.                                                *)
Expired == {f \in Files : age[f] # NoFile /\ age[f] > timeout}

CleanUp(fs) == /\ cleaner = "on" /\ timeout > 0
               /\ fs \subseteq Expired /\ Unlink(fs)
               /\ UNCHANGED <<queue, pc, file, settings>>

(* set_timeout and refresh_cleanup_task: with 0 the task is cancelled and  *)
(* awaited; otherwise it is started unless there is one, and one that is   *)
(* being stopped counts.                                                   *)
SetTimeout(t) ==
  /\ timeout' = t
  /\ cleaner' = CASE t = 0 /\ cleaner = "on" -> "stopping"
                  [] t > 0 /\ cleaner = "off" -> "on"
                  [] OTHER -> cleaner
  /\ overlapped' = (cleaner = "stopping")
  /\ UNCHANGED <<media, queue, pc, file>>

Stopped == /\ cleaner = "stopping" /\ cleaner' = "off"
           /\ UNCHANGED <<media, queue, pc, file, timeout, overlapped>>

Answer(r) == \/ Hit(r) \/ Miss(r) \/ RaceWon(r) \/ RaceLost(r)
             \/ Fetched(r) \/ ToolFetched(r) \/ ToolsFail(r)

FileCacheNext ==
  \/ \E r \in Requests : \/ \E f \in Files : Ask(r, f)
                         \/ Answer(r) \/ Cancelled(r)
  \/ Tick \/ \E fs \in SUBSET Files : CleanUp(fs)
  \/ Stopped \/ \E t \in Timeouts : SetTimeout(t)

(* An expired file is unlinked, by a request or by the loop.               *)
Dropped(f) == /\ CleanUp(Expired) \/ \E r \in Requests : Miss(r)
              /\ age[f] # NoFile /\ age'[f] = NoFile

(* Every download has a timeout, the loop wakes every five minutes, and    *)
(* the unlinks of a file do not fail for ever.                             *)
FileCacheFairness ==
  /\ \A r \in Requests : WF_cache(Answer(r))
  /\ WF_cache(Tick) /\ WF_cache(Stopped)
  /\ \A f \in Files : SF_cache(Dropped(f))

FileCacheSpec == FileCacheInit /\ [][FileCacheNext]_cache /\ FileCacheFairness

-----------------------------------------------------------------------------
FileCacheTypeOK ==
  /\ age \in [Files -> Ages] /\ broken \subseteq Files
  /\ \A f \in Files : /\ f \in broken => age[f] # NoFile
                      /\ IsInjective(queue[f])
                      /\ ToSet(queue[f]) = {r \in Requests : file[r] = f}
  /\ pc \in [Requests -> Pcs] /\ file \in [Requests -> Files \cup {NoFile}]
  /\ \A r \in Requests : pc[r] = "idle" <=> file[r] = NoFile
  /\ timeout \in Timeouts /\ cleaner \in {"on", "off", "stopping"}
  /\ overlapped \in BOOLEAN

Cleaning == timeout > 0 /\ ~overlapped

(* A file that a failed tool left cut, or an error page it saved, is       *)
(* served to every request that asks for it, but not for ever: once files  *)
(* expire and no two settings overlap, it goes, however often it is asked  *)
(* for.                                                                    *)
BrokenFilesGo ==
  <>[]Cleaning => \A f \in Files : [](f \in broken => <>(f \notin broken))

(* A request is answered, whoever holds or gives up the lock of its file.  *)
RequestsServed == \A r \in Requests : (pc[r] # "idle") ~> (pc[r] = "idle")
=============================================================================
