------------------------------ MODULE Incidents ------------------------------
(***************************************************************************)
(* What the operators are promised about one account: a failure is told    *)
(* once per incident, numbered by its episode, and a recovery only ends    *)
(* the incident that was told last.  The promise is suspended while there  *)
(* is a `doubt': a notice reached them and its record did not make it to   *)
(* the database, or two runners of the account crossed each other.         *)
(***************************************************************************)
EXTENDS Naturals

CONSTANT Codes            \* the failure codes of keepalive/models.py

VARIABLES heard,          \* the last notice that reached the operators
          doubt           \* why what they heard may differ from the record

vars == <<heard, doubt>>

Notices == [kind : {"failure", "recovery"}, code : Codes, episode : Nat]
Silence == [kind |-> "none", episode |-> 0]

Init == heard = Silence /\ doubt = "none"

Tell == heard' \in Notices /\ doubt' \in {"unrecorded", "crossed"}

(* A failure is news: its episode is later than everything told before.    *)
TellFailure == /\ Tell /\ heard'.kind = "failure"
               /\ doubt # "none" \/ heard'.episode > heard.episode

(* A recovery closes the incident the operators heard of.                  *)
TellRecovery == /\ Tell /\ heard'.kind = "recovery"
                /\ doubt # "none" \/ heard = [heard' EXCEPT !.kind = "failure"]

(* Records are written, read and overwritten: doubts come and go, but one  *)
(* about a notice comes with the notice.                                   *)
Record == /\ doubt' \in {"none", "unrecorded", "crossed"} /\ UNCHANGED heard
          /\ doubt = "none" => doubt' # "unrecorded"

Next == TellFailure \/ TellRecovery \/ Record

Spec == Init /\ [][Next]_vars
=============================================================================
