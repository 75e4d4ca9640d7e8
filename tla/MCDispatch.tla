------------------------------ MODULE MCDispatch ------------------------------
(***************************************************************************)
(* Instances of Dispatch for TLC: small fleets and the models asked for.   *)
(***************************************************************************)
EXTENDS Dispatch, TLC

Account(rank, fresh) ==
    [live |-> TRUE, active |-> TRUE, enabled |-> Kinds, rank |-> rank, credits |-> 1,
     mark |-> "none", snapshot |-> 0, fresh |-> fresh]

\* An id that no account has yet.
Absent == [Account(0, FALSE) EXCEPT !.live = FALSE, !.active = FALSE]

Fleet(accounts, limits, polls) ==
    [acct |-> accounts, limit |-> [kind \in Kinds |-> limits], polling |-> polls]

Pros == Fleet(<<Account(1, TRUE), Account(1, TRUE), Account(1, TRUE)>>, <<0, 0, 0>>, TRUE)

\* A limited Ult account beside a limited and an unlimited Pro account.
Mixed ==
    {Fleet(<<Account(2, TRUE), Account(1, TRUE), Absent>>, <<1, n, 0>>, FALSE) : n \in {0, 1}}

\* Every account needs its access token refreshed.
Stale ==
    Fleet(<<Account(1, FALSE), Account(1, FALSE), Absent>>, <<1, 1, 0>>, FALSE)

Fleets == Mixed \cup {Pros, Stale}

Single == {Fleet(<<Account(2, FALSE)>>, <<1>>, FALSE)}

Image(needs) == [kind |-> "image", edit |-> FALSE, needs |-> needs]
Video(edit) == [kind |-> "video", edit |-> edit, needs |-> 0]

AllDemands == {Image(1), Image(2), Video(FALSE), Video(TRUE)}
SomeDemands == {Image(1), Video(TRUE)}
Videos == {Video(FALSE), Video(TRUE)}

Symmetry == Permutations(Requests)
=============================================================================
