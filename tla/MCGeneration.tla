---------------------------- MODULE MCGeneration ----------------------------
(***************************************************************************)
(* Instances of Generation for TLC: configurations with their demands.     *)
(***************************************************************************)
EXTENDS Generation

CONSTANTS r1, r2

D(kind, inputs, up) == [kind |-> kind, inputs |-> inputs, up |-> up]

\* method, browser submission and its fallback, whether the remote service errs.
Scene(demands, errors, method, submit, fallback, faulty, left, refuse) ==
    [crew |-> {r1}, demands |-> demands, errors |-> errors, method |-> method, submit |-> submit,
     fallback |-> fallback, faulty |-> faulty, leaves |-> left, refusals |-> refuse]

\* Every error on every channel.
Channels ==
    {Scene({D("image", 0, TRUE)}, Errors, "personal", TRUE, f, FALSE, 0, 0) : f \in BOOLEAN}

\* Videos and images whose rows and accounts the database refuses to write.
Refused ==
    {Scene({D("t2v", 0, TRUE), D("image", 0, TRUE)}, {"busy"}, "api", FALSE, FALSE, FALSE, 0, 2)}

\* Sessions of the remote captcha service.
Remote ==
    {Scene({D("image", 0, TRUE), D("t2v", 0, TRUE)}, {"captcha", "timeout", "fatal"},
           "remote_browser", FALSE, FALSE, TRUE, 1, 0)}

\* Inputs of all kinds.
Inputs ==
    {Scene({D(k, n, FALSE) : k \in Kinds, n \in 0..3}, {"busy", "timeout", "fatal"},
           "api", FALSE, FALSE, FALSE, 1, 0)}

\* Two requests of one project that share its cooldown.
Shared ==
    {[s EXCEPT !.crew = {r1, r2}] : s \in
        {Scene({D("t2v", 0, FALSE)}, {"captcha", "fatal"}, "personal", FALSE, FALSE, FALSE, 1, 0)}}

AllScenes == Shared \cup Channels \cup Refused \cup Remote \cup Inputs

=============================================================================
