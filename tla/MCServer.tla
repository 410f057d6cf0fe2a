------------------------------ MODULE MCServer ------------------------------
(* Instances of Server for TLC.                                            *)
EXTENDS Server, TLC

CONSTANTS main, other, cwd, default, own, given, unset, empty

(* Passwords given, not given and empty; a retry limit that is refused.    *)
GivenOrNot ==
    {[NoConfig EXCEPT !.root_password = p] : p \in {Unset, Empty, given}}
        \cup {[NoConfig EXCEPT !.sessions_db_path = cwd, !.default_max_retries = 0]}
=============================================================================
