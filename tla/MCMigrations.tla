---------------------------- MODULE MCMigrations ----------------------------
(***************************************************************************)
(* Two processes and the two migrations of bin/tracker/migrations, with    *)
(* the objects of 001_initial.sql and 002_score_rank.sql.               *)
(***************************************************************************)
EXTENDS Migrations

TwoNames == <<"001_initial", "002_score_rank">>

TwoCreates ==
    [m \in {"001_initial", "002_score_rank"} |->
        IF m = "001_initial"
        THEN <<"matches", "idx_matches_block", "idx_matches_source", "cursor">>
        ELSE <<"matches.score", "matches.match_rank">>]
=============================================================================
