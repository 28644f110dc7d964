---------------------------- MODULE MCMigrations ----------------------------
(* Small instances of Migrations: a current image, the first one, and one   *)
(* with a gap in its numbering.                                             *)
EXTENDS Migrations

\* {1, 2, 4, 5} lacks 3 and has enough files to look for a fourth.
GappedImages == {1..1, {1, 2, 4, 5}, 1..3}
=============================================================================
