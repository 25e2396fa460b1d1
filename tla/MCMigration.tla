----------------------------- MODULE MCMigration -----------------------------
(* Small instances of Migration for TLC; every constant is a number. *)
EXTENDS Migration
=============================================================================
