-------------------------- MODULE MCBackupRestore ---------------------------
(* Archives of other hosts, with two credentials and without one, whose      *)
(* state file has the same path; the settings page may name another.         *)
(* Requests are interchangeable.                                             *)
EXTENDS BackupRestore, TLC

Complete == [config |-> [id |-> 1, statePath |-> "state.json", place |-> "elsewhere",
                         key |-> 1],
             credential |-> 1, users |-> [n \in Usernames |-> 1],
             history |-> 1, state |-> 1, whole |-> TRUE]
MCForeign == {Complete,
              [Complete EXCEPT !.credential = 2, !.config.key = 2],
              [Complete EXCEPT !.credential = Nothing, !.whole = FALSE]}
Interchangeable == Permutations(Admins)
=============================================================================
