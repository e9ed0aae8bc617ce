---- MODULE MCAppLifecycle ----
(* An instance of AppLifecycle: the repository's commands, hooks and drivers. *)
EXTENDS AppLifecycle

MCKeys == {"user", "a_load_cfg", "b_bootstrap", "close_connection_db", "print_log"}

\* A program's key that sorts before the application's own.
MCRank == [k \in MCKeys |->
  CASE k = "user" -> 0 [] k = "a_load_cfg" -> 1 [] k = "b_bootstrap" -> 2
    [] k = "close_connection_db" -> 3 [] k = "print_log" -> 4]
====
