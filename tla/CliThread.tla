----------------------------- MODULE CliThread -----------------------------
(***************************************************************************)
(* The CLI is one thread, the main one (Infra/main.c, Infra/cli.c): the    *)
(* command it is in, and what it waits for there, is one variable, shared  *)
(* by the modules of the components it commands.                           *)
(***************************************************************************)
VARIABLE
  cli          \* "idle", or what the CLI thread waits for or is doing
=============================================================================
