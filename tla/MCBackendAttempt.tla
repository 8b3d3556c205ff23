-------------------------- MODULE MCBackendAttempt --------------------------
(***************************************************************************)
(* Two functions: one that only analysis finds, and an import, which has a *)
(* symbol but no code; --limit 1 or none; two calls of run_one.  One of    *)
(* the three Binary Ninja drivers, whose run() are alike, stands for all.  *)
(***************************************************************************)
EXTENDS BackendAttempt

CONSTANTS imported, static

MCFound == <<static, imported>>
MCExternal == {imported}
MCBackends == Kinds \ {"binja_mlil", "binja_llil"}
MCSymbols == <<imported>>
=============================================================================
