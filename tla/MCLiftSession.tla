--------------------------- MODULE MCLiftSession ---------------------------
(***************************************************************************)
(* Two jobs, and command lines that ask for both or for one of them; or    *)
(* one job, where kills leave orphans behind.                              *)
(***************************************************************************)
EXTENDS LiftSession

CONSTANTS a, b

MCJobs == {a, b}
MCScopes == {{a, b}, {a}}

MCOneJob == {a}
MCOneScope == {{a}}
=============================================================================
