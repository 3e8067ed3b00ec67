---------------------------- MODULE UseCaseServer ----------------------------
(***************************************************************************)
(* A server of use-case services whole: the executor of requests over the  *)
(* schemas its applications publish.  BuiltSchemas and SelectionFits are   *)
(* what UseCaseExecutor's Buildable and Projects stand for.                *)
(***************************************************************************)
EXTENDS UseCaseExecutor, ComposeSchema

BuiltSchemas == {a \in DOMAIN App : ~Schema[a].failed}

-----------------------------------------------------------------------------
(* Properties *)

\* OneMeaning of the applications of a server.
RegistryOneMeaning ==
  pc = "create" => \A i \in DOMAIN world.apps : OneMeaning(world.apps[i])

FragmentsClosed ==
  pc = "create" => \A i \in DOMAIN world.apps : FragmentsAreClosed(world.apps[i])
=============================================================================
