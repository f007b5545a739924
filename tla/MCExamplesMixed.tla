-------------------------- MODULE MCExamplesMixed ---------------------------
(***************************************************************************)
(* A threaded example on builds for several accelerators.  The README lists *)
(* each CCL backend as available when one of its devices is built in, and  *)
(* detected devices are added to those the user asked for.                 *)
(***************************************************************************)
EXTENDS ExamplePrograms

MCBuilds ==
  {[devices |-> {"Cpu", "Metax", "Cambricon"}, backends |-> {"Mccl", "Cncl"}],
   [devices |-> {"Cpu", "Thead", "Cambricon"}, backends |-> {"Ompi", "Nccl"}]}

\* README.md: a CCL backend is available in a build with one of its devices,
\* so an example of an operation it has does not fail there
\* (Operation::Call(args) chooses the backend and the device apart).
AvailableWhereBuilt == exit = "failure" => ~MeantFor(program, build)
=============================================================================
