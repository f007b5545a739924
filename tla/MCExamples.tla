----------------------------- MODULE MCExamples -----------------------------
(***************************************************************************)
(* All the examples on builds for one accelerator and for several, with    *)
(* one to three ranks, two calls to warm up and one that is measured.      *)
(***************************************************************************)
EXTENDS ExamplePrograms

Build(devices, backends) ==
  [devices |-> {"Cpu"} \cup devices, backends |-> backends]

MCBuilds ==
  {Build({}, {"Ompi"}),
   Build({"Nvidia"}, {"Nccl"}), Build({"Nvidia"}, {"Ompi", "Nccl"}),
   Build({"Metax"}, {"Mccl"}), Build({"Cambricon"}, {"Ompi", "Cncl"}),
   Build({"Ascend"}, {"Ompi", "Hccl"}),
   Build({"Thead", "Cambricon"}, {"Ompi", "Nccl"}),
   Build({"Cambricon", "Ascend"}, {"Cncl", "Hccl"}),
   Build({"Metax", "Cambricon"}, {"Mccl", "Cncl"})}
=============================================================================
