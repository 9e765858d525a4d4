---------------------------- MODULE MCFlowStore ----------------------------
(***************************************************************************)
(* Instances of FlowStore for TLC: VMs and outside peers are model values. *)
(***************************************************************************)
EXTENDS FlowStore, TLC

VMSymmetry == Permutations(VMs) 
=============================================================================
