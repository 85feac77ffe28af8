---------------------------- MODULE MCCudaMiner ----------------------------
(***************************************************************************)
(* Instances of the CUDA miner for TLC.                                    *)
(***************************************************************************)
EXTENDS CudaMiner

CONSTANT gpu

OneWorker == {gpu}      (* nprocs = 1 in main-cuda.c                         *)
=============================================================================
