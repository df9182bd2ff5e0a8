------------------------------- MODULE Search -------------------------------
(***************************************************************************)
(* What the miner relies on when it calls a solver (Seal::try_cpu_mining,  *)
(* consensus/trex-pow/src/lib.rs) with the flag that block import shares:  *)
(* a search that has begun ends; it ends with a seal, and then the flag is *)
(* up, or with nothing; the flag, once raised by an import or by a thread  *)
(* of the solver, stays up until the next search begins.  With several     *)
(* threads the seal may be spoilt, that is, fail to verify.                *)
(*                                                                         *)
(* MiningNode uses a search, PollardRho (solve_dist) and ParallelSolver    *)
(* (solve_parallel) implement one.                                         *)
(***************************************************************************)
EXTENDS Naturals

CONSTANT Several   \* the solver has several threads

VARIABLES
    stage,   \* "idle", "running", or the seal it ended with
    flag,    \* the AtomicBool `found'
    life     \* how often the process was started again

searchVars == <<stage, flag, life>>

(* A solver by itself is running from the first; the miner calls it later. *)
SearchInit == stage \in {"idle", "running"} /\ flag = FALSE /\ life = 0

(* The search goes from one stage to another and leaves the flag at f.     *)
Goes(from, to, f) ==
    stage = from /\ stage' = to /\ flag' = f /\ UNCHANGED life

(* found.store(false), and the call.                                       *)
Begin == Goes("idle", "running", FALSE)

(* An import, or a thread of the solver that has a collision.              *)
Raise == Goes(stage, stage, TRUE)

Find == Goes("running", "found", TRUE)

Spoil == Several /\ Goes("running", "spoilt", TRUE)

(* The solver saw the flag, or its trails are used up.                     *)
GiveUp == Goes("running", "idle", flag)

(* The caller is done with the seal.                                       *)
Take == Goes("found", "idle", flag) \/ Goes("spoilt", "idle", flag)

(* The process is started again, with a new flag.                          *)
Abort == stage' = "idle" /\ flag' = FALSE /\ life' = life + 1

SearchNext == Begin \/ Raise \/ Find \/ Spoil \/ GiveUp \/ Take \/ Abort

SearchSpec == SearchInit /\ [][SearchNext]_searchVars

(* A search that has begun ends.                                           *)
SearchEnds == (stage = "running") ~> (stage # "running")

LiveSearch == SearchSpec /\ SearchEnds
=============================================================================
