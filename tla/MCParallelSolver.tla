-------------------------- MODULE MCParallelSolver --------------------------
(* Instances of ParallelSolver for TLC.  Work w has the solutions 2w and   *)
(* 2w+1.  The works 1 -> 2 -> 3 -> 1 form a cycle that changes the         *)
(* solution each time round; 4 leads into it and 0 maps to itself, with    *)
(* the same solution.                                                      *)
EXTENDS ParallelSolver

MCWorks == 0..4
MCSols == 0..9
MCY == [s \in MCSols |-> s \div 2]
MCF == [w \in MCWorks |-> CASE w = 0 -> 0 [] w = 1 -> 2 [] w = 2 -> 3
                            [] w = 3 -> 1 [] w = 4 -> 3]
(* The work of the solution moves by as much as the hashed work does.      *)
MCStep == [p \in MCSols \X MCWorks |->
             LET s == p[1]
                 w == p[2]
                 y == (s \div 2 + MCF[w] + 5 - w) % 5
                 e == s % 2
             IN  2 * y + (IF w = 3 THEN 1 - e ELSE e)]
(* Every point but <<4, 3>> is distinguished.                              *)
MCPoints == {<<w, MCF[w]>> : w \in MCWorks \ {4}}
(* The trails of threads with one retry each: the first thread starts      *)
(* outside the cycle; the second is caught at work 0 and enters the cycle  *)
(* on its retry; the offset of a third wraps around to that of the first.  *)
(* The retry of the first draws with the seed of the second thread's first *)
(* try.                                                                    *)
MCStart == [s \in 0..3 |-> CASE s = 0 -> 8 [] s = 1 -> 0 [] s = 2 -> 3
                             [] s = 3 -> 8]
=============================================================================
