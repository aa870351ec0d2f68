------------------------------- MODULE LineTurns -------------------------------
(***************************************************************************)
(* What the two programs of pthreads problem 1 promise: the main thread    *)
(* and its child print Lines lines each, in turns, the main thread first.  *)
(***************************************************************************)
EXTENDS Naturals

CONSTANT Lines  \* lines each thread prints; 10 in both programs

VARIABLES main_lines, child_lines  \* lines printed so far

MainPrints ==
  /\ main_lines < Lines /\ main_lines = child_lines
  /\ main_lines' = main_lines + 1 /\ UNCHANGED child_lines

ChildPrints ==
  /\ main_lines = child_lines + 1
  /\ child_lines' = child_lines + 1 /\ UNCHANGED main_lines

Spec ==
  /\ main_lines = 0 /\ child_lines = 0
  /\ [][MainPrints \/ ChildPrints]_<<main_lines, child_lines>>
===============================================================================
