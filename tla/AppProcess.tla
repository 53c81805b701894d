------------------------------ MODULE AppProcess ------------------------------
(***************************************************************************)
(* The process goauld-injector works on, as far as its two commands share  *)
(* it.                                                                     *)
(***************************************************************************)
EXTENDS Naturals, FiniteSets

CONSTANTS
  Threads,      \* threads the app may have
  Main,         \* its main thread, which exists from the start
  MaxSignals    \* bound: signals that reach its threads

ASSUME AppAssumption == Main \in Threads /\ MaxSignals \in Nat
===============================================================================
