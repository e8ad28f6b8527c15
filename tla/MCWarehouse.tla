---------------------------- MODULE MCWarehouse -----------------------------
(***************************************************************************)
(* Two threads for Warehouse, and a build of three phases: the tables, the *)
(* walk, and what comes after it.                                          *)
(***************************************************************************)
EXTENDS Warehouse, TLC

CONSTANTS t1, t2, q1, q2

MCThreads  == {t1, t2}
MCQueries  == {q1, q2}
MCOneQuery == {q1}
MCPhases   == << "inputs", "walk", "postwalk" >>
MCSymmetry == Permutations(MCThreads)
=============================================================================
