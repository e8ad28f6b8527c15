------------------------------ MODULE MCReplay ------------------------------
(***************************************************************************)
(* Runs with up to three verdicts of two types, at the edges of the        *)
(* tolerance, with tools that overlap by none, a third, a half and all.    *)
(***************************************************************************)
EXTENDS Replay

Found(type, severity, confidence) ==
  [defect_type |-> type, severity |-> severity, confidence |-> confidence,
   recommended_action |-> "REVIEW_QUEUE"]

Clean == Found("no_defect", "NONE", 90)
High  == Found("stale_price", "HIGH", 90)
Low   == Found("stale_price", "LOW", 70)
Other == Found("wrong_wht", "HIGH", 60)

MCVerdicts ==
  {<< >>, << Clean >>, << High >>, << [High EXCEPT !.confidence = 70] >>,
   << [High EXCEPT !.confidence = 50] >>, << Low >>, << High, Low >>, << Low, Clean, High >>,
   << Other, High >>, << High, Other >>, << Clean, Other >>}

\* The floats are numbered from their exact values: 1000 to a percent, with
\* the error of the nearest float to a percentage in units of 2^-53 of a
\* percent.  0.9, 0.7, 0.6 and 0.5 are within a factor of two of each other,
\* so one minus another is exact: 0.9 - 0.7 exceeds the tolerance, the float
\* 0.2, and 0.7 - 0.5 does not.  (No two of the other confidences that the
\* instance compares differ, and their errors are left out.)
Float == [p \in Confidences |-> 1000 * p + CASE p = 90 -> 20
                                            [] p = 70 -> -40
                                            [] p = 60 -> -20
                                            [] p = 20 -> 10
                                            [] OTHER -> 0]
MCMinus == [p \in Confidences \X Confidences |->
              LET d == Float[p[1]] - Float[p[2]] IN IF d < 0 THEN -d ELSE d]
MCTolerance == Float[20]
MCOne == Float[100]

MCResults ==
  [verdicts : MCVerdicts, tools : {{1}, {1, 2}, {2, 3}}, converged : {TRUE}]
    \cup [verdicts : {<< DidNotConverge >>}, tools : {{}, {1}}, converged : {FALSE}]

MCDefects == {"stale_price", "wrong_wht"}
=============================================================================
