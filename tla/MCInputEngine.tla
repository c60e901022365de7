---------------------------- MODULE MCInputEngine ----------------------------
(***************************************************************************)
(* A small keyboard: a digit and a letter, which also stands for the space.*)
(* Readings of up to three characters are long enough for a cursor in the  *)
(* middle, pages of two for a second page, two notations for revealing     *)
(* more than one.                                                          *)
(***************************************************************************)
EXTENDS InputEngine

\* reply only records the last request and no action reads it, so two states
\* that differ in it alone have the same future.
SessionView == <<live, session>>

MCLetters == {2, 10}
MCCorrections == {<<10>>, <<10, 2>>}
=============================================================================
