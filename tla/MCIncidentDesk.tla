---------------------------- MODULE MCIncidentDesk ----------------------------
(***************************************************************************)
(* A small instance of IncidentDesk: two workers and two API processes.    *)
(***************************************************************************)
EXTENDS IncidentDesk, TLC

CONSTANTS c1, c2, d1, d2

\* Workers are alike, and so are API processes.
Alike == Permutations(Creator) \cup Permutations(Desk)

=============================================================================
