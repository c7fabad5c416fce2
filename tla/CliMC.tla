------------------------------- MODULE CliMC -------------------------------
(* The instance of Cli for TLC: three runs that load at once, or one that    *)
(* takes two inputs.                                                         *)
EXTENDS Cli

CONSTANTS p1, p2, p3, c1, c2

\* A file with one of its members wrong or missing.
Files == {Whole(0)} \cup {[Whole(0) EXCEPT !.access = None],
                          [Whole(0) EXCEPT !.refresh = None],
                          [Whole(0) EXCEPT !.expires = Invalid]}
InitMC ==
  /\ Init /\ procs[This] = Fresh
  /\ IF lines = 0 THEN file \in Files /\ ~oneshot
     ELSE /\ file \in {None, Whole(0)}
          /\ \A p \in Processes \ {This} : procs[p].at = "done"
SpecMC == InitMC /\ [][Next]_vars /\ Fairness
============================================================================
