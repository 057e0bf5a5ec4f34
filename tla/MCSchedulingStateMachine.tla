---------------------- MODULE MCSchedulingStateMachine ----------------------
(* Five tasks over three addresses: chains of writers, readers that share,  *)
(* a reader between two writers, and two tasks with the same hash.          *)
EXTENDS SchedulingStateMachine

CONSTANTS a, b, c

MCQueue == {a, b, c}
MCTask == 1..5
MCKeys == << <<a, b>>, <<b, a, c>>, <<c, a>>, <<a, b>>, <<a, c>> >>
MCWrites == << {a}, {c}, {a}, {b}, {c} >>
MCHash == << "h1", "h2", "h3", "h4", "h2" >>
=============================================================================
