---------------------------- MODULE MCSvServer ----------------------------
(***************************************************************************)
(* Instances of SvServer and of the clock it reads: the constants are      *)
(* given in the configurations.                                            *)
(***************************************************************************)
EXTENDS SvServer, SendClock

\* The clock has no state: TLC evaluates the statement about it before it runs.
ASSUME ClockChecked == DeltaWithinASecond
=============================================================================
