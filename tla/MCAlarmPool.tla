----------------------------- MODULE MCAlarmPool ----------------------------
(* An alarm pool shared by the two cores and by its own callbacks.         *)
EXTENDS AlarmPool, TLC

CONSTANTS c0, c1, cb, a1, a2, a3

NoRepeat == {0}
OneRepeat == {1}
BothRepeats == {-1, 0, 1}

AllAdds == {<<"add", TRUE>>, <<"add_forced", FALSE>>}
FiringAdds == {"add"} \X {TRUE}

AlarmsSwap == Permutations(Alarms)
=============================================================================
