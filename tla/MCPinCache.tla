----------------------------- MODULE MCPinCache -----------------------------
(***************************************************************************)
(* PinCache with two tasks that wait for locks on two pages, on machines   *)
(* with any of the disturbances but kernel preemption.                     *)
(***************************************************************************)
EXTENDS PinCache, TLC

CONSTANTS t1, t2, p1, p2, f1, f2, f3

OneTask == {t1}
TwoTasks == {t1, t2}
TwoPages == {p1, p2}
TwoFrames == {f1, f2}
ThreeFrames == {f1, f2, f3}
Symmetry == Permutations(Tasks) \cup Permutations(UserPages) \cup Permutations(Frames)

AnyFaults == SUBSET {"pin_sleeps", "pin_fails", "remaps"}
Preemptible == {{"preempt"}}
SleepingPins == {{"pin_sleeps"}}
FailingPins == {{"pin_fails"}}
Remapped == {{"remaps"}}
=============================================================================
