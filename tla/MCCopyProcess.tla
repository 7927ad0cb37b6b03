--------------------------- MODULE MCCopyProcess ---------------------------
(* CopyProcess on small instances.  Of the flags clone refuses, one set for *)
(* each of its checks.                                                      *)
EXTENDS CopyProcess, TLC

CONSTANTS init, sh, p1, p2

Thread == {"VM", "FS", "FILES", "SIGHAND", "THREAD"}

MCSecondFlagSets == {Thread, {"VM", "SIGHAND", "FS"}, {"NEWNS"}}

MCCloneFlagSets ==
  MCSecondFlagSets \cup
  {{"NEWNS", "FS"}, {"NEWUSER", "FS"}, {"THREAD"}, {"SIGHAND", "THREAD"},
   (Thread \ {"FS"}) \cup {"NEWUSER"}}

MCUnshareFlagSets == {{"NEWNS", "FILES"}, {"NEWUSER"}, {"VM"}}

TaskSymmetry == Permutations(Tasks \ {FirstTask, SecondTask})

=============================================================================
