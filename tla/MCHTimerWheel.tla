---------------------------- MODULE MCHTimerWheel ----------------------------
(* An instance of HTimerWheel for TLC: three levels, each slot of an upper    *)
(* one as long as the level below.                                          *)
EXTENDS HTimerWheel, TLC

ThreeLevels == <<4, 12, 24>>
SlotsPerLevel == <<3, 2, 2>>

TimerSymmetry == Permutations(Timer)
==============================================================================
