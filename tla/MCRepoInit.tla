----------------------------- MODULE MCRepoInit -----------------------------
(* A small instance of RepoInit, of which a behaviour is either: the race   *)
(* of all hosts, whose key files are stored; or one host alone with the     *)
(* operator, whose key file may not be.                                     *)
EXTENDS RepoInit

CONSTANTS Loner, LoneFaults

Lone == INSTANCE RepoInit WITH Faults <- LoneFaults

VARIABLE race
initVars == <<vars, race>>

RaceOrAlone == race \in BOOLEAN /\ Init

LoneProc == {Loner} \cup Operator
LoneNext ==
    \E p \in LoneProc :
        Lone!BeginBackup(p) \/ Lone!BeginUnlock(p) \/ Lone!Step(p) \/ Lone!Crash(p)

InitNext == (IF race THEN Next ELSE LoneNext) /\ UNCHANGED race

InitSpec ==
    /\ RaceOrAlone /\ [][InitNext]_initVars
    /\ \A p \in LoneProc : WF_initVars(~race /\ Lone!Step(p) /\ UNCHANGED race)
    /\ \A p \in Operator : WF_initVars(~race /\ Lone!BeginUnlock(p) /\ UNCHANGED race)

\* FailedInitLeavesNothing of RepoInit, for a host that is alone: a config that
\* could not be stored is not rolled back.
LoneInitLeavesNothing == ~race => FailedInitLeavesNothing

\* DeadLocksClear of RepoInit, for a host that is alone and whose backend answers
\* the operator.
LoneDeadLocksClear == ~race /\ lock.dead /\ Openable ~> ~lock.dead
=============================================================================
