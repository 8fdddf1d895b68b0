------------------------------ MODULE MCStarts ------------------------------
(***************************************************************************)
(* Programs that their users start, and stop, in any order, for TLC: the   *)
(* servers of the ticket counter before their loops (CseStartup) and the   *)
(* station over FIFOs (FifoStation).  Which ones are started is chosen at  *)
(* the beginning.                                                          *)
(***************************************************************************)
EXTENDS CseStartup

CONSTANTS NTrains, NPlatforms, MayStop, MaxKills   \* of FifoStation

\* the users of train 1 and platform 1, T(1) and P(1), may stop and start them
FirstOnes == {<<"t", 1>>, <<"p", 1>>}

VARIABLES
    programs, at, made, fifo, open, revents, i, k, plat, ahead, arrivals, starts, kills

fifos == <<at, made, fifo, open, revents, i, k, plat, ahead, arrivals, starts, kills>>
allVars == <<programs, vars, fifos>>

F == INSTANCE FifoStation WITH pc <- at

ASSUME StationAssumption ==
    /\ NTrains \in Nat \ {0} /\ NPlatforms \in Nat \ {0}
    /\ MayStop \subseteq F!Programs /\ MaxKills \in Nat

InCounter == programs = "counter" /\ UNCHANGED <<programs, fifos>>
InStation == programs = "station" /\ UNCHANGED <<programs, vars>>

AllInit ==
    /\ programs \in {"counter", "station"} /\ Init /\ F!Init
    /\ programs = "counter" => made = {}

AllNext ==
    \/ InCounter /\ Next
    \/ InStation /\ F!Next

\* every program that runs proceeds; starting, typing and stopping is the users' choice
AllFairSpec ==
    /\ AllInit /\ [][AllNext]_allVars
    /\ \A p \in Procs : WF_allVars(InCounter /\ ProcStep(p))
    /\ WF_allVars(InStation /\ F!StationStep)
    /\ \A p \in F!Platforms : WF_allVars(InStation /\ F!PlatformStep(p))
    /\ \A t \in F!Trains : WF_allVars(InStation /\ F!TrainStep(t))

\* Of the ticket counter, whatever was started, failed and was started again: e has the
\* pid of the counter it talks to, and who has connected keeps its peer (CseStartup).
StartedRight == TypeOK /\ FreshPid /\ LinksStand
\* Of the station over FIFOs: a platform takes in at most one train before its
\* announcement, and a train arrives once at most for each time it was started.
RightArrivals == F!TypeOK /\ F!AtMostOneAhead /\ F!NoMoreThanAsked
\* Four running servers of the counter come to their loops or one of them ends, and a
\* train that is ready comes to a platform unless somebody is stopped or missing.
Proceeds ==
    \/ programs = "counter" /\ AllUp
    \/ programs = "station" /\ F!Ready(NTrains)
    ~>
    \/ programs = "counter" /\ (AllServing \/ ~AllUp)
    \/ programs = "station" /\ (arrivals[NTrains] > 0 \/ F!Excused)
=============================================================================
