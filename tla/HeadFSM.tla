------------------------------ MODULE HeadFSM ------------------------------
(***************************************************************************)
(* The head machine: Player/HeadFSM/HeadFSM.lua.  Its states move the head *)
(* and return events; they change nothing the other machines read.  The    *)
(* coach's states, headLog, headLookGoal and headReadyLookGoal have no way *)
(* in and are left out.                                                    *)
(***************************************************************************)
EXTENDS Fsm

HeadTable ==
  [headIdle        |-> <<>>,
   headStart       |-> [done |-> "headTrack"],
   headReady       |-> [done |-> "headReady"],
   headTrack       |-> [lost |-> "headScanStill", timeout |-> "headSweep",
                        sweep |-> "headSweep", goalie |-> "headTrackGoalie"],
   headTrackGoalie |-> [lost |-> "headScanStill", player |-> "headTrack"],
   headKick        |-> [ballFar |-> "headTrack", ballLost |-> "headScanStill",
                        timeout |-> "headTrack"],
   headKickFollow  |-> [lost |-> "headScanStill", ball |-> "headTrack"],
   headSweep       |-> [done |-> "headTrack"],
   headScan        |-> [ball |-> "headTrack", timeout |-> "headScan"],
   headScanStill   |-> [ball |-> "headTrack", timeout |-> "headScanStill"]]

HeadStates == DOMAIN HeadTable

\* The events update() may return; a diving goalie tracks in a state of its own.
TrackEvents(divingGoalie) == IF divingGoalie THEN {"goalie"} ELSE {None, "lost"}
TrackGoalieEvents(divingGoalie) == IF divingGoalie THEN {None, "lost"} ELSE {"player"}
KickEvents == {None, "ballLost", "timeout"}
KickFollowEvents == {None, "ball", "lost"}
ReadyEvents == {None, "done"}
SweepEvents == {None, "done"}
ScanEvents == {None, "ball", "timeout"}
ScanStillEvents == {None, "ball", "timeout"}

HeadEvents(s, divingGoalie) ==
  CASE s = "headIdle" -> {None}
    [] s = "headStart" -> {"done"}
    [] s = "headReady" -> ReadyEvents
    [] s = "headSweep" -> SweepEvents
    [] s = "headTrack" -> TrackEvents(divingGoalie)
    [] s = "headTrackGoalie" -> TrackGoalieEvents(divingGoalie)
    [] s = "headKick" -> KickEvents
    [] s = "headKickFollow" -> KickFollowEvents
    [] s = "headScan" -> ScanEvents
    [] s = "headScanStill" -> ScanStillEvents
=============================================================================
