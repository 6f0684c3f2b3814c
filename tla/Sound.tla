------------------------------- MODULE Sound -------------------------------
(***************************************************************************)
(* The tone receiver of Lib/Platform/NaoV4/Sound: a thread                 *)
(* (sound_comm_thread.cc) cuts the microphone's periods of NFRAME frames   *)
(* into windows of PFRAME frames, listens for a signal tone followed by a  *)
(* number of chirps (dtmf.cc) and publishes what it detects under a mutex; *)
(* Lua (lua_Sound.cc) pauses and resumes it, chooses the tone and reads    *)
(* the detections from the thread of the robot's program.                  *)
(*                                                                         *)
(* The samples are left out: what a window sounds like is chosen freely.   *)
(* The part of the buffer below irxBuffer always holds consecutive frames, *)
(* the last of them the last one read, so a window is a stretch of sound   *)
(* exactly when it is filled up to its end; the rest is left from earlier  *)
(* windows.  Indices are in frames (irxBuffer / SAMPLES_PER_FRAME).  The   *)
(* transmitter thread is never started and the copies of the samples for   *)
(* debugging only matter for the lock they take.                           *)
(***************************************************************************)
EXTENDS Naturals, Sequences

CONSTANTS NFRAME, PFRAME,
          THRESHOLD_COUNT,      \* windows of tone in a signal
          NUM_CHIRP_COUNT,      \* windows of chirps after them
          Symbols,              \* TONE_SYMBOL
          MaxFailures,          \* bound on the reads that fail
          MaxDetections         \* bound on the signals played

ASSUME SoundAssumption ==
  /\ NFRAME \in Nat \ {0} /\ PFRAME \in Nat /\ NFRAME <= PFRAME
  /\ THRESHOLD_COUNT \in Nat \ {0} /\ NUM_CHIRP_COUNT \in Nat \ {0}
  /\ {"none", "any"} \cap Symbols = {}
  /\ MaxFailures \in Nat /\ MaxDetections \in Nat

VARIABLES
  pc,                       \* where the receiver thread is
  nrxFrames, irxBuffer,     \* its frames in the buffer, and where the next go
  toneCount, prevSymbol,    \* the statics of check_tone
  rxPauseCmd, rxPaused, signalTone,     \* shared with Lua, without a lock
  detection,                \* the last detection, under detectionMutex
  pcmDebugMutex,            \* who holds it
  snapshot,                 \* what Lua's last get_detection returned
  log,                      \* history: the symbols detected
  failures, unfilled        \* history: reads failed, windows not filled up

window == <<nrxFrames, irxBuffer>>
tone   == <<toneCount, prevSymbol>>
shared == <<rxPauseCmd, signalTone>>
report == <<detection, log>>
lua    == <<pcmDebugMutex, snapshot>>
count  == <<failures, unfilled>>
vars   == <<pc, window, tone, shared, rxPaused, report, lua, count>>

SignalLength == THRESHOLD_COUNT + NUM_CHIRP_COUNT
Detected(n, s) == [count |-> n, symbol |-> s, index |-> n]

(* sound_comm_thread_init *)
Init ==
  /\ pc = "loop"
  /\ nrxFrames = 0 /\ irxBuffer = 0
  /\ toneCount = 0 /\ prevSymbol = "none"
  /\ rxPauseCmd = FALSE /\ rxPaused = FALSE /\ signalTone = "any"
  /\ detection = Detected(0, "none") /\ snapshot = detection
  /\ pcmDebugMutex = "free"
  /\ log = <<>> /\ failures = 0 /\ unfilled = 0

-----------------------------------------------------------------------------
(* The receiver thread.                                                    *)
Loop ==
  /\ pc = "loop"
  /\ pc' = IF rxPauseCmd THEN "pause" ELSE "resume"
  /\ UNCHANGED <<window, tone, shared, rxPaused, report, lua, count>>

Pause ==
  /\ pc = "pause"
  /\ nrxFrames' = 0 /\ irxBuffer' = 0
  /\ rxPaused' = TRUE
  /\ pc' = "loop"
  /\ UNCHANGED <<tone, shared, report, lua, count>>

ResumeUnnoticed ==                \* mutant: rxPaused is never cleared
  /\ pc = "resume"
  /\ pc' = IF rxPaused THEN "loop" ELSE "read"
  /\ UNCHANGED <<window, tone, shared, rxPaused, report, lua, count>>

Resume ==
  /\ pc = "resume"
  /\ rxPaused' = FALSE
  /\ pc' = "read"
  /\ UNCHANGED <<window, tone, shared, report, lua, count>>

PartialUpTo == nrxFrames + NFRAME <= PFRAME      \* mutant
Partial == nrxFrames + NFRAME < PFRAME      \* all frames fit within buffer
Missing == PFRAME - nrxFrames
Rest    == NFRAME - Missing

(* An overrun, an error or a short read: the index is reset, the number of *)
(* frames is not                                                           *)
ReadFails ==
  /\ pc \in {"read", "rest"} /\ failures < MaxFailures
  /\ irxBuffer' = 0
  /\ failures' = failures + 1
  /\ pc' = "loop"
  /\ UNCHANGED <<nrxFrames, tone, shared, rxPaused, report, lua, unfilled>>

ReadPeriod ==
  /\ pc = "read" /\ Partial
  /\ nrxFrames' = nrxFrames + NFRAME
  /\ irxBuffer' = irxBuffer + NFRAME
  /\ pc' = "loop"
  /\ UNCHANGED <<tone, shared, rxPaused, report, lua, count>>

ReadEnough ==
  /\ pc = "read" /\ ~Partial
  /\ unfilled' = unfilled + (IF irxBuffer + Missing = PFRAME THEN 0 ELSE 1)
  /\ pc' = "tone"
  /\ UNCHANGED <<window, tone, shared, rxPaused, report, lua, failures>>

(* check_tone: s is the tone both ears hear in the window, if any.  Once   *)
(* the tone was heard long enough the windows are correlated with the      *)
(* chirps, whatever they hold.                                             *)
Heard(s) == s # "none" /\ signalTone \in {"any", s}

CheckTone(s) ==
  /\ pc = "tone"
  /\ \/ /\ toneCount < THRESHOLD_COUNT /\ ~Heard(s)
        /\ toneCount' = 0 /\ pc' = "rest"
        /\ UNCHANGED <<prevSymbol, log>>
     \/ /\ toneCount < THRESHOLD_COUNT /\ Heard(s)
        /\ toneCount = 0 \/ s # prevSymbol
        /\ toneCount' = 1 /\ prevSymbol' = s /\ pc' = "store"
        /\ UNCHANGED log
     \/ /\ toneCount < THRESHOLD_COUNT => Heard(s) /\ toneCount > 0 /\ s = prevSymbol
        /\ toneCount + 1 < SignalLength
        /\ toneCount' = toneCount + 1 /\ pc' = "store"
        /\ UNCHANGED <<prevSymbol, log>>
     \/ /\ toneCount >= THRESHOLD_COUNT /\ toneCount + 1 = SignalLength
        /\ toneCount' = 0 /\ pc' = "time"
        /\ log' = Append(log, prevSymbol)
        /\ UNCHANGED prevSymbol
  /\ UNCHANGED <<window, shared, rxPaused, detection, lua, count>>

(* The three steps of a publication; the thread holds detectionMutex when  *)
(* it is between two of them                                               *)
PublishSymbol ==
  /\ pc = "time"
  /\ detection' = [detection EXCEPT !.symbol = prevSymbol]
  /\ pc' = "indices"
  /\ UNCHANGED <<window, tone, shared, rxPaused, log, lua, count>>

PublishIndices ==
  /\ pc = "indices"
  /\ detection' = [detection EXCEPT !.index = Len(log)]
  /\ pc' = "count"
  /\ UNCHANGED <<window, tone, shared, rxPaused, log, lua, count>>

PublishCount ==
  /\ pc = "count"
  /\ detection' = [detection EXCEPT !.count = @ + 1]
  /\ pc' = "rest"
  /\ UNCHANGED <<window, tone, shared, rxPaused, log, lua, count>>

Publishing == pc \in {"indices", "count"}

(* The window is kept for debugging *)
Store ==
  /\ pc = "store" /\ pcmDebugMutex = "free"
  /\ pc' = "rest"
  /\ UNCHANGED <<window, tone, shared, rxPaused, report, lua, count>>

ReadRestBehind ==                 \* mutant: the index is left at the start
  /\ pc = "rest"
  /\ nrxFrames' = Rest /\ irxBuffer' = 0
  /\ pc' = "loop"
  /\ UNCHANGED <<tone, shared, rxPaused, report, lua, count>>

ReadRest ==
  /\ pc = "rest"
  /\ nrxFrames' = Rest /\ irxBuffer' = Rest
  /\ pc' = "loop"
  /\ UNCHANGED <<tone, shared, rxPaused, report, lua, count>>

-----------------------------------------------------------------------------
(* Lua.                                                                    *)
SetPause(p) ==
  /\ rxPauseCmd' = p
  /\ UNCHANGED <<pc, window, tone, rxPaused, signalTone, report, lua, count>>

SetSignalTone(s) ==
  /\ signalTone' = s
  /\ UNCHANGED <<pc, window, tone, rxPauseCmd, rxPaused, report, lua, count>>

GetDetectionUnlocked ==           \* mutant: the mutex is not taken
  /\ snapshot' = detection
  /\ UNCHANGED <<pc, window, tone, shared, rxPaused, report, pcmDebugMutex, count>>

GetDetection ==
  /\ ~Publishing
  /\ snapshot' = detection
  /\ UNCHANGED <<pc, window, tone, shared, rxPaused, report, pcmDebugMutex, count>>

GetDebugPcm ==
  /\ pcmDebugMutex = "free" /\ pcmDebugMutex' = "lua"
  /\ UNCHANGED <<pc, window, tone, shared, rxPaused, report, snapshot, count>>

DebugPcmRead ==
  /\ pcmDebugMutex = "lua" /\ pcmDebugMutex' = "free"
  /\ UNCHANGED <<pc, window, tone, shared, rxPaused, report, snapshot, count>>

-----------------------------------------------------------------------------
(* Tones are played until there were MaxDetections signals                 *)
Audible == IF Len(log) < MaxDetections THEN Symbols \cup {"none"} ELSE {"none"}

Thread ==
  \/ Loop \/ Pause \/ Resume
  \/ ReadPeriod \/ ReadEnough \/ ReadRest \/ ReadFails
  \/ \E s \in Audible : CheckTone(s)
  \/ PublishSymbol \/ PublishIndices \/ PublishCount
  \/ Store

Program ==
  \/ \E p \in BOOLEAN : SetPause(p)
  \/ \E s \in Symbols \cup {"any"} : SetSignalTone(s)
  \/ GetDetection \/ GetDebugPcm \/ DebugPcmRead

Next == Thread \/ Program

Spec == Init /\ [][Next]_vars

(* The thread runs, Lua leaves its critical section, and a call that keeps *)
(* finding the mutex free now and then gets it.                            *)
FairSpec == Spec /\ SF_vars(Thread) /\ WF_vars(DebugPcmRead)

-----------------------------------------------------------------------------
(***************************************************************************)
(*                               Properties                                *)
(***************************************************************************)
(* Every variable has its type; the indices stay in the buffer and in the  *)
(* debugging array of SignalLength windows.                                *)
TypeOK ==
  /\ pc \in {"loop", "pause", "resume", "read", "tone", "time", "indices",
             "count", "store", "rest"}
  /\ nrxFrames \in 0 .. PFRAME - 1 /\ irxBuffer \in 0 .. nrxFrames
  /\ toneCount \in 0 .. SignalLength - 1
  /\ prevSymbol \in Symbols \cup {"none"}
  /\ rxPauseCmd \in BOOLEAN /\ rxPaused \in BOOLEAN
  /\ signalTone \in Symbols \cup {"any"}
  /\ detection \in [count : Nat, symbol : Symbols \cup {"none"}, index : Nat]
  /\ snapshot \in [count : Nat, symbol : Symbols \cup {"none"}, index : Nat]
  /\ pcmDebugMutex \in {"free", "lua"}
  /\ log \in Seq(Symbols)
  /\ failures \in 0 .. MaxFailures /\ unfilled \in Nat

(* sound_comm_thread.cc:157, "reset rx buffer": a failed read resets       *)
(* irxBuffer and not nrxFrames, so the next window is handed to check_tone *)
(* before it is filled, with old sound behind the new.  It is the only     *)
(* one: no failure spoils more than one window.                            *)
UnfilledBounded == unfilled <= failures

(* What get_detection returns was published as a whole: the symbol and the *)
(* indices are those of the detection it counts, never a mixture.          *)
SnapshotWhole ==
  \/ snapshot = Detected(0, "none")
  \/ /\ snapshot.count \in DOMAIN log
     /\ snapshot = Detected(snapshot.count, log[snapshot.count])

(* pause_receiver and enable_receiver are heeded, however often the        *)
(* microphone failed and whatever Lua reads meanwhile: the thread ends up  *)
(* paused, or goes on cutting windows for ever.                            *)
ReceiverFollows ==
  /\ <>[]rxPauseCmd => <>[]rxPaused
  /\ <>[]~rxPauseCmd => []<>(pc = "tone")
=============================================================================
