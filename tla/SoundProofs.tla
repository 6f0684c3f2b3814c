---------------------------- MODULE SoundProofs ----------------------------
(* Proofs about Sound, for every period and window length, every signal    *)
(* and any number of failed reads and detections.                          *)
EXTENDS Sound, SequenceTheorems, TLAPS

AfterWindow == {"tone", "time", "indices", "count", "store", "rest"}

(* While a window is being looked at, the period it ends in is not read to *)
(* its end; before, what is missing in the buffer was lost in a failure    *)
(* that no window has been spoiled by yet.                                 *)
Behind ==
  /\ pc \in AfterWindow => ~Partial
  /\ pc \notin AfterWindow => irxBuffer = nrxFrames \/ unfilled < failures

(* A tone that is being followed is one of the symbols                     *)
Followed == toneCount > 0 => prevSymbol \in Symbols

(* The n-th detection, or none                                             *)
Whole(n) == IF n = 0 THEN Detected(0, "none") ELSE Detected(n, log[n])

(* How far the publication of the last detection in log has come           *)
Published ==
  /\ pc \notin {"time", "indices", "count"} => detection = Whole(Len(log))
  /\ pc \in {"time", "indices", "count"} =>
       /\ log # <<>> /\ prevSymbol = log[Len(log)]
       /\ detection.count = Len(log) - 1
  /\ pc = "time" => detection = Whole(Len(log) - 1)
  /\ pc \in {"indices", "count"} => detection.symbol = prevSymbol
  /\ pc = "count" => detection.index = Len(log)

Taken == \E n \in 0 .. Len(log) : snapshot = Whole(n)

IInv == TypeOK /\ UnfilledBounded /\ Behind /\ Followed /\ Published /\ Taken

LEMMA InitInv == Init => IInv
<1> SUFFICES ASSUME Init PROVE IInv
  OBVIOUS
<1> USE SoundAssumption DEF Init, Detected
<1>1. TypeOK
  <2>1. <<>> \in Seq(Symbols) /\ 0 \in 0 .. SignalLength - 1
    BY DEF SignalLength
  <2>2. rxPauseCmd \in BOOLEAN /\ rxPaused \in BOOLEAN
    OBVIOUS
  <2>3. detection = [count |-> 0, symbol |-> "none", index |-> 0] /\ snapshot = detection
    OBVIOUS
  <2>4. nrxFrames \in 0 .. PFRAME - 1 /\ irxBuffer \in 0 .. nrxFrames
    OBVIOUS
  <2> QED
    BY <2>1, <2>2, <2>3, <2>4 DEF TypeOK
<1>2. UnfilledBounded /\ Behind /\ Followed
  BY DEF UnfilledBounded, Behind, AfterWindow, Followed
<1>3. Published /\ Taken
  <2>1. Len(log) = 0
    OBVIOUS
  <2> QED
    BY <2>1 DEF Published, Taken, Whole
<1> QED
  BY <1>1, <1>2, <1>3 DEF IInv

(* What check_tone does to the history                                     *)
LEMMA ToneLog ==
  ASSUME NEW s, CheckTone(s)
  PROVE  \/ log' = log
         \/ toneCount >= THRESHOLD_COUNT /\ log' = Append(log, prevSymbol)
  BY DEF CheckTone

LEMMA TypeStep == TypeOK /\ Behind /\ Followed /\ [Next]_vars => TypeOK' /\ Followed'
<1> SUFFICES ASSUME TypeOK, Behind, Followed, [Next]_vars PROVE TypeOK' /\ Followed'
  OBVIOUS
<1> USE SoundAssumption DEF TypeOK, Followed, SignalLength, vars, window, tone, shared,
        report, lua, count
<1>1. CASE Loop \/ Store
  <2>1. pc' \in {"pause", "resume", "rest"}
    BY <1>1, Zenon DEF Loop, Store
  <2>2. UNCHANGED <<window, tone, shared, rxPaused, report, lua, count>>
    BY <1>1, Zenon DEF Loop, Store
  <2> QED
    BY <2>2, <2>1
<1>2. CASE Pause
  BY <1>2 DEF Pause
<1>3. CASE Resume
  BY <1>3 DEF Resume
<1>4. CASE ReadPeriod
  <2>1. nrxFrames' \in 0 .. PFRAME - 1 /\ irxBuffer' \in 0 .. nrxFrames'
    BY <1>4 DEF ReadPeriod, Partial
  <2> QED
    BY <1>4, <2>1 DEF ReadPeriod
<1>5. CASE ReadEnough
  BY <1>5 DEF ReadEnough
<1>6. CASE ReadFails
  BY <1>6 DEF ReadFails
<1>7. CASE ReadRest
  <2>1. Rest \in 0 .. PFRAME - 1
    BY <1>7 DEF ReadRest, Rest, Missing, Behind, AfterWindow, Partial
  <2> QED
    BY <1>7, <2>1 DEF ReadRest
<1>8. ASSUME NEW s \in Audible, CheckTone(s) PROVE TypeOK' /\ Followed'
  <2>1. toneCount' \in 0 .. SignalLength - 1
    BY <1>8 DEF CheckTone
  <2>2. prevSymbol' \in Symbols \cup {"none"} /\ Followed'
    BY <1>8 DEF CheckTone, Heard, Audible
  <2>3. log' \in Seq(Symbols)
    <3>1. \/ log' = log
          \/ toneCount >= THRESHOLD_COUNT /\ log' = Append(log, prevSymbol)
      BY <1>8, ToneLog
    <3>2. toneCount >= THRESHOLD_COUNT => prevSymbol \in Symbols
      OBVIOUS
    <3> QED
      BY <3>1, <3>2, AppendProperties
  <2>4. pc' \in {"rest", "store", "time"}
    BY <1>8 DEF CheckTone
  <2>5. UNCHANGED <<window, shared, rxPaused, detection, lua, count>>
    BY <1>8, Zenon DEF CheckTone
  <2> QED
    BY <2>1, <2>2, <2>3, <2>4, <2>5
<1>9. CASE PublishSymbol
  BY <1>9 DEF PublishSymbol
<1>10. CASE PublishIndices
  <2>1. Len(log) \in Nat
    BY LenProperties
  <2> QED
    BY <1>10, <2>1 DEF PublishIndices
<1>11. CASE PublishCount
  <2>1. detection' = [detection EXCEPT !.count = detection.count + 1] /\ pc' = "rest"
    BY <1>11 DEF PublishCount
  <2>2. detection.count + 1 \in Nat /\ detection.index \in Nat
        /\ detection.symbol \in Symbols \cup {"none"}
    OBVIOUS
  <2>3. detection' = [count |-> detection.count + 1, symbol |-> detection.symbol,
                      index |-> detection.index]
    BY <2>1
  <2>4. detection' \in [count : Nat, symbol : Symbols \cup {"none"}, index : Nat]
    BY <2>2, <2>3
  <2>5. UNCHANGED <<window, tone, shared, rxPaused, log, lua, count>>
    BY <1>11 DEF PublishCount
  <2> QED
    BY <2>1, <2>4, <2>5
<1>12. CASE \E p \in BOOLEAN : SetPause(p)
  BY <1>12 DEF SetPause
<1>13. CASE \E s \in Symbols \cup {"any"} : SetSignalTone(s)
  BY <1>13 DEF SetSignalTone
<1>14. CASE GetDetection
  BY <1>14 DEF GetDetection
<1>15. CASE GetDebugPcm \/ DebugPcmRead
  BY <1>15 DEF GetDebugPcm, DebugPcmRead
<1>16. CASE UNCHANGED vars
  BY <1>16
<1> QED
  BY <1>1, <1>2, <1>3, <1>4, <1>5, <1>6, <1>7, <1>8, <1>9, <1>10,
     <1>11, <1>12, <1>13, <1>14, <1>15, <1>16
     DEF Next, Thread, Program

(* A failure leaves at most one window to be spoiled, and a spoiled window *)
(* is paid for when the rest of its period is read                         *)
LEMMA BehindStep ==
  TypeOK /\ UnfilledBounded /\ Behind /\ [Next]_vars => UnfilledBounded' /\ Behind'
<1> SUFFICES ASSUME TypeOK, UnfilledBounded, Behind, [Next]_vars
             PROVE  UnfilledBounded' /\ Behind'
  OBVIOUS
<1> USE SoundAssumption DEF TypeOK, UnfilledBounded, Behind, AfterWindow, Partial,
        vars, window, tone, shared, report, lua, count
<1>1. CASE Loop \/ Pause \/ Resume \/ Store
  BY <1>1 DEF Loop, Pause, Resume, Store
<1>2. CASE ReadPeriod
  BY <1>2 DEF ReadPeriod
<1>3. CASE ReadEnough
  BY <1>3 DEF ReadEnough, Missing
<1>4. CASE ReadFails
  BY <1>4 DEF ReadFails
<1>5. CASE ReadRest
  BY <1>5 DEF ReadRest
<1>6. ASSUME NEW s \in Audible, CheckTone(s) PROVE UnfilledBounded' /\ Behind'
  BY <1>6 DEF CheckTone
<1>7. CASE PublishSymbol \/ PublishIndices \/ PublishCount
  BY <1>7 DEF PublishSymbol, PublishIndices, PublishCount
<1>8. CASE Program
  BY <1>8 DEF Program, SetPause, SetSignalTone, GetDetection, GetDebugPcm, DebugPcmRead
<1>9. CASE UNCHANGED vars
  BY <1>9
<1> QED
  BY <1>1, <1>2, <1>3, <1>4, <1>5, <1>6, <1>7, <1>8, <1>9 DEF Next, Thread

(* A new detection does not change the ones before it                      *)
LEMMA WholeKept ==
  ASSUME NEW s \in Symbols, TypeOK, log' = Append(log, s), NEW n \in 0 .. Len(log)
  PROVE  Whole(n)' = Whole(n)
  BY DEF TypeOK, Whole, Detected

LEMMA PublishedStep ==
  TypeOK /\ Followed /\ Published /\ [Next]_vars => Published'
<1> SUFFICES ASSUME TypeOK, Followed, Published, [Next]_vars PROVE Published'
  OBVIOUS
<1> USE SoundAssumption DEF TypeOK, Followed, Published, vars, window, tone, shared, report, lua, count
<1>1. CASE Loop \/ Pause \/ Resume \/ Store
  BY <1>1 DEF Loop, Pause, Resume, Store, Whole, Detected
<1>2. CASE ReadPeriod \/ ReadEnough \/ ReadFails \/ ReadRest
  BY <1>2 DEF ReadPeriod, ReadEnough, ReadFails, ReadRest, Whole, Detected
<1>3. ASSUME NEW s \in Audible, CheckTone(s) PROVE Published'
  <2>1. CASE UNCHANGED log
    BY <1>3, <2>1 DEF CheckTone, Whole, Detected
  <2>2. CASE log' = Append(log, prevSymbol) /\ pc' = "time" /\ UNCHANGED prevSymbol
                  /\ toneCount >= THRESHOLD_COUNT
    <3>1. pc = "tone" /\ UNCHANGED detection
      BY <1>3 DEF CheckTone
    <3>2. prevSymbol \in Symbols
      BY <2>2
    <3>3. PICK k \in Nat : k = Len(log)
      BY LenProperties
    <3>4. Len(log') = k + 1 /\ log'[k + 1] = prevSymbol /\ log' # <<>>
      BY <2>2, <3>2, <3>3, AppendProperties
    <3>5. Whole(k)' = Whole(k) /\ detection = Whole(k)
      BY <2>2, <3>1, <3>2, <3>3, WholeKept
    <3>6. detection.count = k
      BY <3>5 DEF Whole, Detected
    <3>7. detection' = Whole(Len(log) - 1)'
      BY <3>1, <3>4, <3>5
    <3> QED
      BY <2>2, <3>1, <3>4, <3>6, <3>7
  <2> QED
    BY <1>3, <2>1, <2>2 DEF CheckTone
<1>4. CASE PublishSymbol
  BY <1>4 DEF PublishSymbol
<1>5. CASE PublishIndices
  BY <1>5 DEF PublishIndices
<1>6. CASE PublishCount
  BY <1>6 DEF PublishCount, Whole, Detected
<1>7. CASE Program
  BY <1>7 DEF Program, SetPause, SetSignalTone, GetDetection, GetDebugPcm,
     DebugPcmRead, Whole, Detected
<1>8. CASE UNCHANGED vars
  BY <1>8 DEF Whole, Detected
<1> QED
  BY <1>1, <1>2, <1>3, <1>4, <1>5, <1>6, <1>7, <1>8 DEF Next, Thread

(* Lua finds the mutex free and so the publication finished, or not begun  *)
LEMMA TakenStep ==
  TypeOK /\ Followed /\ Published /\ Taken /\ [Next]_vars => Taken'
<1> SUFFICES ASSUME TypeOK, Followed, Published, Taken, [Next]_vars PROVE Taken'
  OBVIOUS
<1> USE SoundAssumption
<1>1. PICK k \in Nat : k = Len(log)
  BY LenProperties DEF TypeOK
<1>2. PICK n \in 0 .. k : snapshot = Whole(n)
  BY <1>1 DEF Taken
<1>3. CASE log' = log /\ snapshot' = snapshot
  BY <1>1, <1>2, <1>3 DEF Taken, Whole, Detected
<1>4. CASE prevSymbol \in Symbols /\ log' = Append(log, prevSymbol) /\ snapshot' = snapshot
  <2>1. Len(log') = k + 1
    BY <1>1, <1>4, AppendProperties DEF TypeOK
  <2>2. Whole(n)' = Whole(n)
    BY <1>1, <1>4, WholeKept
  <2> QED
    BY <1>1, <1>2, <1>4, <2>1, <2>2 DEF Taken
<1>5. CASE GetDetection
  <2>1. log' = log /\ snapshot' = detection /\ pc \notin {"indices", "count"}
    BY <1>5 DEF GetDetection, Publishing, report
  <2>2. CASE pc # "time"
    <3>1. detection = Whole(k)
      BY <1>1, <2>1, <2>2 DEF Published
    <3> QED
      BY <1>1, <2>1, <3>1 DEF Taken, Whole, Detected
  <2>3. CASE pc = "time"
    <3>1. detection = Whole(k - 1) /\ k > 0
      BY <1>1, <2>3, EmptySeq DEF Published, TypeOK
    <3> QED
      BY <1>1, <2>1, <3>1 DEF Taken, Whole, Detected
  <2> QED
    BY <2>2, <2>3
<1>6. ASSUME NEW s \in Audible, CheckTone(s)
      PROVE  /\ \/ log' = log
                \/ prevSymbol \in Symbols /\ log' = Append(log, prevSymbol)
             /\ snapshot' = snapshot
  <2>1. snapshot' = snapshot
    BY <1>6 DEF CheckTone, lua
  <2>2. toneCount >= THRESHOLD_COUNT => prevSymbol \in Symbols
    BY DEF Followed, TypeOK, SignalLength
  <2> QED
    BY <1>6, <2>1, <2>2, ToneLog
<1>7. CASE /\ Thread /\ ~\E s \in Audible : CheckTone(s)
  BY <1>7, <1>3 DEF Thread, Loop, Pause, Resume, ReadPeriod, ReadEnough, ReadRest,
     ReadFails, PublishSymbol, PublishIndices, PublishCount, Store, report, lua
<1>8. CASE Program /\ ~GetDetection
  BY <1>8, <1>3 DEF Program, SetPause, SetSignalTone, GetDebugPcm, DebugPcmRead,
     report, lua
<1>9. CASE UNCHANGED vars
  BY <1>9, <1>3 DEF vars, report, lua
<1> QED
  BY <1>3, <1>4, <1>5, <1>6, <1>7, <1>8, <1>9 DEF Next

(* The invariant that makes the others inductive                           *)
THEOREM Inductive == Spec => []IInv
<1>1. Init => IInv
  BY InitInv
<1>2. IInv /\ [Next]_vars => IInv'
  BY TypeStep, BehindStep, PublishedStep, TakenStep DEF IInv
<1> QED
  BY <1>1, <1>2, PTL DEF Spec

(* Every variable has its type, for any period, window and signal length:  *)
(* the indices stay in the buffer and in the debugging array.              *)
THEOREM TypeCorrect == Spec => []TypeOK
<1>1. IInv => TypeOK
  BY DEF IInv
<1> QED
  BY Inductive, <1>1, PTL

(* However the reads fail (sound_comm_thread.cc:157), every failure spoils *)
(* at most one window.                                                     *)
THEOREM FailuresSpoilOneWindow == Spec => []UnfilledBounded
<1>1. IInv => UnfilledBounded
  BY DEF IInv
<1> QED
  BY Inductive, <1>1, PTL

(* What Lua's get_detection returns is one detection as it was published,  *)
(* however many there are.                                                 *)
THEOREM DetectionsWhole == Spec => []SnapshotWhole
<1>1. IInv => SnapshotWhole
  <2> SUFFICES ASSUME TypeOK, Taken PROVE SnapshotWhole
    BY DEF IInv
  <2>1. Len(log) \in Nat /\ DOMAIN log = 1 .. Len(log)
    BY LenProperties DEF TypeOK
  <2>2. PICK n \in 0 .. Len(log) : snapshot = Whole(n)
    BY DEF Taken
  <2>3. CASE n = 0
    BY <2>2, <2>3 DEF SnapshotWhole, Whole
  <2>4. CASE n # 0
    BY <2>1, <2>2, <2>4 DEF SnapshotWhole, Whole, Detected
  <2> QED
    BY <2>3, <2>4
<1> QED
  BY Inductive, <1>1, PTL

(* What the thread is about to read fits: the frames it asks for end in    *)
(* rx_buffer, also after a failed read has moved irxBuffer and not         *)
(* nrxFrames, and a window's last period always has a rest in 0 .. NFRAME  *)
(* for the next window.                                                    *)
ReadsFit ==
  /\ pc = "read" =>
       irxBuffer + (IF Partial THEN NFRAME ELSE Missing) <= PFRAME
  /\ pc = "rest" => Rest \in 0 .. NFRAME

(* No read of the thread (sound_comm_thread.cc:151, 179, 237) writes       *)
(* behind rx_buffer, for any NFRAME and PFRAME.                            *)
THEOREM BufferNeverOverrun == Spec => []ReadsFit
<1>1. IInv => ReadsFit
  BY SoundAssumption
     DEF IInv, TypeOK, Behind, AfterWindow, ReadsFit, Partial, Missing, Rest
<1> QED
  BY Inductive, <1>1, PTL
=============================================================================
