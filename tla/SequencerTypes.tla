-------------------------- MODULE SequencerTypes --------------------------
(***************************************************************************)
(* Type correctness of the sequencer, for every grid and every setting.    *)
(***************************************************************************)
EXTENDS Sequencer, TLAPS

(* The grid is finite and its rows ask for a number of frames.             *)
LEMMA Grid == NLines \in Nat /\ Count \in [Lines -> Nat]
  BY SequencerAssumption DEF Lines

(***************************************************************************)
(* The event queue.                                                        *)
(***************************************************************************)

(* What is left of the queue when its head is taken is a queue. *)
LEMMA RestIsQueue ==
    ASSUME NEW q \in Seq(Events), q # <<>>
    PROVE  Tail(q) \in Seq(Events)
  OBVIOUS

(* Submitting an event gives a queue. *)
LEMMA SubmitOne ==
    ASSUME NEW q \in Seq(Events), NEW e \in Events
    PROVE  /\ q \o <<e>> \in Seq(Events)
           /\ Append(q, e) \in Seq(Events)
  OBVIOUS

(* Submitting nothing leaves the queue alone. *)
LEMMA SubmitNone ==
    ASSUME NEW q \in Seq(Events)
    PROVE  q \o <<>> = q
  OBVIOUS

(* What an entry handler submits: nothing or one event. *)
Submission == {<<>>} \cup {<<e>> : e \in Events}

(* A handler that submits at most one event keeps the type of the queue. *)
LEMMA ConsumeType ==
    ASSUME QueueType, queue # <<>>, NEW sub \in Submission, Consume(sub)
    PROVE  QueueType'
  BY RestIsQueue, SubmitOne, SubmitNone DEF QueueType, Consume, Rest, Submission

-----------------------------------------------------------------------------
(***************************************************************************)
(* The step, action by action.  What an entry handler submits is named     *)
(* sub; with it the queue is dealt with by ConsumeType.                    *)
(***************************************************************************)

(* A step keeps the types. *)
LEMMA TypeStep == TypeOK /\ [Next]_vars => TypeOK'
  <1> SUFFICES ASSUME TypeOK, [Next]_vars PROVE TypeOK'
    OBVIOUS
  <1>1. CASE EnterIdle
    <2>1. QueueType'
      BY <1>1, Zenon DEF TypeOK, QueueType, EnterIdle
    <2>2. StateType' /\ RunType' /\ OutsideType'
      BY <1>1 DEF TypeOK, StateType, RunType, OutsideType, EnterIdle, run, outside
    <2> QED BY <2>1, <2>2 DEF TypeOK
  <1>2. CASE OnStartSequence
    <2> DEFINE sub == IF EnableCooling THEN <<>> ELSE <<"CoolingReady">>
    <2>1. sub \in Submission
      BY DEF Submission, Events, Tokens
    <2>2. queue # <<>> /\ Consume(sub)
      BY <1>2 DEF OnStartSequence, On
    <2>3. QueueType'
      BY <2>1, <2>2, ConsumeType DEF TypeOK
    <2>4. StateType'
      BY <1>2 DEF TypeOK, OnStartSequence, On, StateType, SeqStates, Gates,
         FocStates, GuiStates, Terminal, Timed
    <2>5. RunType'
      BY <1>2 DEF TypeOK, OnStartSequence, RunType, Signals, Lines, run
    <2>6. OutsideType'
      BY <1>2 DEF TypeOK, OnStartSequence, OutsideType, outside
    <2> QED BY <2>3, <2>4, <2>5, <2>6 DEF TypeOK
  <1>3. CASE OnCoolingReady
    <2> DEFINE sub == IF line + 1 > NLines
                      THEN <<"SequenceDoneAll">> ELSE <<"LineLoaded">>
    <2>1. sub \in Submission
      BY DEF Submission, Events, Tokens
    <2>2. queue # <<>> /\ Consume(sub)
      BY <1>3 DEF OnCoolingReady, On, SMInitLine
    <2>3. QueueType'
      BY <2>1, <2>2, ConsumeType DEF TypeOK
    <2>4. StateType'
      BY <1>3 DEF TypeOK, OnCoolingReady, On, SMInitLine, StateType, SeqStates,
         Gates, FocStates, GuiStates, Terminal, Timed, Cancel
    <2>5. RunType'
      <3>1. CASE line + 1 > NLines
        BY <1>3, <3>1 DEF TypeOK, OnCoolingReady, RunType, Lines, SMInitLine
      <3>2. CASE ~(line + 1 > NLines)
        <4>1. line + 1 \in Lines
          BY <3>2, Grid DEF TypeOK, RunType, Lines
        <4>2. left' \in Int /\ filter' \in Filters
          BY <1>3, <3>2, <4>1, Grid DEF OnCoolingReady, Filters, SMInitLine
        <4>3. status' \in [Lines -> {"Idle", "Busy", "Ok", "Error"}]
          BY <1>3, <3>2 DEF TypeOK, OnCoolingReady, RunType, SMInitLine
        <4>4. hfrHigh' \in BOOLEAN
          BY <1>3, <3>2 DEF SMInitLine, OnCoolingReady
        <4> QED
          BY <1>3, <3>2, <4>2, <4>3, <4>4 DEF TypeOK, OnCoolingReady, RunType,
             Signals, SMInitLine
      <3> QED BY <3>1, <3>2
    <2>6. OutsideType'
      BY <1>3 DEF TypeOK, OnCoolingReady, OutsideType, outside, SMInitLine
    <2> QED BY <2>3, <2>4, <2>5, <2>6 DEF TypeOK
  <1>4. CASE OnLineLoaded
    <2> DEFINE sub == IF FilterWheel THEN <<>> ELSE <<"FilterReady">>
    <2>1. sub \in Submission
      BY DEF Submission, Events, Tokens
    <2>2. queue # <<>> /\ Consume(sub)
      BY <1>4 DEF OnLineLoaded, On
    <2>3. QueueType'
      BY <2>1, <2>2, ConsumeType DEF TypeOK
    <2>4. StateType'
      BY <1>4 DEF TypeOK, OnLineLoaded, On, StateType, SeqStates, Gates, FocStates,
         GuiStates, Terminal, Timed, Arm
    <2>5. RunType'
      BY <1>4 DEF TypeOK, OnLineLoaded, RunType, Signals, Lines, run
    <2>6. OutsideType'
      BY <1>4 DEF TypeOK, OnLineLoaded, OutsideType, outside
    <2> QED BY <2>3, <2>4, <2>5, <2>6 DEF TypeOK
  <1>5. CASE OnFilterReady
    <2> DEFINE sub == IF IsLightOrFlat /\ FocusOnFilterChange /\ lastFocused # filter
                   THEN <<"DoFocus">> ELSE <<"SkipFocus">>
    <2>1. sub \in Submission
      BY DEF Submission, Events, Tokens
    <2>2. queue # <<>> /\ Consume(sub)
      BY <1>5 DEF OnFilterReady, On, SMFocusGate
    <2>3. QueueType'
      BY <2>1, <2>2, ConsumeType DEF TypeOK
    <2>4. StateType'
      BY <1>5 DEF TypeOK, OnFilterReady, On, SMFocusGate, StateType, SeqStates,
         Gates, FocStates, GuiStates, Terminal, Timed, Cancel
    <2>5. RunType'
      BY <1>5 DEF TypeOK, OnFilterReady, RunType, Signals, Lines, run, SMFocusGate
    <2>6. OutsideType'
      BY <1>5 DEF TypeOK, OnFilterReady, OutsideType, outside, SMFocusGate
    <2> QED BY <2>3, <2>4, <2>5, <2>6 DEF TypeOK
  <1>6. CASE OnDoFocus
    <2> DEFINE sub == <<>>
    <2>1. sub \in Submission
      BY DEF Submission, Events, Tokens
    <2>2. queue # <<>> /\ Consume(sub)
      BY <1>6 DEF OnDoFocus, On, SMFocusing, AbortGuider
    <2>3. QueueType'
      BY <2>1, <2>2, ConsumeType DEF TypeOK
    <2>4. StateType'
      BY <1>6 DEF TypeOK, OnDoFocus, On, SMFocusing, AbortGuider, StateType,
         SeqStates, Gates, FocStates, GuiStates, Terminal, Timed, Arm
    <2>5. RunType'
      BY <1>6 DEF TypeOK, OnDoFocus, RunType, Signals, Lines, run, SMFocusing,
         AbortGuider
    <2>6. OutsideType'
      BY <1>6 DEF TypeOK, OnDoFocus, OutsideType, outside, SMFocusing, AbortGuider
    <2> QED BY <2>3, <2>4, <2>5, <2>6 DEF TypeOK
  <1>7. CASE OnSkipFocus
    <2> DEFINE sub == IF UseGuiding /\ ~(guiderActive /\ ~suspended)
                   THEN <<"StartGuide">> ELSE <<"SkipGuide">>
    <2>1. sub \in Submission
      BY DEF Submission, Events, Tokens
    <2>2. queue # <<>> /\ Consume(sub)
      BY <1>7 DEF OnSkipFocus, On, ToGuideGate, SMGuideGate
    <2>3. QueueType'
      BY <2>1, <2>2, ConsumeType DEF TypeOK
    <2>4. StateType'
      BY <1>7 DEF TypeOK, OnSkipFocus, On, ToGuideGate, SMGuideGate, StateType,
         SeqStates, Gates, FocStates, GuiStates, Terminal, Timed
    <2>5. RunType'
      BY <1>7 DEF TypeOK, OnSkipFocus, RunType, Signals, Lines, run, ToGuideGate,
         SMGuideGate
    <2>6. OutsideType'
      BY <1>7 DEF TypeOK, OnSkipFocus, OutsideType, outside, ToGuideGate, SMGuideGate
    <2> QED BY <2>3, <2>4, <2>5, <2>6 DEF TypeOK
  <1>8. CASE OnFocusDone
    <2> DEFINE sub == IF seq = "WaitFocus"
                   THEN IF UseGuiding /\ ~(guiderActive /\ ~suspended)
                        THEN <<"StartGuide">> ELSE <<"SkipGuide">>
                   ELSE <<>>
    <2>1. sub \in Submission
      BY DEF Submission, Events, Tokens
    <2>2. queue # <<>> /\ Consume(sub)
      BY <1>8 DEF OnFocusDone, On, ToGuideGate, SMGuideGate
    <2>3. QueueType'
      BY <2>1, <2>2, ConsumeType DEF TypeOK
    <2>4. StateType'
      BY <1>8 DEF TypeOK, OnFocusDone, On, ToGuideGate, SMGuideGate, StateType,
         SeqStates, Gates, FocStates, GuiStates, Terminal, Timed, Cancel
    <2>5. RunType'
      BY <1>8 DEF TypeOK, OnFocusDone, RunType, Signals, Lines, run, ToGuideGate,
         SMGuideGate
    <2>6. OutsideType'
      BY <1>8 DEF TypeOK, OnFocusDone, OutsideType, outside, ToGuideGate, SMGuideGate
    <2> QED BY <2>3, <2>4, <2>5, <2>6 DEF TypeOK
  <1>9. CASE OnStartGuide
    <2> DEFINE sub == <<>>
    <2>1. sub \in Submission
      BY DEF Submission, Events, Tokens
    <2>2. queue # <<>> /\ Consume(sub)
      BY <1>9 DEF OnStartGuide, On, SMGuideStarting, StartGuider
    <2>3. QueueType'
      BY <2>1, <2>2, ConsumeType DEF TypeOK
    <2>4. StateType'
      BY <1>9 DEF TypeOK, OnStartGuide, On, SMGuideStarting, StartGuider, StateType,
         SeqStates, Gates, FocStates, GuiStates, Terminal, Timed, Arm
    <2>5. RunType'
      BY <1>9 DEF TypeOK, OnStartGuide, RunType, Signals, Lines, run,
         SMGuideStarting, StartGuider
    <2>6. OutsideType'
      BY <1>9 DEF TypeOK, OnStartGuide, OutsideType, outside, SMGuideStarting,
         StartGuider
    <2> QED BY <2>3, <2>4, <2>5, <2>6 DEF TypeOK
  <1>10. CASE OnGuideDone
    <2> DEFINE sub == IF seq = "WaitGuide" /\ ~SettleWait THEN <<"SettleDone">> ELSE <<>>
    <2>1. sub \in Submission
      BY DEF Submission, Events, Tokens
    <2>2. queue # <<>> /\ Consume(sub)
      BY <1>10 DEF OnGuideDone, On, SMWaitSettle
    <2>3. QueueType'
      BY <2>1, <2>2, ConsumeType DEF TypeOK
    <2>4. StateType'
      BY <1>10 DEF TypeOK, OnGuideDone, On, SMWaitSettle, StateType, SeqStates,
         Gates, FocStates, GuiStates, Terminal, Timed, Cancel
    <2>5. RunType'
      BY <1>10 DEF TypeOK, OnGuideDone, RunType, Signals, Lines, run, SMWaitSettle
    <2>6. OutsideType'
      BY <1>10 DEF TypeOK, OnGuideDone, OutsideType, outside, SMWaitSettle
    <2> QED BY <2>3, <2>4, <2>5, <2>6 DEF TypeOK
  <1>11. CASE OnReadyToExpose
    <2> DEFINE sub == <<>>
    <2>1. sub \in Submission
      BY DEF Submission, Events, Tokens
    <2>2. queue # <<>> /\ Consume(sub)
      BY <1>11 DEF OnReadyToExpose, On, SMExposing
    <2>3. QueueType'
      BY <2>1, <2>2, ConsumeType DEF TypeOK
    <2>4. StateType'
      BY <1>11 DEF TypeOK, OnReadyToExpose, On, SMExposing, StateType, SeqStates,
         Gates, FocStates, GuiStates, Terminal, Timed, Arm
    <2>5. RunType'
      BY <1>11 DEF TypeOK, OnReadyToExpose, RunType, Signals, Lines, run, SMExposing
    <2>6. OutsideType'
      BY <1>11 DEF TypeOK, OnReadyToExpose, OutsideType, outside, SMExposing
    <2> QED BY <2>3, <2>4, <2>5, <2>6 DEF TypeOK
  <1>12. CASE OnExposureDone
    <2> DEFINE sub == IF IsLightOrFlat THEN <<>> ELSE <<"FindStarsDone">>
    <2>1. sub \in Submission
      BY DEF Submission, Events, Tokens
    <2>2. queue # <<>> /\ Consume(sub)
      BY <1>12 DEF OnExposureDone, On, SMFindStars
    <2>3. QueueType'
      BY <2>1, <2>2, ConsumeType DEF TypeOK
    <2>4. StateType'
      BY <1>12 DEF TypeOK, OnExposureDone, On, SMFindStars, StateType, SeqStates,
         Gates, FocStates, GuiStates, Terminal, Timed, Cancel
    <2>5. RunType'
      BY <1>12 DEF TypeOK, OnExposureDone, RunType, Signals, Lines, run, SMFindStars
    <2>6. OutsideType'
      BY <1>12 DEF TypeOK, OnExposureDone, OutsideType, outside, SMFindStars
    <2> QED BY <2>3, <2>4, <2>5, <2>6 DEF TypeOK
  <1>13. CASE OnRMSAlert
    <2> DEFINE sub == <<>>
    <2>1. sub \in Submission
      BY DEF Submission, Events, Tokens
    <2>2. queue # <<>> /\ Consume(sub)
      BY <1>13 DEF OnRMSAlert, On
    <2>3. QueueType'
      BY <2>1, <2>2, ConsumeType DEF TypeOK
    <2>4. StateType'
      BY <1>13 DEF TypeOK, OnRMSAlert, On, StateType, SeqStates, Gates, FocStates,
         GuiStates, Terminal, Timed, Cancel
    <2>5. RunType'
      BY <1>13 DEF TypeOK, OnRMSAlert, RunType, Signals, Lines, run
    <2>6. OutsideType'
      BY <1>13 DEF TypeOK, OnRMSAlert, OutsideType, outside
    <2> QED BY <2>3, <2>4, <2>5, <2>6 DEF TypeOK
  <1>14. CASE OnFindStarsDone
    <2> DEFINE sub == IF IsLightOrFlat /\ HfrCheck /\ hfrHigh THEN <<"DoFocus">>
                   ELSE IF left - 1 > 0 THEN <<"NextShot">> ELSE <<"LineDone">>
    <2>1. sub \in Submission
      BY DEF Submission, Events, Tokens
    <2>2. queue # <<>> /\ Consume(sub)
      BY <1>14 DEF OnFindStarsDone, On, SMEvalShot, AcceptShot, MoreShots
    <2>3. QueueType'
      BY <2>1, <2>2, ConsumeType DEF TypeOK
    <2>4. StateType'
      BY <1>14 DEF TypeOK, OnFindStarsDone, On, SMEvalShot, AcceptShot, MoreShots,
         StateType, SeqStates, Gates, FocStates, GuiStates, Terminal, Timed
    <2>5. RunType'
      BY <1>14, Grid DEF TypeOK, OnFindStarsDone, RunType, Signals, Lines, run,
         SMEvalShot, AcceptShot, MoreShots
    <2>6. OutsideType'
      BY <1>14 DEF TypeOK, OnFindStarsDone, OutsideType, outside, SMEvalShot,
         AcceptShot, MoreShots
    <2> QED BY <2>3, <2>4, <2>5, <2>6 DEF TypeOK
  <1>15. CASE OnNextShot
    <2> DEFINE sub == IF DitherEvery > 0 /\ sinceDither >= DitherEvery /\ guiderActive
                   THEN <<"DoDither">> ELSE <<"SkipDither">>
    <2>1. sub \in Submission
      BY DEF Submission, Events, Tokens
    <2>2. queue # <<>> /\ Consume(sub)
      BY <1>15 DEF OnNextShot, On, SMDitherGate
    <2>3. QueueType'
      BY <2>1, <2>2, ConsumeType DEF TypeOK
    <2>4. StateType'
      BY <1>15 DEF TypeOK, OnNextShot, On, SMDitherGate, StateType, SeqStates,
         Gates, FocStates, GuiStates, Terminal, Timed
    <2>5. RunType'
      BY <1>15 DEF TypeOK, OnNextShot, RunType, Signals, Lines, run, SMDitherGate
    <2>6. OutsideType'
      BY <1>15 DEF TypeOK, OnNextShot, OutsideType, outside, SMDitherGate
    <2> QED BY <2>3, <2>4, <2>5, <2>6 DEF TypeOK
  <1>16. CASE OnLineDone
    <2> DEFINE sub == IF line + 1 > NLines
                      THEN <<"SequenceDoneAll">> ELSE <<"LineLoaded">>
    <2>1. sub \in Submission
      BY DEF Submission, Events, Tokens
    <2>2. queue # <<>> /\ Consume(sub)
      BY <1>16 DEF OnLineDone, On, SMInitLine
    <2>3. QueueType'
      BY <2>1, <2>2, ConsumeType DEF TypeOK
    <2>4. StateType'
      BY <1>16 DEF TypeOK, OnLineDone, On, SMInitLine, StateType, SeqStates, Gates,
         FocStates, GuiStates, Terminal, Timed
    <2>5. RunType'
      <3>1. CASE line + 1 > NLines
        BY <1>16, <3>1 DEF TypeOK, OnLineDone, RunType, Lines, SMInitLine
      <3>2. CASE ~(line + 1 > NLines)
        <4>1. line + 1 \in Lines
          BY <3>2, Grid DEF TypeOK, RunType, Lines
        <4>2. left' \in Int /\ filter' \in Filters
          BY <1>16, <3>2, <4>1, Grid DEF OnLineDone, Filters, SMInitLine
        <4>3. status' \in [Lines -> {"Idle", "Busy", "Ok", "Error"}]
          BY <1>16, <3>2 DEF TypeOK, OnLineDone, RunType, SMInitLine
        <4>4. hfrHigh' \in BOOLEAN
          BY <1>16, <3>2 DEF SMInitLine, OnLineDone
        <4> QED
          BY <1>16, <3>2, <4>2, <4>3, <4>4 DEF TypeOK, OnLineDone, RunType, Signals,
             SMInitLine
      <3> QED BY <3>1, <3>2
    <2>6. OutsideType'
      BY <1>16 DEF TypeOK, OnLineDone, OutsideType, outside, SMInitLine
    <2> QED BY <2>3, <2>4, <2>5, <2>6 DEF TypeOK
  <1>17. CASE OnDoDither
    <2> DEFINE sub == <<>>
    <2>1. sub \in Submission
      BY DEF Submission, Events, Tokens
    <2>2. queue # <<>> /\ Consume(sub)
      BY <1>17 DEF OnDoDither, On, SMDithering
    <2>3. QueueType'
      BY <2>1, <2>2, ConsumeType DEF TypeOK
    <2>4. StateType'
      BY <1>17 DEF TypeOK, OnDoDither, On, SMDithering, StateType, SeqStates, Gates,
         FocStates, GuiStates, Terminal, Timed, Arm
    <2>5. RunType'
      BY <1>17 DEF TypeOK, OnDoDither, RunType, Signals, Lines, run, SMDithering
    <2>6. OutsideType'
      BY <1>17 DEF TypeOK, OnDoDither, OutsideType, outside, SMDithering
    <2> QED BY <2>3, <2>4, <2>5, <2>6 DEF TypeOK
  <1>18. CASE OnDitherDone
    <2> DEFINE sub == IF seq = "WaitDither" /\ ~SettleWait THEN <<"SettleDone">> ELSE <<>>
    <2>1. sub \in Submission
      BY DEF Submission, Events, Tokens
    <2>2. queue # <<>> /\ Consume(sub)
      BY <1>18 DEF OnDitherDone, On, SMWaitSettle
    <2>3. QueueType'
      BY <2>1, <2>2, ConsumeType DEF TypeOK
    <2>4. StateType'
      BY <1>18 DEF TypeOK, OnDitherDone, On, SMWaitSettle, StateType, SeqStates,
         Gates, FocStates, GuiStates, Terminal, Timed, Cancel
    <2>5. RunType'
      BY <1>18 DEF TypeOK, OnDitherDone, RunType, Signals, Lines, run, SMWaitSettle
    <2>6. OutsideType'
      BY <1>18 DEF TypeOK, OnDitherDone, OutsideType, outside, SMWaitSettle
    <2> QED BY <2>3, <2>4, <2>5, <2>6 DEF TypeOK
  <1>19. CASE OnSequenceDoneAll
    <2>1. queue # <<>> /\ SMDone
      BY <1>19 DEF OnSequenceDoneAll, On
    <2>2. QueueType'
      BY <2>1, RestIsQueue DEF TypeOK, QueueType, SMDone, StopIn, Rest
    <2>3. StateType'
      BY <2>1 DEF TypeOK, StateType, Terminal, SMDone, StopIn
    <2>4. RunType'
      BY <2>1 DEF TypeOK, RunType, Signals, Lines, SMDone, MarkLineError
    <2>5. OutsideType'
      BY <2>1 DEF TypeOK, OutsideType, outside, SMDone, AbortGuider
    <2> QED BY <2>2, <2>3, <2>4, <2>5 DEF TypeOK
  <1>20. CASE OnAbort
    <2>1. queue # <<>> /\ SMAborted
      BY <1>20 DEF OnAbort, On
    <2>2. QueueType'
      BY <2>1, RestIsQueue DEF TypeOK, QueueType, SMAborted, StopIn, Rest
    <2>3. StateType'
      BY <2>1 DEF TypeOK, StateType, Terminal, SMAborted, StopIn
    <2>4. RunType'
      BY <2>1 DEF TypeOK, RunType, Signals, Lines, SMAborted, MarkLineError
    <2>5. OutsideType'
      BY <2>1 DEF TypeOK, OutsideType, outside, SMAborted, AbortGuider
    <2> QED BY <2>2, <2>3, <2>4, <2>5 DEF TypeOK
  <1>21. CASE OnFatal
    <2>1. queue # <<>> /\ SMError
      BY <1>21 DEF OnFatal, On
    <2>2. QueueType'
      BY <2>1, RestIsQueue DEF TypeOK, QueueType, SMError, StopIn, Rest
    <2>3. StateType'
      BY <2>1 DEF TypeOK, StateType, Terminal, SMError, StopIn
    <2>4. RunType'
      BY <2>1 DEF TypeOK, RunType, Signals, Lines, SMError, MarkLineError
    <2>5. OutsideType'
      BY <2>1 DEF TypeOK, OutsideType, outside, SMError, AbortGuider
    <2> QED BY <2>2, <2>3, <2>4, <2>5 DEF TypeOK
  <1>22. CASE Discard
    <2> DEFINE sub == <<>>
    <2>1. sub \in Submission
      BY DEF Submission, Events, Tokens
    <2>2. queue # <<>> /\ Consume(sub)
      BY <1>22 DEF Discard, On
    <2>3. QueueType'
      BY <2>1, <2>2, ConsumeType DEF TypeOK
    <2>4. StateType'
      BY <1>22 DEF TypeOK, Discard, On, StateType, SeqStates, Gates, FocStates,
         GuiStates, Terminal, Timed
    <2>5. RunType'
      BY <1>22 DEF TypeOK, Discard, RunType, Signals, Lines, run
    <2>6. OutsideType'
      BY <1>22 DEF TypeOK, Discard, OutsideType, outside
    <2> QED BY <2>3, <2>4, <2>5, <2>6 DEF TypeOK
  <1>23. CASE StartSequence
    <2>1. QueueType'
      <3>1. CASE KeepsLeftovers
        BY <1>23, <3>1, SubmitOne DEF TypeOK, QueueType, StartSequence, Events
      <3>2. CASE ~KeepsLeftovers
        <4>1. queue' \in Seq(Events)
          BY <1>23, <3>2 DEF StartSequence, Events
        <4> QED BY <1>23, <4>1 DEF TypeOK, QueueType, StartSequence
      <3> QED BY <3>1, <3>2
    <2>2. StateType'
      BY <1>23 DEF TypeOK, StateType, StartSequence
    <2>3. RunType'
      <3>1. guiderActive' \in BOOLEAN /\ suspended' \in BOOLEAN /\ hfrHigh' \in BOOLEAN
        BY <1>23 DEF StartSequence, ResetRun
      <3> QED BY <1>23, <3>1 DEF TypeOK, RunType, StartSequence, ResetRun, Signals, Lines
    <2>4. OutsideType'
      BY <1>23 DEF TypeOK, OutsideType, StartSequence, outside
    <2> QED BY <2>1, <2>2, <2>3, <2>4 DEF TypeOK
  <1>24. CASE StartWithoutCamera
    <2>1. QueueType'
      BY <1>24, SubmitOne DEF TypeOK, QueueType, StartWithoutCamera, machine
    <2>2. StateType'
      BY <1>24 DEF TypeOK, StateType, StartWithoutCamera, machine
    <2>3. RunType'
      <3>1. guiderActive' \in BOOLEAN /\ suspended' \in BOOLEAN /\ hfrHigh' \in BOOLEAN
        BY <1>24 DEF StartWithoutCamera, ResetRun
      <3> QED BY <1>24, <3>1 DEF TypeOK, RunType, StartWithoutCamera, ResetRun, Signals
    <2>4. OutsideType'
      BY <1>24 DEF TypeOK, OutsideType, StartWithoutCamera, outside
    <2> QED BY <2>1, <2>2, <2>3, <2>4 DEF TypeOK
  <1>25. CASE AbortSequence
    <2>1. QueueType'
      BY <1>25, SubmitOne DEF TypeOK, QueueType, AbortSequence, Events
    <2>2. StateType'
      BY <1>25 DEF TypeOK, StateType, AbortSequence
    <2>3. RunType'
      BY <1>25 DEF TypeOK, RunType, AbortSequence
    <2>4. OutsideType'
      BY <1>25 DEF TypeOK, OutsideType, AbortSequence, AbortGuider
    <2> QED BY <2>1, <2>2, <2>3, <2>4 DEF TypeOK
  <1>26. CASE onGuidingSettleTimeout
    <2>1. QueueType'
      BY <1>26, SubmitOne DEF TypeOK, QueueType, onGuidingSettleTimeout, Submit, Events
    <2>2. StateType'
      BY <1>26 DEF TypeOK, StateType, onGuidingSettleTimeout, Submit
    <2>3. RunType'
      BY <1>26 DEF TypeOK, RunType, onGuidingSettleTimeout
    <2>4. OutsideType'
      BY <1>26 DEF TypeOK, OutsideType, onGuidingSettleTimeout, outside
    <2> QED BY <2>1, <2>2, <2>3, <2>4 DEF TypeOK
  <1>27. CASE OnSucessSEP
    <2>1. QueueType'
      BY <1>27, SubmitOne DEF TypeOK, QueueType, OnSucessSEP, Submit, Events
    <2>2. StateType'
      BY <1>27 DEF TypeOK, StateType, OnSucessSEP, Submit
    <2>3. RunType'
      BY <1>27 DEF TypeOK, RunType, OnSucessSEP, Signals
    <2>4. OutsideType'
      BY <1>27 DEF TypeOK, OutsideType, OnSucessSEP
    <2> QED BY <2>1, <2>2, <2>3, <2>4 DEF TypeOK
  <1>28. CASE FocuserReady
    <2>1. QueueType'
      BY <1>28, SubmitOne DEF TypeOK, QueueType, FocuserReady, Submit, Events
    <2>2. StateType'
      BY <1>28 DEF TypeOK, StateType, FocuserReady, Submit
    <2>3. RunType'
      BY <1>28 DEF TypeOK, RunType, FocuserReady
    <2>4. OutsideType'
      BY <1>28 DEF TypeOK, OutsideType, FocuserReady
    <2> QED BY <2>1, <2>2, <2>3, <2>4 DEF TypeOK
  <1>29. CASE FocuserFails
    <2>1. QueueType'
      BY <1>29, SubmitOne DEF TypeOK, QueueType, FocuserFails, machine
    <2>2. StateType'
      BY <1>29 DEF TypeOK, StateType, FocuserFails, machine
    <2>3. RunType'
      BY <1>29 DEF TypeOK, RunType, FocuserFails, run
    <2>4. OutsideType'
      BY <1>29 DEF TypeOK, OutsideType, FocuserFails
    <2> QED BY <2>1, <2>2, <2>3, <2>4 DEF TypeOK
  <1>30. CASE GuiderGuiding
    <2>1. QueueType'
      BY <1>30, SubmitOne, SubmitNone DEF TypeOK, QueueType, GuiderGuiding,
         AwaitedFromGuider, Events
    <2>2. StateType'
      BY <1>30 DEF TypeOK, StateType, GuiderGuiding
    <2>3. RunType'
      BY <1>30 DEF TypeOK, RunType, GuiderGuiding
    <2>4. OutsideType'
      BY <1>30 DEF TypeOK, OutsideType, GuiderGuiding
    <2> QED BY <2>1, <2>2, <2>3, <2>4 DEF TypeOK
  <1>31. CASE GuiderRms
    <2>1. QueueType'
      BY <1>31, SubmitOne DEF TypeOK, QueueType, GuiderRms, Events
    <2>2. StateType'
      BY <1>31 DEF TypeOK, StateType, GuiderRms
    <2>3. RunType'
      BY <1>31 DEF TypeOK, RunType, GuiderRms
    <2>4. OutsideType'
      BY <1>31 DEF TypeOK, OutsideType, GuiderRms, outside
    <2> QED BY <2>1, <2>2, <2>3, <2>4 DEF TypeOK
  <1>32. CASE GuiderRmsAlert
    <2>1. QueueType'
      BY <1>32, SubmitOne, SubmitNone DEF TypeOK, QueueType, GuiderRmsAlert,
         AwaitedFromGuider, Events
    <2>2. StateType'
      BY <1>32 DEF TypeOK, StateType, GuiderRmsAlert
    <2>3. RunType'
      BY <1>32 DEF TypeOK, RunType, GuiderRmsAlert
    <2>4. OutsideType'
      BY <1>32 DEF TypeOK, OutsideType, GuiderRmsAlert, AbortGuider
    <2> QED BY <2>1, <2>2, <2>3, <2>4 DEF TypeOK
  <1>33. CASE GuiderFails
    <2>1. QueueType'
      BY <1>33, SubmitOne DEF TypeOK, QueueType, GuiderFails, machine
    <2>2. StateType'
      BY <1>33 DEF TypeOK, StateType, GuiderFails, machine
    <2>3. RunType'
      BY <1>33 DEF TypeOK, RunType, GuiderFails, run
    <2>4. OutsideType'
      BY <1>33 DEF TypeOK, OutsideType, GuiderFails, AbortGuider
    <2> QED BY <2>1, <2>2, <2>3, <2>4 DEF TypeOK
  <1>34. CASE GuiderReady
    <2>1. QueueType'
      BY <1>34, SubmitOne DEF TypeOK, QueueType, GuiderReady, Events
    <2>2. StateType'
      BY <1>34 DEF TypeOK, StateType, GuiderReady
    <2>3. RunType'
      BY <1>34 DEF TypeOK, RunType, GuiderReady
    <2>4. OutsideType'
      BY <1>34 DEF TypeOK, OutsideType, GuiderReady, StartGuider
    <2> QED BY <2>1, <2>2, <2>3, <2>4 DEF TypeOK
  <1>35. CASE CoolingReached
    <2>1. QueueType'
      BY <1>35, SubmitOne DEF TypeOK, QueueType, CoolingReached, Submit, Events
    <2>2. StateType'
      BY <1>35 DEF TypeOK, StateType, CoolingReached, Submit
    <2>3. RunType'
      BY <1>35 DEF TypeOK, RunType, CoolingReached, run
    <2>4. OutsideType'
      BY <1>35 DEF TypeOK, OutsideType, CoolingReached, outside
    <2> QED BY <2>1, <2>2, <2>3, <2>4 DEF TypeOK
  <1>36. CASE FilterReached
    <2>1. QueueType'
      BY <1>36, SubmitOne DEF TypeOK, QueueType, FilterReached, Submit, Events
    <2>2. StateType'
      BY <1>36 DEF TypeOK, StateType, FilterReached, Submit
    <2>3. RunType'
      BY <1>36 DEF TypeOK, RunType, FilterReached, run
    <2>4. OutsideType'
      BY <1>36 DEF TypeOK, OutsideType, FilterReached, outside
    <2> QED BY <2>1, <2>2, <2>3, <2>4 DEF TypeOK
  <1>37. CASE CameraAlert
    <2>1. QueueType'
      BY <1>37, SubmitOne DEF TypeOK, QueueType, CameraAlert, Submit, Events
    <2>2. StateType'
      BY <1>37 DEF TypeOK, StateType, CameraAlert, Submit
    <2>3. RunType'
      BY <1>37 DEF TypeOK, RunType, CameraAlert, run
    <2>4. OutsideType'
      BY <1>37 DEF TypeOK, OutsideType, CameraAlert, outside
    <2> QED BY <2>1, <2>2, <2>3, <2>4 DEF TypeOK
  <1>38. CASE FrameArrives
    <2>1. QueueType'
      BY <1>38, SubmitOne DEF TypeOK, QueueType, FrameArrives, machine
    <2>2. StateType'
      BY <1>38 DEF TypeOK, StateType, FrameArrives, machine
    <2>3. RunType'
      BY <1>38 DEF TypeOK, RunType, FrameArrives, run
    <2>4. OutsideType'
      BY <1>38 DEF TypeOK, OutsideType, FrameArrives
    <2> QED BY <2>1, <2>2, <2>3, <2>4 DEF TypeOK
  <1>39. CASE FrameSaved
    <2>1. QueueType'
      BY <1>39, SubmitOne DEF TypeOK, QueueType, FrameSaved, Events
    <2>2. StateType'
      BY <1>39 DEF TypeOK, StateType, FrameSaved
    <2>3. RunType'
      BY <1>39 DEF TypeOK, RunType, FrameSaved, run
    <2>4. OutsideType'
      BY <1>39 DEF TypeOK, OutsideType, FrameSaved
    <2> QED BY <2>1, <2>2, <2>3, <2>4 DEF TypeOK
  <1>40. ASSUME NEW s \in Timed, TimerFires(s) PROVE TypeOK'
    <2>1. TimeoutOf[s] \in Events
      BY DEF TimeoutOf, Timed, Events, Timeouts
    <2>2. QueueType'
      BY <1>40, <2>1, SubmitOne DEF TypeOK, QueueType, TimerFires, Submit
    <2>3. StateType' /\ RunType' /\ OutsideType'
      BY <1>40 DEF TypeOK, StateType, RunType, OutsideType, TimerFires, Submit,
         Cancel, run, outside
    <2> QED BY <2>2, <2>3 DEF TypeOK
  <1>41. CASE UNCHANGED vars
    BY <1>41 DEF TypeOK, QueueType, StateType, RunType, OutsideType, vars, machine,
       run, outside
  <1> QED
    BY <1>1, <1>2, <1>3, <1>4, <1>5, <1>6, <1>7, <1>8, <1>9, <1>10, <1>11, <1>12,
       <1>13, <1>14, <1>15, <1>16, <1>17, <1>18, <1>19, <1>20, <1>21, <1>22, <1>23,
       <1>24, <1>25, <1>26, <1>27, <1>28, <1>29, <1>30, <1>31, <1>32, <1>33, <1>34,
       <1>35, <1>36, <1>37, <1>38, <1>39, <1>40, <1>41
    DEF Next, User, ProcessEvent

(* The types hold initially. *)
LEMMA TypeInit == Init => TypeOK
  <1> SUFFICES ASSUME Init PROVE TypeOK
      OBVIOUS
  <1>1. QueueType
    <2>1. queue \in Seq(Events)
        BY DEF Init
    <2> QED BY <2>1 DEF Init, QueueType
  <1>2. StateType
      BY DEF Init, StateType
  <1>3. RunType
    <2>1. /\ guiderActive \in BOOLEAN
          /\ suspended \in BOOLEAN
          /\ hfrHigh \in BOOLEAN
          /\ settle \in BOOLEAN
        BY DEF Init
    <2>2. /\ filter \in Filters \cup {"none"}
          /\ lastFocused \in Filters \cup {"none", "never"}
        BY DEF Init
    <2> QED BY <2>1, <2>2 DEF Init, RunType, Signals
  <1>4. OutsideType
      BY DEF Init, OutsideType
  <1> QED
      BY <1>1, <1>2, <1>3, <1>4 DEF TypeOK

(* Every variable keeps its type in every run (the members of Sequencer and *)
(* the configuration of its state machine).                                *)
THEOREM TypeCorrect == Spec => []TypeOK
  BY TypeInit, TypeStep, PTL DEF Spec
=============================================================================
