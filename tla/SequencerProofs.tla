-------------------------- MODULE SequencerProofs --------------------------
(***************************************************************************)
(* Safety of the sequencer, for every grid and every setting:              *)
(*   - a frame counts once (no further assumption);                        *)
(*   - when start() finds the state machine without leftovers of an        *)
(*     earlier run: the regions of Running stay in step, a suspension of   *)
(*     the guiding ends with its focus, no timeout of a phase that is over *)
(*     ends a run, no settling is cut short by an earlier one, the shots   *)
(*     of the rows add up, and the sequencer implements SequenceRun.       *)
(***************************************************************************)
EXTENDS SequencerTypes, FiniteSetTheorems

(***************************************************************************)
(* Shots.  A frame can only be over the HFR threshold if stars are         *)
(* searched at all, so SMEvalShot's test of the frame type adds nothing.   *)
(***************************************************************************)
HfrIsMeasured == sep \/ hfrHigh => IsLightOrFlat

(* Only OnExposureDone starts a star detection and only OnSucessSEP        *)
(* measures a frame.                                                       *)
LEMMA HfrStep == HfrIsMeasured /\ [Next]_vars => HfrIsMeasured'
  <1> SUFFICES ASSUME HfrIsMeasured, [Next]_vars PROVE HfrIsMeasured'
    OBVIOUS
  <1>1. CASE EnterIdle
    BY <1>1 DEF HfrIsMeasured, EnterIdle, run, outside
  <1>2. CASE OnStartSequence
    BY <1>2 DEF HfrIsMeasured, OnStartSequence, run, outside
  <1>3. CASE OnCoolingReady
    BY <1>3 DEF HfrIsMeasured, OnCoolingReady, outside, SMInitLine
  <1>4. CASE OnLineLoaded
    BY <1>4 DEF HfrIsMeasured, OnLineLoaded, run, outside
  <1>5. CASE OnFilterReady
    BY <1>5 DEF HfrIsMeasured, OnFilterReady, run, outside
  <1>6. CASE OnDoFocus
    BY <1>6 DEF HfrIsMeasured, OnDoFocus
  <1>7. CASE OnSkipFocus
    BY <1>7 DEF HfrIsMeasured, OnSkipFocus, outside
  <1>8. CASE OnFocusDone
    BY <1>8 DEF HfrIsMeasured, OnFocusDone, outside
  <1>9. CASE OnStartGuide
    BY <1>9 DEF HfrIsMeasured, OnStartGuide
  <1>10. CASE OnGuideDone
    BY <1>10 DEF HfrIsMeasured, OnGuideDone, outside
  <1>11. CASE OnReadyToExpose
    BY <1>11 DEF HfrIsMeasured, OnReadyToExpose, run
  <1>12. CASE OnExposureDone
    BY <1>12 DEF HfrIsMeasured, OnExposureDone, run, SMFindStars
  <1>13. CASE OnRMSAlert
    BY <1>13 DEF HfrIsMeasured, OnRMSAlert, run, outside
  <1>14. CASE OnFindStarsDone
    BY <1>14 DEF HfrIsMeasured, OnFindStarsDone, outside
  <1>15. CASE OnNextShot
    BY <1>15 DEF HfrIsMeasured, OnNextShot, run, outside
  <1>16. CASE OnLineDone
    BY <1>16 DEF HfrIsMeasured, OnLineDone, outside, SMInitLine
  <1>17. CASE OnDoDither
    BY <1>17 DEF HfrIsMeasured, OnDoDither
  <1>18. CASE OnDitherDone
    BY <1>18 DEF HfrIsMeasured, OnDitherDone, outside
  <1>19. CASE OnSequenceDoneAll
    BY <1>19 DEF HfrIsMeasured, OnSequenceDoneAll, SMDone
  <1>20. CASE OnAbort
    BY <1>20 DEF HfrIsMeasured, OnAbort, SMAborted, outside
  <1>21. CASE OnFatal
    BY <1>21 DEF HfrIsMeasured, OnFatal, SMError
  <1>22. CASE Discard
    BY <1>22 DEF HfrIsMeasured, Discard, run, outside
  <1>23. CASE StartSequence
    BY <1>23 DEF HfrIsMeasured, StartSequence, ResetRun, outside
  <1>24. CASE StartWithoutCamera
    BY <1>24 DEF HfrIsMeasured, StartWithoutCamera, ResetRun, outside
  <1>25. CASE AbortSequence
    BY <1>25 DEF HfrIsMeasured, AbortSequence
  <1>26. CASE onGuidingSettleTimeout
    BY <1>26 DEF HfrIsMeasured, onGuidingSettleTimeout, outside
  <1>27. CASE OnSucessSEP
    BY <1>27 DEF HfrIsMeasured, OnSucessSEP
  <1>28. CASE FocuserReady
    BY <1>28 DEF HfrIsMeasured, FocuserReady
  <1>29. CASE FocuserFails
    BY <1>29 DEF HfrIsMeasured, FocuserFails, run
  <1>30. CASE GuiderGuiding
    BY <1>30 DEF HfrIsMeasured, GuiderGuiding
  <1>31. CASE GuiderRms
    BY <1>31 DEF HfrIsMeasured, GuiderRms, outside
  <1>32. CASE GuiderRmsAlert
    BY <1>32 DEF HfrIsMeasured, GuiderRmsAlert
  <1>33. CASE GuiderFails
    BY <1>33 DEF HfrIsMeasured, GuiderFails, run
  <1>34. CASE GuiderReady
    BY <1>34 DEF HfrIsMeasured, GuiderReady
  <1>35. CASE CoolingReached
    BY <1>35 DEF HfrIsMeasured, CoolingReached, run, outside
  <1>36. CASE FilterReached
    BY <1>36 DEF HfrIsMeasured, FilterReached, run, outside
  <1>37. CASE CameraAlert
    BY <1>37 DEF HfrIsMeasured, CameraAlert, run, outside
  <1>38. CASE FrameArrives
    BY <1>38 DEF HfrIsMeasured, FrameArrives, run
  <1>39. CASE FrameSaved
    BY <1>39 DEF HfrIsMeasured, FrameSaved, run
  <1>40. ASSUME NEW s \in Timed, TimerFires(s) PROVE HfrIsMeasured'
    BY <1>40 DEF TimerFires, HfrIsMeasured, run, outside
  <1>41. CASE UNCHANGED vars
    BY <1>41 DEF vars, HfrIsMeasured, run, outside
  <1> QED
    BY <1>1, <1>2, <1>3, <1>4, <1>5, <1>6, <1>7, <1>8, <1>9, <1>10, <1>11, <1>12,
       <1>13, <1>14, <1>15, <1>16, <1>17, <1>18, <1>19, <1>20, <1>21, <1>22, <1>23,
       <1>24, <1>25, <1>26, <1>27, <1>28, <1>29, <1>30, <1>31, <1>32, <1>33, <1>34,
       <1>35, <1>36, <1>37, <1>38, <1>39, <1>40, <1>41
    DEF Next, User, ProcessEvent
(* Every other step leaves mShotsCompleted alone. *)
LEMMA TotalStep ==
    ASSUME [Next]_vars
    PROVE  total' = total \/ StartSequence \/ OnFindStarsDone
  <1>1. CASE EnterIdle
    BY <1>1 DEF EnterIdle, run, outside
  <1>2. CASE OnStartSequence
    BY <1>2 DEF OnStartSequence, run, outside
  <1>3. CASE OnCoolingReady
    BY <1>3 DEF OnCoolingReady, outside, SMInitLine
  <1>4. CASE OnLineLoaded
    BY <1>4 DEF OnLineLoaded, run, outside
  <1>5. CASE OnFilterReady
    BY <1>5 DEF OnFilterReady, run, outside
  <1>6. CASE OnDoFocus
    BY <1>6 DEF OnDoFocus
  <1>7. CASE OnSkipFocus
    BY <1>7 DEF OnSkipFocus, outside
  <1>8. CASE OnFocusDone
    BY <1>8 DEF OnFocusDone, outside
  <1>9. CASE OnStartGuide
    BY <1>9 DEF OnStartGuide
  <1>10. CASE OnGuideDone
    BY <1>10 DEF OnGuideDone, outside
  <1>11. CASE OnReadyToExpose
    BY <1>11 DEF OnReadyToExpose, run
  <1>12. CASE OnExposureDone
    BY <1>12 DEF OnExposureDone, run, SMFindStars
  <1>13. CASE OnRMSAlert
    BY <1>13 DEF OnRMSAlert, run, outside
  <1>15. CASE OnNextShot
    BY <1>15 DEF OnNextShot, run, outside
  <1>16. CASE OnLineDone
    BY <1>16 DEF OnLineDone, outside, SMInitLine
  <1>17. CASE OnDoDither
    BY <1>17 DEF OnDoDither
  <1>18. CASE OnDitherDone
    BY <1>18 DEF OnDitherDone, outside
  <1>19. CASE OnSequenceDoneAll
    BY <1>19 DEF OnSequenceDoneAll, SMDone
  <1>20. CASE OnAbort
    BY <1>20 DEF OnAbort, SMAborted, outside
  <1>21. CASE OnFatal
    BY <1>21 DEF OnFatal, SMError
  <1>22. CASE Discard
    BY <1>22 DEF Discard, run, outside
  <1>24. CASE StartWithoutCamera
    BY <1>24 DEF StartWithoutCamera, ResetRun, outside
  <1>25. CASE AbortSequence
    BY <1>25 DEF AbortSequence
  <1>26. CASE onGuidingSettleTimeout
    BY <1>26 DEF onGuidingSettleTimeout, outside
  <1>27. CASE OnSucessSEP
    BY <1>27 DEF OnSucessSEP
  <1>28. CASE FocuserReady
    BY <1>28 DEF FocuserReady
  <1>29. CASE FocuserFails
    BY <1>29 DEF FocuserFails, run
  <1>30. CASE GuiderGuiding
    BY <1>30 DEF GuiderGuiding
  <1>31. CASE GuiderRms
    BY <1>31 DEF GuiderRms, outside
  <1>32. CASE GuiderRmsAlert
    BY <1>32 DEF GuiderRmsAlert
  <1>33. CASE GuiderFails
    BY <1>33 DEF GuiderFails, run
  <1>34. CASE GuiderReady
    BY <1>34 DEF GuiderReady
  <1>35. CASE CoolingReached
    BY <1>35 DEF CoolingReached, run, outside
  <1>36. CASE FilterReached
    BY <1>36 DEF FilterReached, run, outside
  <1>37. CASE CameraAlert
    BY <1>37 DEF CameraAlert, run, outside
  <1>38. CASE FrameArrives
    BY <1>38 DEF FrameArrives, run
  <1>39. CASE FrameSaved
    BY <1>39 DEF FrameSaved, run
  <1>40. ASSUME NEW s \in Timed, TimerFires(s) PROVE total' = total
    BY <1>40 DEF TimerFires, run, outside
  <1>41. CASE UNCHANGED vars
    BY <1>41 DEF vars, run, outside
  <1> QED
    BY <1>1, <1>2, <1>3, <1>4, <1>5, <1>6, <1>7, <1>8, <1>9, <1>10, <1>11, <1>12,
       <1>13, <1>15, <1>16, <1>17, <1>18, <1>19, <1>20, <1>21, <1>22, <1>24, <1>25,
       <1>26, <1>27, <1>28, <1>29, <1>30, <1>31, <1>32, <1>33, <1>34, <1>35, <1>36,
       <1>37, <1>38, <1>39, <1>40, <1>41
    DEF Next, User, ProcessEvent
(* A frame is accepted once, measured and below the threshold (SMEvalShot). *)
THEOREM FramesCountOnce == Spec => ShotsCountOnce
  <1>1. Init => HfrIsMeasured
    BY DEF Init, HfrIsMeasured
  <1>2. HfrIsMeasured /\ [Next]_vars =>
          [total' # total =>
             \/ total' = 0 /\ line' = 0
             \/ /\ total' = total + 1
                /\ seq = "FindingStars" /\ ~(HfrCheck /\ hfrHigh)]_vars
    <2> SUFFICES ASSUME HfrIsMeasured, [Next]_vars, total' # total
                 PROVE  \/ total' = 0 /\ line' = 0
                        \/ /\ total' = total + 1
                           /\ seq = "FindingStars" /\ ~(HfrCheck /\ hfrHigh)
      OBVIOUS
    <2>1. CASE StartSequence
      BY <2>1 DEF StartSequence, ResetRun
    <2>2. CASE OnFindStarsDone
      BY <2>2 DEF OnFindStarsDone, SMEvalShot, AcceptShot, MoreShots, HfrIsMeasured
    <2> QED BY <2>1, <2>2, TotalStep
  <1> QED BY <1>1, <1>2, HfrStep, PTL DEF Spec, ShotsCountOnce
-----------------------------------------------------------------------------
(***************************************************************************)
(* Tokens.  A gate of SequenceCtrl decides by submitting one event to      *)
(* itself; these events are the tokens.                                    *)
(***************************************************************************)

(* No token is queued. *)
Quiet(q) == \A i \in 1..Len(q) : q[i] \notin Tokens
(* At most one token is queued, and it is one that s waits for. *)
Single(q, s) ==
    /\ \A i \in 1..Len(q) : q[i] \in Tokens => q[i] \in TransitionsOf(s)
    /\ \A i, j \in 1..Len(q) : q[i] \in Tokens /\ q[j] \in Tokens => i = j

(* Taking the head brings no token in. *)
LEMMA QuietRest ==
    ASSUME NEW q \in Seq(Events), q # <<>>, Quiet(q)
    PROVE  Quiet(Tail(q))
  BY DEF Quiet

(* Nor does submitting what is no token. *)
LEMMA QuietSubmit ==
    ASSUME NEW q \in Seq(Events), Quiet(q), NEW e \in Events, e \notin Tokens
    PROVE  Quiet(q \o <<e>>) /\ Quiet(Append(q, e))
  BY DEF Quiet

(* A token that is taken was for s and was the only one. *)
LEMMA TokenTaken ==
    ASSUME NEW q \in Seq(Events), q # <<>>, NEW s, Single(q, s), Head(q) \in Tokens
    PROVE  Head(q) \in TransitionsOf(s) /\ Quiet(Tail(q))
  <1> DEFINE r == Tail(q)
  <1>1. /\ Head(q) = q[1]
        /\ 1 \in 1..Len(q)
        /\ Len(r) = Len(q) - 1 /\ \A i \in 1..Len(r) : r[i] = q[i + 1]
    OBVIOUS
  <1>2. \A i \in 1..Len(r) : r[i] \notin Tokens
    BY <1>1 DEF Single
  <1> QED BY <1>1, <1>2 DEF Single, Quiet

(* Taking the head keeps the token single. *)
LEMMA SingleRest ==
    ASSUME NEW q \in Seq(Events), q # <<>>, NEW s, Single(q, s)
    PROVE  Single(Tail(q), s)
  <1> DEFINE r == Tail(q)
  <1>1. Len(q) \in Nat /\ Len(r) = Len(q) - 1 /\ \A i \in 1..Len(r) : r[i] = q[i + 1]
    OBVIOUS
  <1> HIDE DEF r
  <1>2. \A i, j \in 1..Len(r) : r[i] \in Tokens /\ r[j] \in Tokens => i = j
    BY <1>1 DEF Single
  <1>3. \A i \in 1..Len(r) : r[i] \in Tokens => r[i] \in TransitionsOf(s)
    BY <1>1 DEF Single
  <1> QED BY <1>2, <1>3 DEF Single, r

(* A state that waits for no token has none queued. *)
LEMMA SingleIsQuiet ==
    ASSUME NEW q \in Seq(Events), NEW s, Single(q, s), TransitionsOf(s) \cap Tokens = {}
    PROVE  Quiet(q)
  BY DEF Single, Quiet

(* No token at all fits every state. *)
LEMMA QuietIsSingle ==
    ASSUME NEW q \in Seq(Events), NEW s, Quiet(q)
    PROVE  Single(q, s)
  BY DEF Single, Quiet

(* The token of the next state may be submitted when none is queued. *)
LEMMA QuietSubmitSingle ==
    ASSUME NEW q \in Seq(Events), NEW s, Quiet(q), NEW e \in Events,
           e \in Tokens => e \in TransitionsOf(s)
    PROVE  Single(q \o <<e>>, s)
  <1> DEFINE r == q \o <<e>>
  <1>1. /\ Len(q) \in Nat
        /\ Len(r) = Len(q) + 1
        /\ r[Len(r)] = e /\ \A i \in 1..Len(q) : r[i] = q[i]
    OBVIOUS
  <1> HIDE DEF r
  <1>2. \A i \in 1..Len(r) : r[i] \in Tokens => i = Len(r)
    BY <1>1 DEF Quiet
  <1> QED BY <1>1, <1>2 DEF Single, r

(* Submitting what is no token keeps the token single. *)
LEMMA SingleSubmit ==
    ASSUME NEW q \in Seq(Events), NEW s, Single(q, s), NEW e \in Events, e \notin Tokens
    PROVE  Single(q \o <<e>>, s) /\ Single(Append(q, e), s)
  <1> DEFINE r == q \o <<e>>
  <1>1. Append(q, e) = r
    OBVIOUS
  <1>2. /\ Len(q) \in Nat
        /\ Len(r) = Len(q) + 1
        /\ r[Len(r)] = e /\ \A i \in 1..Len(q) : r[i] = q[i]
    OBVIOUS
  <1> HIDE DEF r
  <1>3. \A i \in 1..Len(r) : r[i] \in Tokens => i \in 1..Len(q)
    BY <1>2
  <1> QED BY <1>1, <1>2, <1>3 DEF Single, r

(* The tokens are for the gates of SequenceCtrl. *)
LEMMA TokensAreForGates ==
    ASSUME NEW s \in SeqStates \cup {"Off"}
    PROVE  /\ s \notin Gates => TransitionsOf(s) \cap Tokens = {}
           /\ "DoFocus" \in TransitionsOf(s) => s \in {"FocusGate", "EvalShot"}
           /\ "StartGuide" \in TransitionsOf(s) => s = "GuideGate"
           /\ "DoDither" \in TransitionsOf(s) => s = "DitherGate"
  BY DEF TransitionsOf, Tokens, SeqStates, Gates

-----------------------------------------------------------------------------
(***************************************************************************)
(* The regions of Running in step.  The invariant that is kept by every    *)
(* step: the tokens SequenceCtrl hands itself are never stale.             *)
(***************************************************************************)
(* The tokens of q are for the configuration.                              *)
Fits(q) == IF top = "Running" THEN Single(q, seq) ELSE Quiet(q)

(* A running machine has no token but the one its current gate submitted.  *)
TokensFit == running => Fits(queue)

(* Only a running machine that has left Idle is inside Active's phases.    *)
Phases == top \in {"WaitCooling", "Running"} => running /\ ~starting /\ ~idle

(* The guider is only minded when it is used, and suspended for a focus.   *)
FlagsFit ==
    /\ guiderActive => UseGuiding
    /\ suspended => UseGuiding
    /\ running /\ suspended => top = "Running" /\ seq = "WaitFocus"

Inv == TypeOK /\ Lockstep /\ TokensFit /\ Phases /\ FlagsFit

(* An event from outside is no token.                                      *)
LEMMA SubmitFits ==
    ASSUME NEW q \in Seq(Events), Fits(q), NEW e \in Events, e \notin Tokens
    PROVE  Fits(q \o <<e>>) /\ Fits(Append(q, e))
  BY QuietSubmit, SingleSubmit DEF Fits

(* The token is taken, or none was queued.                                 *)
LEMMA RestIsQuiet ==
    ASSUME TypeOK, TokensFit, running, queue # <<>>,
           Head(queue) \in Tokens \/ seq \notin Gates \/ top # "Running"
    PROVE  Quiet(Rest)
  <1>1. queue \in Seq(Events) /\ seq \in SeqStates \cup {"Off"}
    BY DEF TypeOK, QueueType, StateType
  <1>2. CASE top # "Running"
    BY <1>1, <1>2, QuietRest DEF TokensFit, Fits, Rest
  <1>3. CASE top = "Running" /\ Head(queue) \in Tokens
    BY <1>1, <1>3, TokenTaken DEF TokensFit, Fits, Rest
  <1>4. CASE top = "Running" /\ seq \notin Gates
    BY <1>1, <1>4, TokensAreForGates, SingleIsQuiet, QuietRest DEF TokensFit, Fits, Rest
  <1> QED BY <1>2, <1>3, <1>4

(* A handler's token is for the state it belongs to.                       *)
LEMMA ConsumeFits ==
    ASSUME TypeOK, queue # <<>>, Quiet(Rest), NEW s, top' = "Running", seq' = s,
           NEW sub \in Submission, Consume(sub),
           \A e \in Tokens : sub = <<e>> => e \in TransitionsOf(s)
    PROVE  TokensFit'
  <1>1. Rest \in Seq(Events)
    BY RestIsQueue DEF TypeOK, QueueType, Rest
  <1>2. CASE sub = <<>>
    <2>1. queue' = Rest
      BY <1>1, <1>2, SubmitNone DEF Consume
    <2> QED BY <1>1, <2>1, QuietIsSingle DEF TokensFit, Fits
  <1>3. ASSUME NEW e \in Events, sub = <<e>> PROVE TokensFit'
    <2>1. queue' = Rest \o <<e>>
      BY <1>3 DEF Consume
    <2>2. Single(Rest \o <<e>>, s)
      BY <1>1, <1>3, QuietSubmitSingle
    <2> QED BY <2>1, <2>2 DEF TokensFit, Fits
  <1> QED BY <1>2, <1>3 DEF Submission

(* A handler outside Running submits no token.                             *)
LEMMA ConsumeKeepsQuiet ==
    ASSUME TypeOK, queue # <<>>, Quiet(Rest), top' # "Running",
           NEW sub \in Submission, Consume(sub), \A e \in Tokens : sub # <<e>>
    PROVE  TokensFit'
  <1>1. Rest \in Seq(Events)
    BY RestIsQueue DEF TypeOK, QueueType, Rest
  <1>2. CASE sub = <<>>
    BY <1>1, <1>2, SubmitNone DEF Consume, TokensFit, Fits
  <1>3. ASSUME NEW e \in Events, sub = <<e>> PROVE TokensFit'
    BY <1>1, <1>3, QuietSubmit DEF Consume, TokensFit, Fits
  <1> QED BY <1>2, <1>3 DEF Submission

(* A step keeps the invariant, if a start finds an empty machine.          *)
LEMMA InvStep ==
    ASSUME ~KeepsLeftovers
    PROVE  Inv /\ [Next]_vars => Inv'
  <1> SUFFICES ASSUME Inv, [Next]_vars PROVE Inv'
    OBVIOUS
  <1> TypeOK'
    BY TypeStep DEF Inv
  <1>1. CASE EnterIdle
    BY <1>1 DEF Inv, EnterIdle, Lockstep, TokensFit, Fits, Phases, FlagsFit, run
  <1>2. CASE OnStartSequence
    <2> DEFINE sub == IF EnableCooling THEN <<>> ELSE <<"CoolingReady">>
    <2>1. /\ queue # <<>>
          /\ running
          /\ ~starting
          /\ top \notin {"WaitCooling", "Running"}
          /\ Consume(sub)
      BY <1>2 DEF Inv, OnStartSequence, On, Phases
    <2>2. Quiet(Rest)
      BY <2>1, RestIsQuiet DEF Inv
    <2>3. sub \in Submission /\ \A e \in Tokens : sub # <<e>>
      BY DEF Submission, Events, Tokens
    <2>4. TokensFit'
      BY <1>2, <2>1, <2>2, <2>3, ConsumeKeepsQuiet DEF Inv, OnStartSequence
    <2>5. Lockstep' /\ Phases'
      BY <1>2, <2>1 DEF Lockstep, Phases, OnStartSequence, Consume
    <2>6. FlagsFit'
      BY <1>2, <2>1 DEF Inv, FlagsFit, OnStartSequence, Consume, run
    <2> QED BY <2>4, <2>5, <2>6 DEF Inv
  <1>3. CASE OnCoolingReady
    <2> DEFINE sub == IF line + 1 > NLines
                      THEN <<"SequenceDoneAll">> ELSE <<"LineLoaded">>
    <2>1. queue # <<>> /\ running /\ ~starting
      BY <1>3 DEF OnCoolingReady, On
    <2>2. top = "WaitCooling" /\ seq = "Off" /\ foc = "Off" /\ gui = "Off"
      BY <1>3 DEF Inv, OnCoolingReady, On, Lockstep
    <2>3. Consume(sub)
      BY <1>3, <2>2 DEF OnCoolingReady, SMInitLine
    <2>4. Quiet(Rest)
      BY <2>1, <2>2, RestIsQuiet DEF Inv, Gates
    <2>5. /\ sub \in Submission
          /\ \A e \in Tokens : sub = <<e>> => e \in TransitionsOf("InitLine")
      BY DEF Submission, Events, Tokens, TransitionsOf
    <2>6. top' = "Running" /\ seq' = "InitLine"
      BY <1>3, <2>2 DEF OnCoolingReady, SMInitLine
    <2>7. TokensFit'
      BY <2>1, <2>3, <2>4, <2>5, <2>6, ConsumeFits DEF Inv
    <2>8. Lockstep'
      BY <1>3, <2>2, <2>6 DEF Inv, Lockstep, OnCoolingReady, SMInitLine
    <2>9. Phases'
      BY <1>3, <2>1, <2>3, <2>2 DEF Inv, Phases, Consume, OnCoolingReady
    <2>10. FlagsFit'
      BY <1>3, <2>1, <2>2, <2>3, <2>6 DEF Inv, FlagsFit, Consume, run,
         OnCoolingReady, SMInitLine
    <2> QED BY <2>7, <2>8, <2>9, <2>10 DEF Inv
  <1>4. CASE OnLineLoaded
    <2> DEFINE sub == IF FilterWheel THEN <<>> ELSE <<"FilterReady">>
    <2>1. queue # <<>> /\ running /\ ~starting
      BY <1>4 DEF OnLineLoaded, On
    <2>2. top = "Running" /\ seq = "InitLine"
      BY <1>4 DEF Inv, OnLineLoaded, On, Lockstep
    <2>3. Consume(sub)
      BY <1>4, <2>2 DEF OnLineLoaded
    <2>4. Quiet(Rest)
      BY <1>4, <2>1, RestIsQuiet DEF Inv, OnLineLoaded, On, Tokens
    <2>5. /\ sub \in Submission
          /\ \A e \in Tokens : sub = <<e>> => e \in TransitionsOf("FilterStep")
      BY DEF Submission, Events, Tokens, TransitionsOf
    <2>6. top' = "Running" /\ seq' = "FilterStep"
      BY <1>4, <2>2 DEF OnLineLoaded
    <2>7. TokensFit'
      BY <2>1, <2>3, <2>4, <2>5, <2>6, ConsumeFits DEF Inv
    <2>8. Lockstep'
      BY <1>4, <2>2, <2>6 DEF Inv, Lockstep, OnLineLoaded
    <2>9. Phases'
      BY <1>4, <2>1, <2>3, <2>2 DEF Inv, Phases, Consume, OnLineLoaded
    <2>10. FlagsFit'
      BY <1>4, <2>1, <2>2, <2>3, <2>6 DEF Inv, FlagsFit, Consume, run, OnLineLoaded
    <2> QED BY <2>7, <2>8, <2>9, <2>10 DEF Inv
  <1>5. CASE OnFilterReady
    <2> DEFINE sub == IF IsLightOrFlat /\ FocusOnFilterChange /\ lastFocused # filter
                   THEN <<"DoFocus">> ELSE <<"SkipFocus">>
    <2>1. queue # <<>> /\ running /\ ~starting
      BY <1>5 DEF OnFilterReady, On
    <2>2. top = "Running" /\ seq = "FilterStep"
      BY <1>5 DEF Inv, OnFilterReady, On, Lockstep
    <2>3. Consume(sub)
      BY <1>5, <2>2 DEF OnFilterReady, SMFocusGate
    <2>4. Quiet(Rest)
      BY <2>1, <2>2, RestIsQuiet DEF Inv, Gates
    <2>5. /\ sub \in Submission
          /\ \A e \in Tokens : sub = <<e>> => e \in TransitionsOf("FocusGate")
      BY DEF Submission, Events, Tokens, TransitionsOf
    <2>6. top' = "Running" /\ seq' = "FocusGate"
      BY <1>5, <2>2 DEF OnFilterReady, SMFocusGate
    <2>7. TokensFit'
      BY <2>1, <2>3, <2>4, <2>5, <2>6, ConsumeFits DEF Inv
    <2>8. Lockstep'
      BY <1>5, <2>2, <2>6 DEF Inv, Lockstep, OnFilterReady, SMFocusGate
    <2>9. Phases'
      BY <1>5, <2>1, <2>3, <2>2 DEF Inv, Phases, Consume, OnFilterReady
    <2>10. FlagsFit'
      BY <1>5, <2>1, <2>2, <2>3, <2>6 DEF Inv, FlagsFit, Consume, run,
         OnFilterReady, SMFocusGate
    <2> QED BY <2>7, <2>8, <2>9, <2>10 DEF Inv
  <1>6. CASE OnDoFocus
    <2> DEFINE sub == <<>>
    <2>1. /\ queue # <<>>
          /\ running
          /\ ~starting
          /\ top = "Running"
          /\ Consume(sub)
          /\ Head(queue) = "DoFocus"
      BY <1>6 DEF Inv, OnDoFocus, On, Lockstep
    <2>2. "DoFocus" \in TransitionsOf(seq)
      BY <2>1, TokenTaken DEF Inv, TypeOK, QueueType, TokensFit, Fits, Tokens
    <2>3. seq \in {"FocusGate", "EvalShot"} /\ foc = "FocusIdle"
      BY <1>6, <2>1, <2>2, TokensAreForGates DEF Inv, TypeOK, StateType, FocStates,
         GuiStates, Lockstep
    <2>4. Quiet(Rest)
      BY <1>6, <2>1, RestIsQuiet DEF Inv, OnDoFocus, On, Tokens
    <2>5. /\ sub \in Submission
          /\ \A e \in Tokens : sub = <<e>> => e \in TransitionsOf("WaitFocus")
      BY DEF Submission, Events, Tokens, TransitionsOf
    <2>6. top' = "Running" /\ seq' = "WaitFocus"
      BY <1>6, <2>1, <2>3 DEF OnDoFocus, SMFocusing, AbortGuider
    <2>7. TokensFit'
      BY <2>1, <2>4, <2>5, <2>6, ConsumeFits DEF Inv
    <2>8. Lockstep'
      BY <1>6, <2>2, <2>3, <2>6 DEF Inv, Lockstep, OnDoFocus, SMFocusing, AbortGuider
    <2>9. Phases'
      BY <1>6, <2>1, <2>2 DEF Inv, Phases, Consume, OnDoFocus
    <2>10. FlagsFit'
      BY <1>6, <2>1, <2>2, <2>3, <2>6 DEF Inv, FlagsFit, Consume, run, OnDoFocus,
         SMFocusing, AbortGuider
    <2> QED BY <2>7, <2>8, <2>9, <2>10 DEF Inv
  <1>7. CASE OnSkipFocus
    <2> DEFINE sub == IF UseGuiding /\ ~(guiderActive /\ ~suspended)
                   THEN <<"StartGuide">> ELSE <<"SkipGuide">>
    <2>1. queue # <<>> /\ running /\ ~starting
      BY <1>7 DEF OnSkipFocus, On
    <2>2. top = "Running" /\ seq = "FocusGate"
      BY <1>7 DEF Inv, OnSkipFocus, On, Lockstep
    <2>3. Consume(sub)
      BY <1>7, <2>2 DEF OnSkipFocus, ToGuideGate, SMGuideGate
    <2>4. Quiet(Rest)
      BY <1>7, <2>1, RestIsQuiet DEF Inv, OnSkipFocus, On, Tokens
    <2>5. /\ sub \in Submission
          /\ \A e \in Tokens : sub = <<e>> => e \in TransitionsOf("GuideGate")
      BY DEF Submission, Events, Tokens, TransitionsOf
    <2>6. top' = "Running" /\ seq' = "GuideGate"
      BY <1>7, <2>2 DEF OnSkipFocus, ToGuideGate, SMGuideGate
    <2>7. TokensFit'
      BY <2>1, <2>3, <2>4, <2>5, <2>6, ConsumeFits DEF Inv
    <2>8. Lockstep'
      BY <1>7, <2>2, <2>6 DEF Inv, Lockstep, OnSkipFocus, ToGuideGate, SMGuideGate
    <2>9. Phases'
      BY <1>7, <2>1, <2>3, <2>2 DEF Inv, Phases, Consume, OnSkipFocus
    <2>10. FlagsFit'
      BY <1>7, <2>1, <2>2, <2>3, <2>6 DEF Inv, FlagsFit, Consume, run, OnSkipFocus,
         ToGuideGate, SMGuideGate
    <2> QED BY <2>7, <2>8, <2>9, <2>10 DEF Inv
  <1>8. CASE OnFocusDone
    <2> DEFINE sub == IF seq = "WaitFocus"
                   THEN IF UseGuiding /\ ~(guiderActive /\ ~suspended)
                        THEN <<"StartGuide">> ELSE <<"SkipGuide">>
                   ELSE <<>>
    <2>1. queue # <<>> /\ running /\ ~starting
      BY <1>8 DEF OnFocusDone, On
    <2>2. top = "Running" /\ seq = "WaitFocus" /\ foc = "Focusing"
      BY <1>8 DEF Inv, OnFocusDone, On, Lockstep
    <2>3. Consume(sub)
      BY <1>8, <2>2 DEF OnFocusDone, ToGuideGate, SMGuideGate
    <2>4. Quiet(Rest)
      BY <2>1, <2>2, RestIsQuiet DEF Inv, Gates
    <2>5. /\ sub \in Submission
          /\ \A e \in Tokens : sub = <<e>> => e \in TransitionsOf("GuideGate")
      BY DEF Submission, Events, Tokens, TransitionsOf
    <2>6. top' = "Running" /\ seq' = "GuideGate"
      BY <1>8, <2>2 DEF OnFocusDone, ToGuideGate, SMGuideGate
    <2>7. TokensFit'
      BY <2>1, <2>3, <2>4, <2>5, <2>6, ConsumeFits DEF Inv
    <2>8. Lockstep'
      BY <1>8, <2>2, <2>6 DEF Inv, Lockstep, OnFocusDone, ToGuideGate, SMGuideGate
    <2>9. Phases'
      BY <1>8, <2>1, <2>3, <2>2 DEF Inv, Phases, Consume, OnFocusDone
    <2>10. FlagsFit'
      BY <1>8, <2>1, <2>2, <2>3, <2>6 DEF Inv, FlagsFit, Consume, run, OnFocusDone,
         ToGuideGate, SMGuideGate
    <2> QED BY <2>7, <2>8, <2>9, <2>10 DEF Inv
  <1>9. CASE OnStartGuide
    <2> DEFINE sub == <<>>
    <2>1. /\ queue # <<>>
          /\ running
          /\ ~starting
          /\ top = "Running"
          /\ Consume(sub)
          /\ Head(queue) = "StartGuide"
      BY <1>9 DEF Inv, OnStartGuide, On, Lockstep
    <2>2. "StartGuide" \in TransitionsOf(seq)
      BY <2>1, TokenTaken DEF Inv, TypeOK, QueueType, TokensFit, Fits, Tokens
    <2>3. seq = "GuideGate" /\ gui = "GuideIdle"
      BY <1>9, <2>1, <2>2, TokensAreForGates DEF Inv, TypeOK, StateType, FocStates,
         GuiStates, Lockstep
    <2>4. Quiet(Rest)
      BY <1>9, <2>1, RestIsQuiet DEF Inv, OnStartGuide, On, Tokens
    <2>5. /\ sub \in Submission
          /\ \A e \in Tokens : sub = <<e>> => e \in TransitionsOf("WaitGuide")
      BY DEF Submission, Events, Tokens, TransitionsOf
    <2>6. top' = "Running" /\ seq' = "WaitGuide"
      BY <1>9, <2>1, <2>3 DEF OnStartGuide, SMGuideStarting, StartGuider
    <2>7. TokensFit'
      BY <2>1, <2>4, <2>5, <2>6, ConsumeFits DEF Inv
    <2>8. Lockstep'
      BY <1>9, <2>2, <2>3, <2>6 DEF Inv, Lockstep, OnStartGuide, SMGuideStarting,
         StartGuider
    <2>9. Phases'
      BY <1>9, <2>1, <2>2 DEF Inv, Phases, Consume, OnStartGuide
    <2>10. FlagsFit'
      BY <1>9, <2>1, <2>2, <2>3, <2>6 DEF Inv, FlagsFit, Consume, run, OnStartGuide,
         SMGuideStarting, StartGuider
    <2> QED BY <2>7, <2>8, <2>9, <2>10 DEF Inv
  <1>10. CASE OnGuideDone
    <2> DEFINE sub == IF seq = "WaitGuide" /\ ~SettleWait THEN <<"SettleDone">> ELSE <<>>
    <2>1. queue # <<>> /\ running /\ ~starting
      BY <1>10 DEF OnGuideDone, On
    <2>2. top = "Running" /\ seq = "WaitGuide" /\ gui # "Dithering"
      BY <1>10 DEF Inv, OnGuideDone, On, Lockstep
    <2>3. Consume(sub)
      BY <1>10, <2>2 DEF OnGuideDone, SMWaitSettle
    <2>4. Quiet(Rest)
      BY <2>1, <2>2, RestIsQuiet DEF Inv, Gates
    <2>5. /\ sub \in Submission
          /\ \A e \in Tokens : sub = <<e>> => e \in TransitionsOf("WaitSettle")
      BY DEF Submission, Events, Tokens, TransitionsOf
    <2>6. top' = "Running" /\ seq' = "WaitSettle"
      BY <1>10, <2>2 DEF OnGuideDone, SMWaitSettle
    <2>7. TokensFit'
      BY <2>1, <2>3, <2>4, <2>5, <2>6, ConsumeFits DEF Inv
    <2>8. Lockstep'
      BY <1>10, <2>2, <2>6 DEF Inv, Lockstep, OnGuideDone, SMWaitSettle
    <2>9. Phases'
      BY <1>10, <2>1, <2>3, <2>2 DEF Inv, Phases, Consume, OnGuideDone
    <2>10. FlagsFit'
      BY <1>10, <2>1, <2>2, <2>3, <2>6 DEF Inv, FlagsFit, Consume, run, OnGuideDone,
         SMWaitSettle
    <2> QED BY <2>7, <2>8, <2>9, <2>10 DEF Inv
  <1>11. CASE OnReadyToExpose
    <2> DEFINE sub == <<>>
    <2>1. queue # <<>> /\ running /\ ~starting
      BY <1>11 DEF OnReadyToExpose, On
    <2>2. top = "Running" /\ (seq = "WaitSettle" \/ Head(queue) \in Tokens)
      BY <1>11 DEF Inv, OnReadyToExpose, On, Lockstep, Tokens
    <2>3. Consume(sub)
      BY <1>11, <2>2 DEF OnReadyToExpose, SMExposing
    <2>4. Quiet(Rest)
      BY <2>1, <2>2, RestIsQuiet DEF Inv, Gates
    <2>5. /\ sub \in Submission
          /\ \A e \in Tokens : sub = <<e>> => e \in TransitionsOf("Exposing")
      BY DEF Submission, Events, Tokens, TransitionsOf
    <2>6. top' = "Running" /\ seq' = "Exposing"
      BY <1>11, <2>2 DEF OnReadyToExpose, SMExposing
    <2>7. TokensFit'
      BY <2>1, <2>3, <2>4, <2>5, <2>6, ConsumeFits DEF Inv
    <2>8. Lockstep'
      BY <1>11, <2>2, <2>6 DEF Inv, Lockstep, OnReadyToExpose, SMExposing
    <2>9. Phases'
      BY <1>11, <2>1, <2>3, <2>2 DEF Inv, Phases, Consume, OnReadyToExpose
    <2>10. FlagsFit'
      BY <1>11, <2>1, <2>2, <2>3, <2>6 DEF Inv, FlagsFit, Consume, run,
         OnReadyToExpose, SMExposing
    <2> QED BY <2>7, <2>8, <2>9, <2>10 DEF Inv
  <1>12. CASE OnExposureDone
    <2> DEFINE sub == IF IsLightOrFlat THEN <<>> ELSE <<"FindStarsDone">>
    <2>1. queue # <<>> /\ running /\ ~starting
      BY <1>12 DEF OnExposureDone, On
    <2>2. top = "Running" /\ seq = "Exposing"
      BY <1>12 DEF Inv, OnExposureDone, On, Lockstep
    <2>3. Consume(sub)
      BY <1>12, <2>2 DEF OnExposureDone, SMFindStars
    <2>4. Quiet(Rest)
      BY <2>1, <2>2, RestIsQuiet DEF Inv, Gates
    <2>5. /\ sub \in Submission
          /\ \A e \in Tokens : sub = <<e>> => e \in TransitionsOf("FindingStars")
      BY DEF Submission, Events, Tokens, TransitionsOf
    <2>6. top' = "Running" /\ seq' = "FindingStars"
      BY <1>12, <2>2 DEF OnExposureDone, SMFindStars
    <2>7. TokensFit'
      BY <2>1, <2>3, <2>4, <2>5, <2>6, ConsumeFits DEF Inv
    <2>8. Lockstep'
      BY <1>12, <2>2, <2>6 DEF Inv, Lockstep, OnExposureDone, SMFindStars
    <2>9. Phases'
      BY <1>12, <2>1, <2>3, <2>2 DEF Inv, Phases, Consume, OnExposureDone
    <2>10. FlagsFit'
      BY <1>12, <2>1, <2>2, <2>3, <2>6 DEF Inv, FlagsFit, Consume, run,
         OnExposureDone, SMFindStars
    <2> QED BY <2>7, <2>8, <2>9, <2>10 DEF Inv
  <1>13. CASE OnRMSAlert
    <2> DEFINE sub == <<>>
    <2>1. queue # <<>> /\ running /\ ~starting
      BY <1>13 DEF OnRMSAlert, On
    <2>2. top = "Running" /\ seq = "Exposing"
      BY <1>13 DEF Inv, OnRMSAlert, On, Lockstep
    <2>3. Consume(sub)
      BY <1>13, <2>2 DEF OnRMSAlert
    <2>4. Quiet(Rest)
      BY <2>1, <2>2, RestIsQuiet DEF Inv, Gates
    <2>5. /\ sub \in Submission
          /\ \A e \in Tokens : sub = <<e>> => e \in TransitionsOf("WaitGuide")
      BY DEF Submission, Events, Tokens, TransitionsOf
    <2>6. top' = "Running" /\ seq' = "WaitGuide"
      BY <1>13, <2>2 DEF OnRMSAlert
    <2>7. TokensFit'
      BY <2>1, <2>3, <2>4, <2>5, <2>6, ConsumeFits DEF Inv
    <2>8. Lockstep'
      BY <1>13, <2>2, <2>6 DEF Inv, Lockstep, OnRMSAlert
    <2>9. Phases'
      BY <1>13, <2>1, <2>3, <2>2 DEF Inv, Phases, Consume, OnRMSAlert
    <2>10. FlagsFit'
      BY <1>13, <2>1, <2>2, <2>3, <2>6 DEF Inv, FlagsFit, Consume, run, OnRMSAlert
    <2> QED BY <2>7, <2>8, <2>9, <2>10 DEF Inv
  <1>14. CASE OnFindStarsDone
    <2> DEFINE sub == IF IsLightOrFlat /\ HfrCheck /\ hfrHigh THEN <<"DoFocus">>
                   ELSE IF left - 1 > 0 THEN <<"NextShot">> ELSE <<"LineDone">>
    <2>1. queue # <<>> /\ running /\ ~starting
      BY <1>14 DEF OnFindStarsDone, On
    <2>2. top = "Running" /\ seq = "FindingStars"
      BY <1>14 DEF Inv, OnFindStarsDone, On, Lockstep
    <2>3. Consume(sub)
      BY <1>14, <2>2 DEF OnFindStarsDone, SMEvalShot, AcceptShot, MoreShots
    <2>4. Quiet(Rest)
      BY <2>1, <2>2, RestIsQuiet DEF Inv, Gates
    <2>5. /\ sub \in Submission
          /\ \A e \in Tokens : sub = <<e>> => e \in TransitionsOf("EvalShot")
      BY DEF Submission, Events, Tokens, TransitionsOf
    <2>6. top' = "Running" /\ seq' = "EvalShot"
      BY <1>14, <2>2 DEF OnFindStarsDone, SMEvalShot, AcceptShot, MoreShots
    <2>7. TokensFit'
      BY <2>1, <2>3, <2>4, <2>5, <2>6, ConsumeFits DEF Inv
    <2>8. Lockstep'
      BY <1>14, <2>2, <2>6 DEF Inv, Lockstep, OnFindStarsDone, SMEvalShot,
         AcceptShot, MoreShots
    <2>9. Phases'
      BY <1>14, <2>1, <2>3, <2>2 DEF Inv, Phases, Consume, OnFindStarsDone
    <2>10. FlagsFit'
      BY <1>14, <2>1, <2>2, <2>3, <2>6 DEF Inv, FlagsFit, Consume, run,
         OnFindStarsDone, SMEvalShot, AcceptShot, MoreShots
    <2> QED BY <2>7, <2>8, <2>9, <2>10 DEF Inv
  <1>15. CASE OnNextShot
    <2> DEFINE sub == IF DitherEvery > 0 /\ sinceDither >= DitherEvery /\ guiderActive
                   THEN <<"DoDither">> ELSE <<"SkipDither">>
    <2>1. queue # <<>> /\ running /\ ~starting
      BY <1>15 DEF OnNextShot, On
    <2>2. top = "Running" /\ seq = "EvalShot"
      BY <1>15 DEF Inv, OnNextShot, On, Lockstep
    <2>3. Consume(sub)
      BY <1>15, <2>2 DEF OnNextShot, SMDitherGate
    <2>4. Quiet(Rest)
      BY <1>15, <2>1, RestIsQuiet DEF Inv, OnNextShot, On, Tokens
    <2>5. /\ sub \in Submission
          /\ \A e \in Tokens : sub = <<e>> => e \in TransitionsOf("DitherGate")
      BY DEF Submission, Events, Tokens, TransitionsOf
    <2>6. top' = "Running" /\ seq' = "DitherGate"
      BY <1>15, <2>2 DEF OnNextShot, SMDitherGate
    <2>7. TokensFit'
      BY <2>1, <2>3, <2>4, <2>5, <2>6, ConsumeFits DEF Inv
    <2>8. Lockstep'
      BY <1>15, <2>2, <2>6 DEF Inv, Lockstep, OnNextShot, SMDitherGate
    <2>9. Phases'
      BY <1>15, <2>1, <2>3, <2>2 DEF Inv, Phases, Consume, OnNextShot
    <2>10. FlagsFit'
      BY <1>15, <2>1, <2>2, <2>3, <2>6 DEF Inv, FlagsFit, Consume, run, OnNextShot,
         SMDitherGate
    <2> QED BY <2>7, <2>8, <2>9, <2>10 DEF Inv
  <1>16. CASE OnLineDone
    <2> DEFINE sub == IF line + 1 > NLines
                      THEN <<"SequenceDoneAll">> ELSE <<"LineLoaded">>
    <2>1. queue # <<>> /\ running /\ ~starting
      BY <1>16 DEF OnLineDone, On
    <2>2. top = "Running" /\ seq = "EvalShot"
      BY <1>16 DEF Inv, OnLineDone, On, Lockstep
    <2>3. Consume(sub)
      BY <1>16, <2>2 DEF OnLineDone, SMInitLine
    <2>4. Quiet(Rest)
      BY <1>16, <2>1, RestIsQuiet DEF Inv, OnLineDone, On, Tokens
    <2>5. /\ sub \in Submission
          /\ \A e \in Tokens : sub = <<e>> => e \in TransitionsOf("InitLine")
      BY DEF Submission, Events, Tokens, TransitionsOf
    <2>6. top' = "Running" /\ seq' = "InitLine"
      BY <1>16, <2>2 DEF OnLineDone, SMInitLine
    <2>7. TokensFit'
      BY <2>1, <2>3, <2>4, <2>5, <2>6, ConsumeFits DEF Inv
    <2>8. Lockstep'
      BY <1>16, <2>2, <2>6 DEF Inv, Lockstep, OnLineDone, SMInitLine
    <2>9. Phases'
      BY <1>16, <2>1, <2>3, <2>2 DEF Inv, Phases, Consume, OnLineDone
    <2>10. FlagsFit'
      BY <1>16, <2>1, <2>2, <2>3, <2>6 DEF Inv, FlagsFit, Consume, run, OnLineDone,
         SMInitLine
    <2> QED BY <2>7, <2>8, <2>9, <2>10 DEF Inv
  <1>17. CASE OnDoDither
    <2> DEFINE sub == <<>>
    <2>1. /\ queue # <<>>
          /\ running
          /\ ~starting
          /\ top = "Running"
          /\ Consume(sub)
          /\ Head(queue) = "DoDither"
      BY <1>17 DEF Inv, OnDoDither, On, Lockstep
    <2>2. "DoDither" \in TransitionsOf(seq)
      BY <2>1, TokenTaken DEF Inv, TypeOK, QueueType, TokensFit, Fits, Tokens
    <2>3. seq = "DitherGate" /\ gui = "GuideIdle"
      BY <1>17, <2>1, <2>2, TokensAreForGates DEF Inv, TypeOK, StateType, FocStates,
         GuiStates, Lockstep
    <2>4. Quiet(Rest)
      BY <1>17, <2>1, RestIsQuiet DEF Inv, OnDoDither, On, Tokens
    <2>5. /\ sub \in Submission
          /\ \A e \in Tokens : sub = <<e>> => e \in TransitionsOf("WaitDither")
      BY DEF Submission, Events, Tokens, TransitionsOf
    <2>6. top' = "Running" /\ seq' = "WaitDither"
      BY <1>17, <2>1, <2>3 DEF OnDoDither, SMDithering
    <2>7. TokensFit'
      BY <2>1, <2>4, <2>5, <2>6, ConsumeFits DEF Inv
    <2>8. Lockstep'
      BY <1>17, <2>2, <2>3, <2>6 DEF Inv, Lockstep, OnDoDither, SMDithering
    <2>9. Phases'
      BY <1>17, <2>1, <2>2 DEF Inv, Phases, Consume, OnDoDither
    <2>10. FlagsFit'
      BY <1>17, <2>1, <2>2, <2>3, <2>6 DEF Inv, FlagsFit, Consume, run, OnDoDither,
         SMDithering
    <2> QED BY <2>7, <2>8, <2>9, <2>10 DEF Inv
  <1>18. CASE OnDitherDone
    <2> DEFINE sub == IF seq = "WaitDither" /\ ~SettleWait THEN <<"SettleDone">> ELSE <<>>
    <2>1. queue # <<>> /\ running /\ ~starting
      BY <1>18 DEF OnDitherDone, On
    <2>2. top = "Running" /\ seq = "WaitDither" /\ gui = "Dithering"
      BY <1>18 DEF Inv, OnDitherDone, On, Lockstep
    <2>3. Consume(sub)
      BY <1>18, <2>2 DEF OnDitherDone, SMWaitSettle
    <2>4. Quiet(Rest)
      BY <2>1, <2>2, RestIsQuiet DEF Inv, Gates
    <2>5. /\ sub \in Submission
          /\ \A e \in Tokens : sub = <<e>> => e \in TransitionsOf("WaitSettle")
      BY DEF Submission, Events, Tokens, TransitionsOf
    <2>6. top' = "Running" /\ seq' = "WaitSettle"
      BY <1>18, <2>2 DEF OnDitherDone, SMWaitSettle
    <2>7. TokensFit'
      BY <2>1, <2>3, <2>4, <2>5, <2>6, ConsumeFits DEF Inv
    <2>8. Lockstep'
      BY <1>18, <2>2, <2>6 DEF Inv, Lockstep, OnDitherDone, SMWaitSettle
    <2>9. Phases'
      BY <1>18, <2>1, <2>3, <2>2 DEF Inv, Phases, Consume, OnDitherDone
    <2>10. FlagsFit'
      BY <1>18, <2>1, <2>2, <2>3, <2>6 DEF Inv, FlagsFit, Consume, run,
         OnDitherDone, SMWaitSettle
    <2> QED BY <2>7, <2>8, <2>9, <2>10 DEF Inv
  <1>19. CASE OnSequenceDoneAll
    <2>1. SMDone
      BY <1>19 DEF OnSequenceDoneAll
    <2> QED
      BY <2>1 DEF Inv, SMDone, StopIn, Lockstep, TokensFit, Phases, FlagsFit, Terminal
  <1>20. CASE OnAbort
    <2>1. SMAborted
      BY <1>20 DEF OnAbort
    <2> QED
      BY <2>1 DEF Inv, SMAborted, StopIn, Lockstep, TokensFit, Phases, FlagsFit,
         Terminal
  <1>21. CASE OnFatal
    <2>1. SMError
      BY <1>21 DEF OnFatal
    <2> QED
      BY <2>1 DEF Inv, SMError, StopIn, Lockstep, TokensFit, Phases, FlagsFit, Terminal
  <1>22. CASE Discard
    <2>1. /\ queue # <<>>
          /\ running
          /\ Consume(<<>>)
          /\ UNCHANGED <<top, seq, foc, gui, idle, run>>
      BY <1>22 DEF Discard
    <2>2. queue' = Rest
      BY <2>1, RestIsQueue, SubmitNone DEF Inv, TypeOK, QueueType, Consume, Rest
    <2>3. TokensFit'
      BY <2>1, <2>2, QuietRest, SingleRest DEF Inv, TypeOK, QueueType, TokensFit,
         Fits, Rest
    <2>4. Lockstep' /\ Phases'
      BY <2>1 DEF Inv, Lockstep, Phases, Consume
    <2>5. FlagsFit'
      BY <2>1 DEF Inv, FlagsFit, Consume, run
    <2> QED BY <2>3, <2>4, <2>5 DEF Inv
  <1>23. CASE StartSequence
    <2>1. /\ ~KeepsLeftovers
          /\ queue' = <<"startsequence">>
          /\ running'
          /\ top' = "None"
          /\ ~running
      BY <1>23, SequencerAssumption DEF StartSequence, MayStart
    <2>2. TokensFit'
      BY <2>1 DEF TokensFit, Fits, Quiet, Tokens
    <2>3. Lockstep' /\ Phases'
      BY <1>23, <2>1 DEF Inv, Lockstep, Phases, StartSequence
    <2>4. FlagsFit'
      BY <1>23 DEF FlagsFit, StartSequence, ResetRun
    <2> QED BY <2>2, <2>3, <2>4 DEF Inv
  <1>24. CASE StartWithoutCamera
    BY <1>24 DEF Inv, Lockstep, TokensFit, Fits, Phases, FlagsFit,
       StartWithoutCamera, ResetRun, machine
  <1>25. CASE AbortSequence
    <2>1. UNCHANGED <<running, starting, idle, top, seq, foc, gui>>
      BY <1>25 DEF AbortSequence
    <2>2. queue' = queue \/ queue' = Append(queue, "abort")
      BY <1>25 DEF AbortSequence
    <2>3. TokensFit'
      BY <2>1, <2>2, SubmitFits DEF Inv, TypeOK, QueueType, TokensFit, Fits, Events,
         Tokens
    <2>4. Lockstep' /\ Phases'
      BY <2>1 DEF Inv, Lockstep, Phases
    <2>5. FlagsFit'
      BY <1>25, <2>1 DEF Inv, FlagsFit, AbortSequence
    <2> QED BY <2>3, <2>4, <2>5 DEF Inv
  <1>26. CASE onGuidingSettleTimeout
    <2>1. UNCHANGED <<running, starting, idle, top, seq, foc, gui>>
      BY <1>26 DEF onGuidingSettleTimeout, Submit
    <2>2. queue' = queue \/ queue' = Append(queue, "SettleDone")
      BY <1>26 DEF onGuidingSettleTimeout, Submit
    <2>3. TokensFit'
      BY <2>1, <2>2, SubmitFits DEF Inv, TypeOK, QueueType, TokensFit, Fits, Events,
         Tokens
    <2>4. Lockstep' /\ Phases'
      BY <2>1 DEF Inv, Lockstep, Phases
    <2>5. FlagsFit'
      BY <1>26, <2>1 DEF Inv, FlagsFit, onGuidingSettleTimeout
    <2> QED BY <2>3, <2>4, <2>5 DEF Inv
  <1>27. CASE OnSucessSEP
    <2>1. UNCHANGED <<running, starting, idle, top, seq, foc, gui>>
      BY <1>27 DEF OnSucessSEP, Submit
    <2>2. queue' = queue \/ queue' = Append(queue, "FindStarsDone")
      BY <1>27 DEF OnSucessSEP, Submit
    <2>3. TokensFit'
      BY <2>1, <2>2, SubmitFits DEF Inv, TypeOK, QueueType, TokensFit, Fits, Events,
         Tokens
    <2>4. Lockstep' /\ Phases'
      BY <2>1 DEF Inv, Lockstep, Phases
    <2>5. FlagsFit'
      BY <1>27, <2>1 DEF Inv, FlagsFit, OnSucessSEP
    <2> QED BY <2>3, <2>4, <2>5 DEF Inv
  <1>28. CASE FocuserReady
    <2>1. UNCHANGED <<running, starting, idle, top, seq, foc, gui>>
      BY <1>28 DEF FocuserReady, Submit
    <2>2. queue' = queue \/ queue' = Append(queue, "FocusDone")
      BY <1>28 DEF FocuserReady, Submit
    <2>3. TokensFit'
      BY <2>1, <2>2, SubmitFits DEF Inv, TypeOK, QueueType, TokensFit, Fits, Events,
         Tokens
    <2>4. Lockstep' /\ Phases'
      BY <2>1 DEF Inv, Lockstep, Phases
    <2>5. FlagsFit'
      BY <1>28, <2>1 DEF Inv, FlagsFit, FocuserReady
    <2> QED BY <2>3, <2>4, <2>5 DEF Inv
  <1>29. CASE FocuserFails
    BY <1>29 DEF Inv, Lockstep, TokensFit, Fits, Phases, FlagsFit, FocuserFails,
       machine, run
  <1>30. CASE GuiderGuiding
    <2>1. UNCHANGED <<running, starting, idle, top, seq, foc, gui>>
      BY <1>30 DEF GuiderGuiding
    <2>2. \/ queue' = queue
          \/ queue' = queue \o <<"GuideDone">>
          \/ queue' = queue \o <<"DitherDone">>
      BY <1>30, SubmitNone DEF Inv, TypeOK, QueueType, GuiderGuiding, AwaitedFromGuider
    <2>3. TokensFit'
      BY <2>1, <2>2, SubmitFits DEF Inv, TypeOK, QueueType, TokensFit, Fits, Events,
         Tokens
    <2>4. Lockstep' /\ Phases'
      BY <2>1 DEF Inv, Lockstep, Phases
    <2>5. FlagsFit'
      BY <1>30, <2>1 DEF Inv, FlagsFit, GuiderGuiding
    <2> QED BY <2>3, <2>4, <2>5 DEF Inv
  <1>31. CASE GuiderRms
    <2>1. UNCHANGED <<running, starting, idle, top, seq, foc, gui>>
      BY <1>31 DEF GuiderRms
    <2>2. queue' = queue \/ queue' = Append(queue, "GuideDone")
      BY <1>31 DEF GuiderRms
    <2>3. TokensFit'
      BY <2>1, <2>2, SubmitFits DEF Inv, TypeOK, QueueType, TokensFit, Fits, Events,
         Tokens
    <2>4. Lockstep' /\ Phases'
      BY <2>1 DEF Inv, Lockstep, Phases
    <2>5. FlagsFit'
      BY <1>31, <2>1 DEF Inv, FlagsFit, GuiderRms
    <2> QED BY <2>3, <2>4, <2>5 DEF Inv
  <1>32. CASE GuiderRmsAlert
    <2>1. UNCHANGED <<running, starting, idle, top, seq, foc, gui>>
      BY <1>32 DEF GuiderRmsAlert
    <2>2. PICK q : q = Append(queue, "RMSAlert")
      OBVIOUS
    <2>3. q \in Seq(Events) /\ (Fits(queue) => Fits(q))
      BY <2>2, SubmitOne, SubmitFits DEF Inv, TypeOK, QueueType, Events, Tokens
    <2>4. Fits(q) => Fits(q \o AwaitedFromGuider)
      BY <2>3, SubmitNone, SubmitFits DEF AwaitedFromGuider, Events, Tokens
    <2>5. TokensFit'
      BY <1>32, <2>1, <2>2, <2>3, <2>4 DEF Inv, TokensFit, Fits, GuiderRmsAlert
    <2>6. Lockstep' /\ Phases'
      BY <2>1 DEF Inv, Lockstep, Phases
    <2>7. FlagsFit'
      BY <1>32, <2>1 DEF Inv, FlagsFit, GuiderRmsAlert
    <2> QED BY <2>5, <2>6, <2>7 DEF Inv
  <1>33. CASE GuiderFails
    BY <1>33 DEF Inv, Lockstep, TokensFit, Fits, Phases, FlagsFit, GuiderFails,
       machine, run
  <1>34. CASE GuiderReady
    <2>1. UNCHANGED <<running, starting, idle, top, seq, foc, gui>>
      BY <1>34 DEF GuiderReady
    <2>2. queue' = queue \/ queue' = Append(queue, "GuiderLost")
      BY <1>34 DEF GuiderReady
    <2>3. TokensFit'
      BY <2>1, <2>2, SubmitFits DEF Inv, TypeOK, QueueType, TokensFit, Fits, Events,
         Tokens
    <2>4. Lockstep' /\ Phases'
      BY <2>1 DEF Inv, Lockstep, Phases
    <2>5. FlagsFit'
      BY <1>34, <2>1 DEF Inv, FlagsFit, GuiderReady
    <2> QED BY <2>3, <2>4, <2>5 DEF Inv
  <1>35. CASE CoolingReached
    <2>1. UNCHANGED <<running, starting, idle, top, seq, foc, gui>>
      BY <1>35 DEF CoolingReached, Submit
    <2>2. queue' = queue \/ queue' = Append(queue, "CoolingReady")
      BY <1>35 DEF CoolingReached, Submit, run
    <2>3. TokensFit'
      BY <2>1, <2>2, SubmitFits DEF Inv, TypeOK, QueueType, TokensFit, Fits, Events,
         Tokens
    <2>4. Lockstep' /\ Phases'
      BY <2>1 DEF Inv, Lockstep, Phases
    <2>5. FlagsFit'
      BY <1>35, <2>1 DEF Inv, FlagsFit, CoolingReached, run
    <2> QED BY <2>3, <2>4, <2>5 DEF Inv
  <1>36. CASE FilterReached
    <2>1. UNCHANGED <<running, starting, idle, top, seq, foc, gui>>
      BY <1>36 DEF FilterReached, Submit
    <2>2. queue' = queue \/ queue' = Append(queue, "FilterReady")
      BY <1>36 DEF FilterReached, Submit, run
    <2>3. TokensFit'
      BY <2>1, <2>2, SubmitFits DEF Inv, TypeOK, QueueType, TokensFit, Fits, Events,
         Tokens
    <2>4. Lockstep' /\ Phases'
      BY <2>1 DEF Inv, Lockstep, Phases
    <2>5. FlagsFit'
      BY <1>36, <2>1 DEF Inv, FlagsFit, FilterReached, run
    <2> QED BY <2>3, <2>4, <2>5 DEF Inv
  <1>37. CASE CameraAlert
    <2>1. UNCHANGED <<running, starting, idle, top, seq, foc, gui>>
      BY <1>37 DEF CameraAlert, Submit
    <2>2. queue' = queue \/ queue' = Append(queue, "CameraAlert")
      BY <1>37 DEF CameraAlert, Submit, run
    <2>3. TokensFit'
      BY <2>1, <2>2, SubmitFits DEF Inv, TypeOK, QueueType, TokensFit, Fits, Events,
         Tokens
    <2>4. Lockstep' /\ Phases'
      BY <2>1 DEF Inv, Lockstep, Phases
    <2>5. FlagsFit'
      BY <1>37, <2>1 DEF Inv, FlagsFit, CameraAlert, run
    <2> QED BY <2>3, <2>4, <2>5 DEF Inv
  <1>38. CASE FrameArrives
    BY <1>38 DEF Inv, Lockstep, TokensFit, Fits, Phases, FlagsFit, FrameArrives,
       machine, run
  <1>39. CASE FrameSaved
    <2>1. UNCHANGED <<running, starting, idle, top, seq, foc, gui>>
      BY <1>39 DEF FrameSaved
    <2>2. queue' = queue \/ queue' = Append(queue, "ExposureDone")
      BY <1>39 DEF FrameSaved, run
    <2>3. TokensFit'
      BY <2>1, <2>2, SubmitFits DEF Inv, TypeOK, QueueType, TokensFit, Fits, Events,
         Tokens
    <2>4. Lockstep' /\ Phases'
      BY <2>1 DEF Inv, Lockstep, Phases
    <2>5. FlagsFit'
      BY <1>39, <2>1 DEF Inv, FlagsFit, FrameSaved, run
    <2> QED BY <2>3, <2>4, <2>5 DEF Inv
  <1>40. ASSUME NEW s \in Timed, TimerFires(s) PROVE Inv'
    <2>1. /\ UNCHANGED <<running, starting, idle, top, seq, foc, gui, run>>
          /\ queue' = Append(queue, TimeoutOf[s])
      BY <1>40 DEF TimerFires, Submit
    <2>2. TimeoutOf[s] \in Events /\ TimeoutOf[s] \notin Tokens
      BY DEF TimeoutOf, Timed, Events, Timeouts, Tokens
    <2>3. TokensFit'
      BY <2>1, <2>2, SubmitFits DEF Inv, TypeOK, QueueType, TokensFit, Fits
    <2>4. Lockstep' /\ Phases'
      BY <2>1 DEF Inv, Lockstep, Phases
    <2>5. FlagsFit'
      BY <2>1 DEF Inv, FlagsFit, run
    <2> QED BY <2>3, <2>4, <2>5 DEF Inv
  <1>41. CASE UNCHANGED vars
    BY <1>41 DEF Inv, Lockstep, TokensFit, Fits, Phases, FlagsFit, vars, machine, run
  <1> QED
    BY <1>1, <1>2, <1>3, <1>4, <1>5, <1>6, <1>7, <1>8, <1>9, <1>10, <1>11, <1>12,
       <1>13, <1>14, <1>15, <1>16, <1>17, <1>18, <1>19, <1>20, <1>21, <1>22, <1>23,
       <1>24, <1>25, <1>26, <1>27, <1>28, <1>29, <1>30, <1>31, <1>32, <1>33, <1>34,
       <1>35, <1>36, <1>37, <1>38, <1>39, <1>40, <1>41
    DEF Next, User, ProcessEvent

(* The invariant holds in every run. *)
LEMMA InvHolds ==
    ASSUME ~KeepsLeftovers
    PROVE  Spec => []Inv
  <1>1. Init => Inv
    BY TypeInit DEF Init, Inv, Lockstep, TokensFit, Phases, FlagsFit
  <1> QED BY <1>1, InvStep, PTL DEF Spec

(* The regions stay in step in every run of a machine that starts empty:   *)
(* no order of tokens, watchdogs and answers of the slave modules lets one *)
(* region take a shared event without the other (scxml:21-29).             *)
THEOREM RegionsInStep ==
    ASSUME ~KeepsLeftovers
    PROVE  Spec => []Lockstep
  BY InvHolds, PTL DEF Inv

(* Guiding suspended for a focus is asked back as soon as the focus ends,  *)
(* whatever the guider reported meanwhile (SMFocusing, SMGuideGate).       *)
THEOREM SuspensionEnds ==
    ASSUME ~KeepsLeftovers
    PROVE  Spec => []SuspensionEndsWithFocus
  <1>1. Inv => SuspensionEndsWithFocus
    BY DEF Inv, Phases, FlagsFit, SuspensionEndsWithFocus
  <1> QED BY <1>1, InvHolds, PTL
-----------------------------------------------------------------------------
(***************************************************************************)
(* Timeouts and settling.  A timed state is entered by one event; when its *)
(* timer fires no such event is queued, and what is submitted later comes  *)
(* behind the timeout: it is taken, or dropped, before the state is        *)
(* entered again.                                                          *)
(***************************************************************************)
EntersBy == [s \in Timed |->
    CASE s = "WaitCooling"   -> {"startsequence"}
      [] s = "FilterStep"    -> {"LineLoaded"}
      [] s = "Exposing"      -> {"SkipGuide", "SkipDither", "SettleDone"}
      [] s = "Focusing"      -> {"DoFocus"}
      [] s = "GuideStarting" -> {"StartGuide"}
      [] s = "Dithering"     -> {"DoDither"}]

(* No timeout of a state is behind an event that enters it. *)
InOrder(q) ==
    \A s \in Timed : \A i, j \in 1..Len(q) :
        i < j /\ q[j] = TimeoutOf[s] => q[i] \notin EntersBy[s]

Once(q, e) == \A i, j \in 1..Len(q) : q[i] = e /\ q[j] = e => i = j

(* What is no token is for the configuration too. *)
QueueFits(q) ==
    /\ InOrder(q)
    /\ \A s \in armed : ~Contains(q, TimeoutOf[s])
    /\ Once(q, "startsequence") /\ Once(q, "SettleDone")
    /\ Contains(q, "startsequence") => top \notin {"WaitCooling", "Running"}
    /\ Contains(q, "SettleDone") => seq = "WaitSettle" /\ ~settle
    /\ Contains(q, "SequenceDoneAll") => seq = "InitLine" /\ Quiet(q)

Fresh ==
    /\ armed \subseteq Config
    /\ settle => seq = "WaitSettle"
    /\ running => QueueFits(queue)

(* What is left of a queue. *)
LEMMA OfRest ==
    ASSUME NEW q \in Seq(Events), q # <<>>
    PROVE  /\ InOrder(q) => InOrder(Tail(q))
           /\ \A e : Contains(Tail(q), e) => Contains(q, e)
           /\ \A e : Once(q, e) => Once(Tail(q), e)
           /\ \A e : Once(q, e) /\ Head(q) = e => ~Contains(Tail(q), e)
           /\ \A s \in Timed : InOrder(q) /\ Head(q) \in EntersBy[s]
                                 => ~Contains(Tail(q), TimeoutOf[s])
  <1> DEFINE r == Tail(q)
  <1>1. /\ Len(q) \in Nat /\ Len(r) = Len(q) - 1 /\ \A i \in 1..Len(r) : r[i] = q[i + 1]
        /\ Head(q) = q[1] /\ 1 \in 1..Len(q)
    OBVIOUS
  <1> HIDE DEF r
  <1>2. \A i \in 1..Len(r) : i + 1 \in 1..Len(q) /\ i + 1 # 1 /\ 1 < i + 1
    BY <1>1
  <1>3. InOrder(q) => InOrder(r)
    BY <1>1, <1>2 DEF InOrder
  <1>4. /\ \A e : Contains(r, e) => Contains(q, e)
        /\ \A e : Once(q, e) => Once(r, e)
        /\ \A e : Once(q, e) /\ Head(q) = e => ~Contains(r, e)
    BY <1>1, <1>2 DEF Contains, Once
  <1>5. \A s \in Timed : InOrder(q) /\ Head(q) \in EntersBy[s] => ~Contains(r, TimeoutOf[s])
    BY <1>1, <1>2 DEF InOrder, Contains
  <1> QED BY <1>3, <1>4, <1>5 DEF r

(* What is submitted. *)
LEMMA OfSubmission ==
    ASSUME NEW q \in Seq(Events), NEW x \in Events
    PROVE  /\ Append(q, x) = q \o <<x>>
           /\ \A e : Contains(q \o <<x>>, e) <=> Contains(q, e) \/ e = x
           /\ \A e : Once(q, e) /\ (e # x \/ ~Contains(q, e)) => Once(q \o <<x>>, e)
           /\ InOrder(q) /\ (\A s \in Timed : x = TimeoutOf[s] =>
                                \A e \in EntersBy[s] : ~Contains(q, e))
                => InOrder(q \o <<x>>)
  <1> DEFINE r == q \o <<x>>
  <1>1. Append(q, x) = r
    OBVIOUS
  <1>2. /\ Len(q) \in Nat
        /\ Len(r) = Len(q) + 1
        /\ r[Len(r)] = x /\ \A i \in 1..Len(q) : r[i] = q[i]
    OBVIOUS
  <1> HIDE DEF r
  <1>3. /\ Len(r) \in 1..Len(r)
        /\ \A i \in 1..Len(q) : i \in 1..Len(r)
        /\ \A i \in 1..Len(r) : i \in 1..Len(q) \/ i = Len(r)
        /\ \A i, j \in 1..Len(r) : i < j => i \in 1..Len(q)
    BY <1>2
  <1>4. /\ \A e : Contains(r, e) <=> Contains(q, e) \/ e = x
        /\ \A e : Once(q, e) /\ (e # x \/ ~Contains(q, e)) => Once(r, e)
    BY <1>2, <1>3 DEF Contains, Once
  <1>5. ASSUME InOrder(q),
               \A s \in Timed : x = TimeoutOf[s] => \A e \in EntersBy[s] : ~Contains(q, e)
        PROVE  InOrder(r)
    <2>1. SUFFICES ASSUME NEW s \in Timed, NEW i \in 1..Len(r), NEW j \in 1..Len(r),
                          i < j, r[j] = TimeoutOf[s]
                   PROVE  r[i] \notin EntersBy[s]
      BY DEF InOrder
    <2>2. i \in 1..Len(q) /\ r[i] = q[i]
      BY <1>2, <1>3, <2>1
    <2>3. CASE j \in 1..Len(q)
      BY <1>2, <1>5, <2>1, <2>2, <2>3 DEF InOrder
    <2>4. CASE j = Len(r)
      BY <1>2, <1>5, <2>1, <2>2, <2>4 DEF Contains
    <2> QED BY <1>3, <2>3, <2>4
  <1> QED BY <1>1, <1>4, <1>5 DEF r

(* An event from outside is none that these facts are about. *)
News == Events \ (Tokens \cup Timeouts \cup {"startsequence", "SettleDone", "SequenceDoneAll"})

LEMMA TimeoutsAreTimeouts == \A s \in Timed : TimeoutOf[s] \in Timeouts
  BY DEF Timed, TimeoutOf, Timeouts

LEMMA NewsFits ==
    ASSUME armed \subseteq Timed, NEW q \in Seq(Events), QueueFits(q), NEW x \in News
    PROVE  QueueFits(q \o <<x>>) /\ QueueFits(Append(q, x))
  <1>1. \A s \in Timed : x # TimeoutOf[s]
    BY TimeoutsAreTimeouts DEF News
  <1>2. x \in Events /\ x \notin Tokens
        /\ x \notin {"startsequence", "SettleDone", "SequenceDoneAll"}
    BY DEF News
  <1>3. InOrder(q \o <<x>>)
    BY <1>1, <1>2, OfSubmission DEF QueueFits
  <1>4. \A e : Contains(q \o <<x>>, e) <=> Contains(q, e) \/ e = x
    BY <1>2, OfSubmission
  <1>5. Once(q \o <<x>>, "startsequence") /\ Once(q \o <<x>>, "SettleDone")
    BY <1>2, OfSubmission DEF QueueFits
  <1>6. Quiet(q) => Quiet(q \o <<x>>)
    BY <1>2, QuietSubmit
  <1>7. QueueFits(q \o <<x>>)
    BY <1>1, <1>2, <1>3, <1>4, <1>5, <1>6 DEF QueueFits
  <1> QED BY <1>2, <1>7, OfSubmission

-----------------------------------------------------------------------------
(* What the interpreter does with an event and sub, what is submitted.     *)

(* A timer is started by an event that enters its state, and cancelled     *)
(* when its state is left.                                                 *)
ArmsWell ==
    /\ armed' \subseteq Config'
    /\ \A s \in armed' : s \in armed \/ Head(queue) \in EntersBy[s]

(* The settling is waited for once, in WaitSettle.                         *)
SettlesWell(sub) ==
    /\ settle' => seq' = "WaitSettle"
    /\ seq = "WaitSettle" => \/ Head(queue) = "SettleDone"
                             \/ seq' = "WaitSettle" /\ settle' = settle /\ sub # <<"SettleDone">>
    /\ sub = <<"SettleDone">> => seq # "WaitSettle" /\ seq' = "WaitSettle" /\ ~settle'

(* The end is announced by the last InitLine, which waits for nothing else. *)
EndsWell(sub) ==
    /\ seq = "InitLine" => Head(queue) \in Tokens \/ (seq' = "InitLine" /\ sub = <<>>)
    /\ sub = <<"SequenceDoneAll">> => seq # "InitLine" /\ seq' = "InitLine" /\ Quiet(Rest)

LEMMA ConsumeIsFresh ==
    ASSUME TypeOK, TypeOK', Fresh, running, queue # <<>>, NEW sub \in Submission, Consume(sub),
           \A e \in Timeouts \cup {"startsequence"} : sub # <<e>>,
           top' \in {"WaitCooling", "Running"} =>
              top \in {"WaitCooling", "Running"} \/ Head(queue) = "startsequence",
           ArmsWell, SettlesWell(sub), EndsWell(sub)
    PROVE  Fresh'
  <1>1. /\ queue \in Seq(Events) /\ Rest \in Seq(Events) /\ QueueFits(queue)
        /\ armed \subseteq Timed /\ armed' \subseteq Timed
    BY RestIsQueue DEF TypeOK, QueueType, StateType, Rest, Fresh
  <1>2. /\ InOrder(Rest)
        /\ \A e : Contains(Rest, e) => Contains(queue, e)
        /\ Once(Rest, "startsequence") /\ Once(Rest, "SettleDone")
        /\ \A e \in {"startsequence", "SettleDone"} : Head(queue) = e => ~Contains(Rest, e)
        /\ \A s \in Timed : Head(queue) \in EntersBy[s] => ~Contains(Rest, TimeoutOf[s])
    BY <1>1, OfRest DEF Rest, QueueFits
  <1>3. \A s \in armed' : ~Contains(Rest, TimeoutOf[s])
    BY <1>1, <1>2 DEF ArmsWell, QueueFits
  <1>4. Contains(Rest, "startsequence") => top' \notin {"WaitCooling", "Running"}
    BY <1>1, <1>2 DEF QueueFits
  <1>5. Contains(Rest, "SettleDone") => seq' = "WaitSettle" /\ ~settle' /\ sub # <<"SettleDone">>
    BY <1>1, <1>2 DEF QueueFits, SettlesWell
  <1>6. Contains(Rest, "SequenceDoneAll") => seq' = "InitLine" /\ Quiet(Rest) /\ sub = <<>>
    <2>1. SUFFICES ASSUME Contains(Rest, "SequenceDoneAll")
                   PROVE  seq' = "InitLine" /\ Quiet(Rest) /\ sub = <<>>
      OBVIOUS
    <2>2. seq = "InitLine" /\ Quiet(queue)
      BY <1>1, <1>2, <2>1 DEF QueueFits
    <2>3. Head(queue) \notin Tokens /\ Quiet(Rest)
      BY <1>1, <2>2, QuietRest DEF Quiet, Rest
    <2> QED BY <2>2, <2>3 DEF EndsWell
  <1>7. QueueFits(queue)'
    <2>1. CASE sub = <<>>
      <3>1. queue' = Rest
        BY <1>1, <2>1, SubmitNone DEF Consume
      <3> QED BY <1>2, <1>3, <1>4, <1>5, <1>6, <3>1 DEF QueueFits, InOrder, Once
    <2>2. ASSUME NEW x \in Events, sub = <<x>> PROVE QueueFits(queue)'
      <3>1. queue' = Rest \o <<x>> /\ x \notin Timeouts /\ x # "startsequence"
        BY <2>2 DEF Consume
      <3>2. \A s \in Timed : x # TimeoutOf[s]
        BY <3>1, TimeoutsAreTimeouts
      <3>3. InOrder(queue')
        BY <1>1, <1>2, <3>1, <3>2, OfSubmission
      <3>4. \A e : Contains(queue', e) <=> Contains(Rest, e) \/ e = x
        BY <1>1, <3>1, OfSubmission
      <3>5. Once(queue', "startsequence") /\ Once(queue', "SettleDone")
        BY <1>1, <1>2, <1>5, <2>2, <3>1, OfSubmission
      <3>6. \A s \in armed' : ~Contains(queue', TimeoutOf[s])
        BY <1>1, <1>3, <3>2, <3>4
      <3>7. Contains(queue', "startsequence") => top' \notin {"WaitCooling", "Running"}
        BY <1>4, <3>1, <3>4
      <3>8. Contains(queue', "SettleDone") => seq' = "WaitSettle" /\ ~settle'
        BY <1>5, <2>2, <3>4 DEF SettlesWell
      <3>9. Contains(queue', "SequenceDoneAll") => seq' = "InitLine" /\ Quiet(queue')
        <4>1. SUFFICES ASSUME Contains(queue', "SequenceDoneAll")
                       PROVE  seq' = "InitLine" /\ Quiet(queue')
          OBVIOUS
        <4>2. x = "SequenceDoneAll" /\ ~Contains(Rest, "SequenceDoneAll")
          BY <1>6, <2>2, <3>4, <4>1
        <4>3. seq' = "InitLine" /\ Quiet(Rest)
          BY <2>2, <4>2 DEF EndsWell
        <4> QED BY <1>1, <3>1, <4>2, <4>3, QuietSubmit DEF Tokens
      <3> QED BY <3>3, <3>5, <3>6, <3>7, <3>8, <3>9 DEF QueueFits, InOrder, Once
    <2> QED BY <2>1, <2>2 DEF Submission
  <1> QED BY <1>7 DEF Fresh, ArmsWell, SettlesWell

(* A machine that stops has no timer left.                                 *)
LEMMA StopIsFresh ==
    ASSUME NEW t, StopIn(t), ~settle' PROVE Fresh'
  BY DEF StopIn, Fresh

(* News leaves the configuration alone.                                    *)
LEMMA NewsIsFresh ==
    ASSUME TypeOK, Fresh, UNCHANGED <<running, top, seq, foc, gui, armed>>,
           settle' => settle,
           \/ queue' = queue
           \/ \E x \in News : queue' = Append(queue, x) \/ queue' = queue \o <<x>>
           \/ \E x, y \in News : queue' = Append(queue, x) \o <<y>>
    PROVE  Fresh'
  <1>1. queue \in Seq(Events) /\ armed \subseteq Timed
    BY DEF TypeOK, QueueType, StateType
  <1>2. QueueFits(queue) => QueueFits(queue')
    <2>1. ASSUME QueueFits(queue), NEW x \in News
          PROVE  /\ QueueFits(Append(queue, x)) /\ QueueFits(queue \o <<x>>)
                 /\ Append(queue, x) \in Seq(Events)
      BY <1>1, <2>1, NewsFits, SubmitOne DEF News
    <2>2. ASSUME QueueFits(queue), NEW x \in News, NEW y \in News
          PROVE  QueueFits(Append(queue, x) \o <<y>>)
      BY <1>1, <2>1, <2>2, NewsFits
    <2> QED BY <2>1, <2>2
  <1>3. QueueFits(queue') => QueueFits(queue)'
    BY DEF QueueFits, InOrder, Once
  <1> QED BY <1>2, <1>3 DEF Fresh, Config

(* A timer fires before anything can enter its state again.                *)
LEMMA TimerIsFresh ==
    ASSUME Inv, Fresh, NEW s \in Timed, TimerFires(s) PROVE Fresh'
  <1> DEFINE out == TimeoutOf[s]
  <1>1. /\ UNCHANGED <<running, top, seq, foc, gui, settle>> /\ running /\ s \in armed
        /\ armed' = armed \ {s} /\ queue' = Append(queue, out)
        /\ queue \in Seq(Events) /\ QueueFits(queue) /\ armed \subseteq Timed
        /\ Config' = Config /\ s \in Config
    BY DEF TimerFires, Submit, Cancel, run, Inv, TypeOK, QueueType, StateType, Fresh, Config
  <1>2. out \in Timeouts /\ out \in Events
    BY TimeoutsAreTimeouts DEF Events
  <1>3. \A t \in Timed : out = TimeoutOf[t] => t = s
    BY DEF Timed, TimeoutOf
  <1>4. \A e \in EntersBy[s] : ~Contains(queue, e)
    <2>1. seq \in SeqStates \cup {"Off"} /\ foc \in FocStates \cup {"Off"}
          /\ gui \in GuiStates \cup {"Off"}
          /\ top \in {"None", "WaitCooling", "Running"} \cup Terminal
      BY DEF Inv, TypeOK, StateType
    <2>2. CASE s = "WaitCooling"
      <3>1. top = "WaitCooling"
        BY <1>1, <2>1, <2>2 DEF Config, SeqStates, Gates, FocStates, GuiStates
      <3> QED BY <1>1, <2>2, <3>1 DEF QueueFits, EntersBy
    <2>3. CASE s # "WaitCooling"
      <3>1. top = "Running" /\ seq \in {"FilterStep", "Exposing", "WaitFocus", "WaitGuide", "WaitDither"}
        BY <1>1, <2>1, <2>3 DEF Config, SeqStates, Gates, FocStates, GuiStates, Timed, Terminal,
           Inv, Lockstep
      <3>2. Quiet(queue)
        BY <1>1, <3>1, TokensAreForGates, SingleIsQuiet DEF Inv, TokensFit, Fits, SeqStates, Gates
      <3>3. ~Contains(queue, "SettleDone")
        BY <1>1, <3>1 DEF QueueFits
      <3>4. \A e \in EntersBy[s] : e \in Tokens \/ e = "SettleDone"
        BY <2>3 DEF EntersBy, Tokens, Timed
      <3> QED BY <3>2, <3>3, <3>4 DEF Quiet, Contains
    <2> QED BY <2>2, <2>3
  <1> HIDE DEF out
  <1>5. queue' = queue \o <<out>>
    BY <1>1, <1>2
  <1>6. InOrder(queue')
    <2>1. \A t \in Timed : out = TimeoutOf[t] => \A e \in EntersBy[t] : ~Contains(queue, e)
      BY <1>3, <1>4
    <2> QED BY <1>1, <1>2, <1>5, <2>1, OfSubmission DEF QueueFits
  <1>7. \A e : Contains(queue', e) <=> Contains(queue, e) \/ e = out
    BY <1>1, <1>2, <1>5, OfSubmission
  <1>8. out \notin Tokens \cup {"startsequence", "SettleDone", "SequenceDoneAll"}
    BY <1>2 DEF Timeouts, Tokens
  <1>9. Once(queue', "startsequence") /\ Once(queue', "SettleDone")
    BY <1>1, <1>2, <1>8, <1>5, OfSubmission DEF QueueFits
  <1>10. Quiet(queue) => Quiet(queue')
    BY <1>1, <1>2, <1>8, QuietSubmit
  <1>11. \A t \in armed' : ~Contains(queue', TimeoutOf[t])
    BY <1>1, <1>3, <1>7 DEF QueueFits
  <1>12. QueueFits(queue)'
    BY <1>1, <1>6, <1>7, <1>8, <1>9, <1>10, <1>11 DEF QueueFits, InOrder, Once
  <1> QED BY <1>1, <1>12 DEF Fresh

(* The settle timer fires once. *)
LEMMA SettleTimerIsFresh ==
    ASSUME Inv, Fresh, onGuidingSettleTimeout PROVE Fresh'
  <1>1. /\ UNCHANGED <<running, top, seq, foc, gui, armed>> /\ settle /\ ~settle'
        /\ queue' = queue \o <<"SettleDone">>
        /\ queue \in Seq(Events) /\ armed \subseteq Timed
        /\ Config' = Config /\ seq = "WaitSettle"
    BY OfSubmission DEF onGuidingSettleTimeout, Submit, Inv, TypeOK, QueueType, StateType, Fresh,
       Config, Events
  <1>2. CASE running
    <2>1. QueueFits(queue)
      BY <1>2 DEF Fresh
    <2>2. ~Contains(queue, "SettleDone") /\ ~Contains(queue, "SequenceDoneAll")
      BY <1>1, <2>1 DEF QueueFits
    <2>3. "SettleDone" \in Events /\ "SettleDone" \notin Timeouts
      BY DEF Events, Timeouts
    <2>4. \A s \in Timed : TimeoutOf[s] # "SettleDone"
      BY <2>3, TimeoutsAreTimeouts
    <2>5. InOrder(queue')
      BY <1>1, <2>1, <2>3, <2>4, OfSubmission DEF QueueFits
    <2>6. \A e : Contains(queue', e) <=> Contains(queue, e) \/ e = "SettleDone"
      BY <1>1, <2>3, OfSubmission
    <2>7. Once(queue', "startsequence") /\ Once(queue', "SettleDone")
      BY <1>1, <2>1, <2>2, <2>3, OfSubmission DEF QueueFits
    <2>8. QueueFits(queue)'
      BY <1>1, <2>1, <2>2, <2>4, <2>5, <2>6, <2>7 DEF QueueFits, InOrder, Once
    <2> QED BY <1>1, <2>8 DEF Fresh
  <1>3. CASE ~running
    BY <1>1, <1>3 DEF Fresh
  <1> QED BY <1>2, <1>3

(* A step keeps the timeouts fresh.                                        *)
LEMMA FreshStep ==
    ASSUME ~KeepsLeftovers
    PROVE  Inv /\ Fresh /\ [Next]_vars => Fresh'
  <1> SUFFICES ASSUME Inv, Fresh, [Next]_vars PROVE Fresh'
    OBVIOUS
  <1> TypeOK /\ TypeOK'
    BY TypeStep DEF Inv
  <1>a. /\ armed \subseteq Timed /\ armed \subseteq Config
        /\ seq \in SeqStates \cup {"Off"} /\ foc \in FocStates \cup {"Off"}
        /\ gui \in GuiStates \cup {"Off"}
        /\ settle => seq = "WaitSettle"
    BY DEF TypeOK, StateType, Fresh
  <1>b. Lockstep /\ Phases
    BY DEF Inv
  <1>1. CASE EnterIdle
    BY <1>1, NewsIsFresh DEF EnterIdle, run
  <1>2. CASE OnStartSequence
    <2> DEFINE sub == IF EnableCooling THEN <<>> ELSE <<"CoolingReady">>
    <2>1. /\ running /\ queue # <<>> /\ Consume(sub)
          /\ Head(queue) = "startsequence"
      BY <1>2 DEF OnStartSequence, On
    <2>2. sub \in Submission /\ \A e \in Timeouts \cup {"startsequence"} : sub # <<e>>
      BY DEF Submission, Events, Tokens, Timeouts
    <2>3. ArmsWell
      BY <1>2, <1>a, <1>b, <2>1 DEF OnStartSequence, On, ArmsWell, EntersBy, Config, SeqStates, Gates, FocStates, GuiStates, Timed,
         Lockstep, Phases
    <2>4. SettlesWell(sub) /\ EndsWell(sub)
      BY <1>2, <1>a, <1>b, <2>1 DEF OnStartSequence, On, SettlesWell, EndsWell, Tokens,
         Lockstep, Phases, run
    <2>5. top' \in {"WaitCooling", "Running"} =>
             top \in {"WaitCooling", "Running"} \/ Head(queue) = "startsequence"
      BY <1>2, <2>1 DEF OnStartSequence
    <2> QED BY <2>1, <2>2, <2>3, <2>4, <2>5, ConsumeIsFresh
  <1>3. CASE OnCoolingReady
    <2> DEFINE sub == IF line + 1 > NLines THEN <<"SequenceDoneAll">> ELSE <<"LineLoaded">>
    <2>1. /\ running /\ queue # <<>> /\ Consume(sub)
          /\ Head(queue) = "CoolingReady"
      BY <1>3 DEF OnCoolingReady, On, SMInitLine, Cancel
    <2>2. sub \in Submission /\ \A e \in Timeouts \cup {"startsequence"} : sub # <<e>>
      BY DEF Submission, Events, Tokens, Timeouts
    <2>3. ArmsWell
      BY <1>3, <1>a, <1>b, <2>1 DEF OnCoolingReady, On, SMInitLine, Cancel, ArmsWell, EntersBy, Config, SeqStates, Gates, FocStates, GuiStates, Timed,
         Lockstep, Phases
    <2>4. Quiet(Rest)
      BY <1>3, <2>1, RestIsQuiet DEF OnCoolingReady, Inv, Tokens
    <2>5. SettlesWell(sub) /\ EndsWell(sub)
      BY <1>3, <1>a, <1>b, <2>1, <2>4 DEF OnCoolingReady, On, SMInitLine, Cancel, SettlesWell, EndsWell, Tokens,
         Lockstep, Phases, run
    <2>6. top' \in {"WaitCooling", "Running"} =>
             top \in {"WaitCooling", "Running"} \/ Head(queue) = "startsequence"
      BY <1>3, <2>1 DEF OnCoolingReady
    <2> QED BY <2>1, <2>2, <2>3, <2>5, <2>6, ConsumeIsFresh
  <1>4. CASE OnLineLoaded
    <2> DEFINE sub == IF FilterWheel THEN <<>> ELSE <<"FilterReady">>
    <2>1. /\ running /\ queue # <<>> /\ Consume(sub)
          /\ Head(queue) = "LineLoaded"
      BY <1>4 DEF OnLineLoaded, On, Arm
    <2>2. sub \in Submission /\ \A e \in Timeouts \cup {"startsequence"} : sub # <<e>>
      BY DEF Submission, Events, Tokens, Timeouts
    <2>3. ArmsWell
      <3>1. /\ armed' = armed \cup {"FilterStep"} /\ seq' = "FilterStep" /\ UNCHANGED <<top, foc, gui>>
            /\ seq = "InitLine"
        BY <1>4 DEF OnLineLoaded, On, Arm
      <3>2. Head(queue) \in EntersBy["FilterStep"]
        BY <1>4 DEF OnLineLoaded, On, Arm, EntersBy, Timed
      <3>3. armed \subseteq Config'
        BY <1>a, <3>1 DEF Config, Timed
      <3>4. "FilterStep" \in Config'
        BY <3>1 DEF Config
      <3> QED BY <3>1, <3>2, <3>3, <3>4 DEF ArmsWell
    <2>4. SettlesWell(sub) /\ EndsWell(sub)
      <3>1. /\ seq' = "FilterStep" /\ settle' = settle
            /\ seq = "InitLine" /\ Head(queue) \in Tokens
        BY <1>4 DEF OnLineLoaded, On, Arm, run, Tokens
      <3>2. ~settle'
        BY <1>a, <2>1, <3>1 DEF Fresh, QueueFits, Contains, TypeOK, QueueType
      <3>3. sub # <<"SettleDone">> /\ sub # <<"SequenceDoneAll">>
        OBVIOUS
      <3> HIDE DEF sub
      <3> QED BY <3>1, <3>2, <3>3 DEF SettlesWell, EndsWell
    <2>5. top' \in {"WaitCooling", "Running"} =>
             top \in {"WaitCooling", "Running"} \/ Head(queue) = "startsequence"
      BY <1>4, <2>1 DEF OnLineLoaded
    <2> QED BY <2>1, <2>2, <2>3, <2>4, <2>5, ConsumeIsFresh
  <1>5. CASE OnFilterReady
    <2> DEFINE sub == IF IsLightOrFlat /\ FocusOnFilterChange /\ lastFocused # filter
                      THEN <<"DoFocus">> ELSE <<"SkipFocus">>
    <2>1. /\ running /\ queue # <<>> /\ Consume(sub)
          /\ Head(queue) = "FilterReady"
      BY <1>5 DEF OnFilterReady, On, SMFocusGate, Cancel
    <2>2. sub \in Submission /\ \A e \in Timeouts \cup {"startsequence"} : sub # <<e>>
      BY DEF Submission, Events, Tokens, Timeouts
    <2>3. ArmsWell
      BY <1>5, <1>a, <1>b, <2>1 DEF OnFilterReady, On, SMFocusGate, Cancel, ArmsWell, EntersBy, Config, SeqStates, Gates, FocStates, GuiStates, Timed,
         Lockstep, Phases
    <2>4. SettlesWell(sub) /\ EndsWell(sub)
      BY <1>5, <1>a, <1>b, <2>1 DEF OnFilterReady, On, SMFocusGate, Cancel, SettlesWell, EndsWell, Tokens,
         Lockstep, Phases, run
    <2>5. top' \in {"WaitCooling", "Running"} =>
             top \in {"WaitCooling", "Running"} \/ Head(queue) = "startsequence"
      BY <1>5, <2>1 DEF OnFilterReady
    <2> QED BY <2>1, <2>2, <2>3, <2>4, <2>5, ConsumeIsFresh
  <1>6. CASE OnDoFocus
    <2> DEFINE sub == <<>>
    <2>1. /\ running /\ queue # <<>> /\ Consume(sub)
          /\ Head(queue) = "DoFocus"
      BY <1>6 DEF OnDoFocus, On, SMFocusing, Arm
    <2>2. sub \in Submission /\ \A e \in Timeouts \cup {"startsequence"} : sub # <<e>>
      BY DEF Submission, Events, Tokens, Timeouts
    <2>3. ArmsWell
      BY <1>6, <1>a, <1>b, <2>1 DEF OnDoFocus, On, SMFocusing, Arm, ArmsWell, EntersBy, Config, SeqStates, Gates, FocStates, GuiStates, Timed,
         Lockstep, Phases
    <2>4. SettlesWell(sub) /\ EndsWell(sub)
      BY <1>6, <1>a, <1>b, <2>1 DEF OnDoFocus, On, SMFocusing, Arm, SettlesWell, EndsWell, Tokens,
         Lockstep, Phases, run
    <2>5. top' \in {"WaitCooling", "Running"} =>
             top \in {"WaitCooling", "Running"} \/ Head(queue) = "startsequence"
      BY <1>6, <2>1 DEF OnDoFocus
    <2> QED BY <2>1, <2>2, <2>3, <2>4, <2>5, ConsumeIsFresh
  <1>7. CASE OnSkipFocus
    <2> DEFINE sub == IF UseGuiding /\ ~(guiderActive /\ ~suspended)
                      THEN <<"StartGuide">> ELSE <<"SkipGuide">>
    <2>1. /\ running /\ queue # <<>> /\ Consume(sub)
          /\ Head(queue) = "SkipFocus"
      BY <1>7 DEF OnSkipFocus, On, ToGuideGate, SMGuideGate
    <2>2. sub \in Submission /\ \A e \in Timeouts \cup {"startsequence"} : sub # <<e>>
      BY DEF Submission, Events, Tokens, Timeouts
    <2>3. ArmsWell
      BY <1>7, <1>a, <1>b, <2>1 DEF OnSkipFocus, On, ToGuideGate, SMGuideGate, ArmsWell, EntersBy, Config, SeqStates, Gates, FocStates, GuiStates, Timed,
         Lockstep, Phases
    <2>4. SettlesWell(sub) /\ EndsWell(sub)
      BY <1>7, <1>a, <1>b, <2>1 DEF OnSkipFocus, On, ToGuideGate, SMGuideGate, SettlesWell, EndsWell, Tokens,
         Lockstep, Phases, run
    <2>5. top' \in {"WaitCooling", "Running"} =>
             top \in {"WaitCooling", "Running"} \/ Head(queue) = "startsequence"
      BY <1>7, <2>1 DEF OnSkipFocus
    <2> QED BY <2>1, <2>2, <2>3, <2>4, <2>5, ConsumeIsFresh
  <1>8. CASE OnFocusDone
    <2> DEFINE sub == IF seq # "WaitFocus" THEN <<>>
                      ELSE IF UseGuiding /\ ~(guiderActive /\ ~suspended)
                      THEN <<"StartGuide">> ELSE <<"SkipGuide">>
    <2>1. /\ running /\ queue # <<>> /\ Consume(sub)
          /\ Head(queue) = "FocusDone"
      BY <1>8 DEF OnFocusDone, On, ToGuideGate, SMGuideGate, Cancel
    <2>2. sub \in Submission /\ \A e \in Timeouts \cup {"startsequence"} : sub # <<e>>
      BY DEF Submission, Events, Tokens, Timeouts
    <2>3. ArmsWell
      BY <1>8, <1>a, <1>b, <2>1 DEF OnFocusDone, On, ToGuideGate, SMGuideGate, Cancel, ArmsWell, EntersBy, Config, SeqStates, Gates, FocStates, GuiStates, Timed,
         Lockstep, Phases
    <2>4. SettlesWell(sub) /\ EndsWell(sub)
      BY <1>8, <1>a, <1>b, <2>1 DEF OnFocusDone, On, ToGuideGate, SMGuideGate, Cancel, SettlesWell, EndsWell, Tokens,
         Lockstep, Phases, run
    <2>5. top' \in {"WaitCooling", "Running"} =>
             top \in {"WaitCooling", "Running"} \/ Head(queue) = "startsequence"
      BY <1>8, <2>1 DEF OnFocusDone
    <2> QED BY <2>1, <2>2, <2>3, <2>4, <2>5, ConsumeIsFresh
  <1>9. CASE OnStartGuide
    <2> DEFINE sub == <<>>
    <2>1. /\ running /\ queue # <<>> /\ Consume(sub)
          /\ Head(queue) = "StartGuide"
      BY <1>9 DEF OnStartGuide, On, SMGuideStarting, Arm
    <2>2. sub \in Submission /\ \A e \in Timeouts \cup {"startsequence"} : sub # <<e>>
      BY DEF Submission, Events, Tokens, Timeouts
    <2>3. ArmsWell
      BY <1>9, <1>a, <1>b, <2>1 DEF OnStartGuide, On, SMGuideStarting, Arm, ArmsWell, EntersBy, Config, SeqStates, Gates, FocStates, GuiStates, Timed,
         Lockstep, Phases
    <2>4. SettlesWell(sub) /\ EndsWell(sub)
      BY <1>9, <1>a, <1>b, <2>1 DEF OnStartGuide, On, SMGuideStarting, Arm, SettlesWell, EndsWell, Tokens,
         Lockstep, Phases, run
    <2>5. top' \in {"WaitCooling", "Running"} =>
             top \in {"WaitCooling", "Running"} \/ Head(queue) = "startsequence"
      BY <1>9, <2>1 DEF OnStartGuide
    <2> QED BY <2>1, <2>2, <2>3, <2>4, <2>5, ConsumeIsFresh
  <1>10. CASE OnGuideDone
    <2> DEFINE sub == IF seq = "WaitGuide" /\ ~SettleWait THEN <<"SettleDone">> ELSE <<>>
    <2>1. /\ running /\ queue # <<>> /\ Consume(sub)
          /\ Head(queue) = "GuideDone"
      BY <1>10 DEF OnGuideDone, On, SMWaitSettle, Cancel
    <2>2. sub \in Submission /\ \A e \in Timeouts \cup {"startsequence"} : sub # <<e>>
      BY DEF Submission, Events, Tokens, Timeouts
    <2>3. ArmsWell
      BY <1>10, <1>a, <1>b, <2>1 DEF OnGuideDone, On, SMWaitSettle, Cancel, ArmsWell, EntersBy, Config, SeqStates, Gates, FocStates, GuiStates, Timed,
         Lockstep, Phases
    <2>4. SettlesWell(sub) /\ EndsWell(sub)
      BY <1>10, <1>a, <1>b, <2>1 DEF OnGuideDone, On, SMWaitSettle, Cancel, SettlesWell, EndsWell, Tokens,
         Lockstep, Phases, run
    <2>5. top' \in {"WaitCooling", "Running"} =>
             top \in {"WaitCooling", "Running"} \/ Head(queue) = "startsequence"
      BY <1>10, <2>1 DEF OnGuideDone
    <2> QED BY <2>1, <2>2, <2>3, <2>4, <2>5, ConsumeIsFresh
  <1>11. CASE OnReadyToExpose
    <2> DEFINE sub == <<>>
    <2>1. /\ running /\ queue # <<>> /\ Consume(sub)
      BY <1>11 DEF OnReadyToExpose, On, SMExposing, Arm
    <2>2. sub \in Submission /\ \A e \in Timeouts \cup {"startsequence"} : sub # <<e>>
      BY DEF Submission, Events, Tokens, Timeouts
    <2>3. ArmsWell
      <3>1. /\ armed' = armed \cup {"Exposing"} /\ seq' = "Exposing" /\ UNCHANGED <<top, foc, gui>>
            /\ seq \in {"GuideGate", "DitherGate", "WaitSettle"}
        BY <1>11 DEF OnReadyToExpose, On, SMExposing, Arm
      <3>2. Head(queue) \in EntersBy["Exposing"]
        BY <1>11 DEF OnReadyToExpose, On, SMExposing, Arm, EntersBy, Timed
      <3>3. armed \subseteq Config'
        BY <1>a, <3>1 DEF Config, Timed
      <3>4. "Exposing" \in Config'
        BY <3>1 DEF Config
      <3> QED BY <3>1, <3>2, <3>3, <3>4 DEF ArmsWell
    <2>4. SettlesWell(sub) /\ EndsWell(sub)
      <3>1. /\ seq' = "Exposing" /\ settle' = settle
            /\ seq # "InitLine" /\ (seq = "WaitSettle" => Head(queue) = "SettleDone")
        BY <1>11 DEF OnReadyToExpose, On, SMExposing, Arm, run, Tokens
      <3>2. ~settle'
        BY <1>a, <2>1, <3>1 DEF Fresh, QueueFits, Contains, TypeOK, QueueType
      <3>3. sub # <<"SettleDone">> /\ sub # <<"SequenceDoneAll">>
        OBVIOUS
      <3> HIDE DEF sub
      <3> QED BY <3>1, <3>2, <3>3 DEF SettlesWell, EndsWell
    <2>5. top' \in {"WaitCooling", "Running"} =>
             top \in {"WaitCooling", "Running"} \/ Head(queue) = "startsequence"
      BY <1>11, <2>1 DEF OnReadyToExpose
    <2> QED BY <2>1, <2>2, <2>3, <2>4, <2>5, ConsumeIsFresh
  <1>12. CASE OnExposureDone
    <2> DEFINE sub == IF IsLightOrFlat THEN <<>> ELSE <<"FindStarsDone">>
    <2>1. /\ running /\ queue # <<>> /\ Consume(sub)
          /\ Head(queue) = "ExposureDone"
      BY <1>12 DEF OnExposureDone, On, SMFindStars, Cancel
    <2>2. sub \in Submission /\ \A e \in Timeouts \cup {"startsequence"} : sub # <<e>>
      BY DEF Submission, Events, Tokens, Timeouts
    <2>3. ArmsWell
      BY <1>12, <1>a, <1>b, <2>1 DEF OnExposureDone, On, SMFindStars, Cancel, ArmsWell, EntersBy, Config, SeqStates, Gates, FocStates, GuiStates, Timed,
         Lockstep, Phases
    <2>4. SettlesWell(sub) /\ EndsWell(sub)
      BY <1>12, <1>a, <1>b, <2>1 DEF OnExposureDone, On, SMFindStars, Cancel, SettlesWell, EndsWell, Tokens,
         Lockstep, Phases, run
    <2>5. top' \in {"WaitCooling", "Running"} =>
             top \in {"WaitCooling", "Running"} \/ Head(queue) = "startsequence"
      BY <1>12, <2>1 DEF OnExposureDone
    <2> QED BY <2>1, <2>2, <2>3, <2>4, <2>5, ConsumeIsFresh
  <1>13. CASE OnRMSAlert
    <2> DEFINE sub == <<>>
    <2>1. /\ running /\ queue # <<>> /\ Consume(sub)
          /\ Head(queue) = "RMSAlert"
      BY <1>13 DEF OnRMSAlert, On, Cancel
    <2>2. sub \in Submission /\ \A e \in Timeouts \cup {"startsequence"} : sub # <<e>>
      BY DEF Submission, Events, Tokens, Timeouts
    <2>3. ArmsWell
      BY <1>13, <1>a, <1>b, <2>1 DEF OnRMSAlert, On, Cancel, ArmsWell, EntersBy, Config, SeqStates, Gates, FocStates, GuiStates, Timed,
         Lockstep, Phases
    <2>4. SettlesWell(sub) /\ EndsWell(sub)
      BY <1>13, <1>a, <1>b, <2>1 DEF OnRMSAlert, On, Cancel, SettlesWell, EndsWell, Tokens,
         Lockstep, Phases, run
    <2>5. top' \in {"WaitCooling", "Running"} =>
             top \in {"WaitCooling", "Running"} \/ Head(queue) = "startsequence"
      BY <1>13, <2>1 DEF OnRMSAlert
    <2> QED BY <2>1, <2>2, <2>3, <2>4, <2>5, ConsumeIsFresh
  <1>14. CASE OnFindStarsDone
    <2> DEFINE sub == IF IsLightOrFlat /\ HfrCheck /\ hfrHigh THEN <<"DoFocus">>
                      ELSE IF MoreShots THEN <<"NextShot">> ELSE <<"LineDone">>
    <2>1. /\ running /\ queue # <<>> /\ Consume(sub)
          /\ Head(queue) = "FindStarsDone"
      BY <1>14 DEF OnFindStarsDone, On, SMEvalShot, AcceptShot
    <2>2. sub \in Submission /\ \A e \in Timeouts \cup {"startsequence"} : sub # <<e>>
      BY DEF Submission, Events, Tokens, Timeouts
    <2>3. ArmsWell
      BY <1>14, <1>a, <1>b, <2>1 DEF OnFindStarsDone, On, SMEvalShot, AcceptShot, ArmsWell, EntersBy, Config, SeqStates, Gates, FocStates, GuiStates, Timed,
         Lockstep, Phases
    <2>4. SettlesWell(sub) /\ EndsWell(sub)
      BY <1>14, <1>a, <1>b, <2>1 DEF OnFindStarsDone, On, SMEvalShot, AcceptShot, SettlesWell, EndsWell, Tokens,
         Lockstep, Phases, run
    <2>5. top' \in {"WaitCooling", "Running"} =>
             top \in {"WaitCooling", "Running"} \/ Head(queue) = "startsequence"
      BY <1>14, <2>1 DEF OnFindStarsDone
    <2> QED BY <2>1, <2>2, <2>3, <2>4, <2>5, ConsumeIsFresh
  <1>15. CASE OnNextShot
    <2> DEFINE sub == IF DitherEvery > 0 /\ sinceDither >= DitherEvery /\ guiderActive
                      THEN <<"DoDither">> ELSE <<"SkipDither">>
    <2>1. /\ running /\ queue # <<>> /\ Consume(sub)
          /\ Head(queue) = "NextShot"
      BY <1>15 DEF OnNextShot, On, SMDitherGate
    <2>2. sub \in Submission /\ \A e \in Timeouts \cup {"startsequence"} : sub # <<e>>
      BY DEF Submission, Events, Tokens, Timeouts
    <2>3. ArmsWell
      BY <1>15, <1>a, <1>b, <2>1 DEF OnNextShot, On, SMDitherGate, ArmsWell, EntersBy, Config, SeqStates, Gates, FocStates, GuiStates, Timed,
         Lockstep, Phases
    <2>4. SettlesWell(sub) /\ EndsWell(sub)
      BY <1>15, <1>a, <1>b, <2>1 DEF OnNextShot, On, SMDitherGate, SettlesWell, EndsWell, Tokens,
         Lockstep, Phases, run
    <2>5. top' \in {"WaitCooling", "Running"} =>
             top \in {"WaitCooling", "Running"} \/ Head(queue) = "startsequence"
      BY <1>15, <2>1 DEF OnNextShot
    <2> QED BY <2>1, <2>2, <2>3, <2>4, <2>5, ConsumeIsFresh
  <1>16. CASE OnLineDone
    <2> DEFINE sub == IF line + 1 > NLines THEN <<"SequenceDoneAll">> ELSE <<"LineLoaded">>
    <2>1. /\ running /\ queue # <<>> /\ Consume(sub)
          /\ Head(queue) = "LineDone"
      BY <1>16 DEF OnLineDone, On, SMInitLine
    <2>2. sub \in Submission /\ \A e \in Timeouts \cup {"startsequence"} : sub # <<e>>
      BY DEF Submission, Events, Tokens, Timeouts
    <2>3. ArmsWell
      BY <1>16, <1>a, <1>b, <2>1 DEF OnLineDone, On, SMInitLine, ArmsWell, EntersBy, Config, SeqStates, Gates, FocStates, GuiStates, Timed,
         Lockstep, Phases
    <2>4. Quiet(Rest)
      BY <1>16, <2>1, RestIsQuiet DEF OnLineDone, Inv, Tokens
    <2>5. SettlesWell(sub) /\ EndsWell(sub)
      BY <1>16, <1>a, <1>b, <2>1, <2>4 DEF OnLineDone, On, SMInitLine, SettlesWell, EndsWell, Tokens,
         Lockstep, Phases, run
    <2>6. top' \in {"WaitCooling", "Running"} =>
             top \in {"WaitCooling", "Running"} \/ Head(queue) = "startsequence"
      BY <1>16, <2>1 DEF OnLineDone
    <2> QED BY <2>1, <2>2, <2>3, <2>5, <2>6, ConsumeIsFresh
  <1>17. CASE OnDoDither
    <2> DEFINE sub == <<>>
    <2>1. /\ running /\ queue # <<>> /\ Consume(sub)
          /\ Head(queue) = "DoDither"
      BY <1>17 DEF OnDoDither, On, SMDithering, Arm
    <2>2. sub \in Submission /\ \A e \in Timeouts \cup {"startsequence"} : sub # <<e>>
      BY DEF Submission, Events, Tokens, Timeouts
    <2>3. ArmsWell
      BY <1>17, <1>a, <1>b, <2>1 DEF OnDoDither, On, SMDithering, Arm, ArmsWell, EntersBy, Config, SeqStates, Gates, FocStates, GuiStates, Timed,
         Lockstep, Phases
    <2>4. SettlesWell(sub) /\ EndsWell(sub)
      BY <1>17, <1>a, <1>b, <2>1 DEF OnDoDither, On, SMDithering, Arm, SettlesWell, EndsWell, Tokens,
         Lockstep, Phases, run
    <2>5. top' \in {"WaitCooling", "Running"} =>
             top \in {"WaitCooling", "Running"} \/ Head(queue) = "startsequence"
      BY <1>17, <2>1 DEF OnDoDither
    <2> QED BY <2>1, <2>2, <2>3, <2>4, <2>5, ConsumeIsFresh
  <1>18. CASE OnDitherDone
    <2> DEFINE sub == IF seq = "WaitDither" /\ ~SettleWait THEN <<"SettleDone">> ELSE <<>>
    <2>1. /\ running /\ queue # <<>> /\ Consume(sub)
          /\ Head(queue) = "DitherDone"
      BY <1>18 DEF OnDitherDone, On, SMWaitSettle, Cancel
    <2>2. sub \in Submission /\ \A e \in Timeouts \cup {"startsequence"} : sub # <<e>>
      BY DEF Submission, Events, Tokens, Timeouts
    <2>3. ArmsWell
      BY <1>18, <1>a, <1>b, <2>1 DEF OnDitherDone, On, SMWaitSettle, Cancel, ArmsWell, EntersBy, Config, SeqStates, Gates, FocStates, GuiStates, Timed,
         Lockstep, Phases
    <2>4. SettlesWell(sub) /\ EndsWell(sub)
      BY <1>18, <1>a, <1>b, <2>1 DEF OnDitherDone, On, SMWaitSettle, Cancel, SettlesWell, EndsWell, Tokens,
         Lockstep, Phases, run
    <2>5. top' \in {"WaitCooling", "Running"} =>
             top \in {"WaitCooling", "Running"} \/ Head(queue) = "startsequence"
      BY <1>18, <2>1 DEF OnDitherDone
    <2> QED BY <2>1, <2>2, <2>3, <2>4, <2>5, ConsumeIsFresh
  <1>22. CASE Discard
    <2> DEFINE sub == <<>>
    <2>1. /\ running /\ queue # <<>> /\ Consume(sub)
      BY <1>22 DEF Discard, On
    <2>2. sub \in Submission /\ \A e \in Timeouts \cup {"startsequence"} : sub # <<e>>
      BY DEF Submission, Events, Tokens, Timeouts
    <2>3. ArmsWell
      BY <1>22, <1>a, <1>b, <2>1 DEF Discard, On, ArmsWell, EntersBy, Config, SeqStates, Gates, FocStates, GuiStates, Timed,
         Lockstep, Phases
    <2>4. SettlesWell(sub) /\ EndsWell(sub)
      BY <1>22, <1>a, <1>b, <2>1 DEF Discard, On, SettlesWell, EndsWell, Tokens,
         Lockstep, Phases, run
    <2>5. top' \in {"WaitCooling", "Running"} =>
             top \in {"WaitCooling", "Running"} \/ Head(queue) = "startsequence"
      BY <1>22, <2>1 DEF Discard
    <2> QED BY <2>1, <2>2, <2>3, <2>4, <2>5, ConsumeIsFresh
  <1>19. CASE OnSequenceDoneAll
    <2>1. running /\ queue # <<>> /\ Head(queue) = "SequenceDoneAll" /\ SMDone
      BY <1>19 DEF OnSequenceDoneAll, On
    <2>2. Contains(queue, "SequenceDoneAll")
      BY <2>1 DEF Contains, TypeOK, QueueType
    <2>3. ~settle
      BY <1>a, <2>1, <2>2 DEF Fresh, QueueFits
    <2> QED BY <2>1, <2>3, StopIsFresh DEF SMDone
  <1>20. CASE OnAbort
    BY <1>20, StopIsFresh DEF OnAbort, SMAborted
  <1>21. CASE OnFatal
    BY <1>21, StopIsFresh DEF OnFatal, SMError
  <1>23. CASE StartSequence
    <2>1. /\ ~running /\ queue' = <<"startsequence">> /\ top' = "None"
          /\ UNCHANGED <<seq, foc, gui, armed, settle>>
      BY <1>23, SequencerAssumption DEF StartSequence, MayStart
    <2>2. armed = {}
      BY <1>a, <1>b, <2>1 DEF Lockstep, Phases, Config, Timed, TypeOK, StateType, Terminal
    <2>3. QueueFits(queue)'
      BY <2>1, <2>2 DEF QueueFits, InOrder, Once, Contains, Quiet
    <2> QED BY <1>a, <2>1, <2>2, <2>3 DEF Fresh
  <1>24. CASE StartWithoutCamera
    BY <1>24, NewsIsFresh DEF StartWithoutCamera, machine
  <1>c. {"abort", "FindStarsDone", "FocusDone", "GuideDone", "DitherDone", "GuiderLost",
         "CoolingReady", "FilterReady", "CameraAlert", "ExposureDone", "RMSAlert"} \subseteq News
    BY DEF News, Events, Tokens, Timeouts
  <1>26. CASE onGuidingSettleTimeout
    BY <1>26, SettleTimerIsFresh
  <1>25. CASE AbortSequence
    <2>1. /\ UNCHANGED <<running, top, seq, foc, gui, armed>> /\ (settle' => settle)
          /\ queue' = queue \/ queue' = Append(queue, "abort")
      BY <1>25 DEF AbortSequence
    <2> QED BY <1>c, <2>1, NewsIsFresh
  <1>27. CASE OnSucessSEP
    <2>1. /\ UNCHANGED <<running, top, seq, foc, gui, armed>> /\ (settle' => settle)
          /\ queue' = queue \/ queue' = Append(queue, "FindStarsDone")
      BY <1>27 DEF OnSucessSEP, Submit
    <2> QED BY <1>c, <2>1, NewsIsFresh
  <1>28. CASE FocuserReady
    <2>1. /\ UNCHANGED <<running, top, seq, foc, gui, armed>> /\ (settle' => settle)
          /\ queue' = queue \/ queue' = Append(queue, "FocusDone")
      BY <1>28 DEF FocuserReady, Submit
    <2> QED BY <1>c, <2>1, NewsIsFresh
  <1>31. CASE GuiderRms
    <2>1. /\ UNCHANGED <<running, top, seq, foc, gui, armed>> /\ (settle' => settle)
          /\ queue' = queue \/ queue' = Append(queue, "GuideDone")
      BY <1>31 DEF GuiderRms
    <2> QED BY <1>c, <2>1, NewsIsFresh
  <1>34. CASE GuiderReady
    <2>1. /\ UNCHANGED <<running, top, seq, foc, gui, armed>> /\ (settle' => settle)
          /\ queue' = queue \/ queue' = Append(queue, "GuiderLost")
      BY <1>34 DEF GuiderReady
    <2> QED BY <1>c, <2>1, NewsIsFresh
  <1>35. CASE CoolingReached
    <2>1. /\ UNCHANGED <<running, top, seq, foc, gui, armed>> /\ (settle' => settle)
          /\ queue' = queue \/ queue' = Append(queue, "CoolingReady")
      BY <1>35 DEF CoolingReached, Submit, run
    <2> QED BY <1>c, <2>1, NewsIsFresh
  <1>36. CASE FilterReached
    <2>1. /\ UNCHANGED <<running, top, seq, foc, gui, armed>> /\ (settle' => settle)
          /\ queue' = queue \/ queue' = Append(queue, "FilterReady")
      BY <1>36 DEF FilterReached, Submit, run
    <2> QED BY <1>c, <2>1, NewsIsFresh
  <1>37. CASE CameraAlert
    <2>1. /\ UNCHANGED <<running, top, seq, foc, gui, armed>> /\ (settle' => settle)
          /\ queue' = queue \/ queue' = Append(queue, "CameraAlert")
      BY <1>37 DEF CameraAlert, Submit, run
    <2> QED BY <1>c, <2>1, NewsIsFresh
  <1>39. CASE FrameSaved
    <2>1. /\ UNCHANGED <<running, top, seq, foc, gui, armed>> /\ (settle' => settle)
          /\ queue' = queue \/ queue' = Append(queue, "ExposureDone")
      BY <1>39 DEF FrameSaved, run
    <2> QED BY <1>c, <2>1, NewsIsFresh
  <1>29. CASE FocuserFails
    BY <1>29, NewsIsFresh DEF FocuserFails, machine, run
  <1>30. CASE GuiderGuiding
    <2>1. /\ UNCHANGED <<running, top, seq, foc, gui, armed, settle>>
          /\ queue' = queue \/ queue' = queue \o AwaitedFromGuider
      BY <1>30 DEF GuiderGuiding
    <2>2. \/ queue' = queue
          \/ \E x \in {"GuideDone", "DitherDone"} : queue' = queue \o <<x>>
      BY <2>1, SubmitNone DEF AwaitedFromGuider, TypeOK, QueueType
    <2> QED BY <1>c, <2>1, <2>2, NewsIsFresh
  <1>32. CASE GuiderRmsAlert
    <2>1. /\ UNCHANGED <<running, top, seq, foc, gui, armed, settle>>
          /\ queue' = Append(queue, "RMSAlert") \o AwaitedFromGuider
      BY <1>32 DEF GuiderRmsAlert
    <2>2. Append(queue, "RMSAlert") \in Seq(Events)
      BY SubmitOne DEF TypeOK, QueueType, Events
    <2>3. \/ queue' = Append(queue, "RMSAlert")
          \/ \E x \in {"GuideDone", "DitherDone"} : queue' = Append(queue, "RMSAlert") \o <<x>>
      BY <2>1, <2>2, SubmitNone DEF AwaitedFromGuider
    <2> QED BY <1>c, <2>1, <2>3, NewsIsFresh
  <1>33. CASE GuiderFails
    BY <1>33, NewsIsFresh DEF GuiderFails, machine, run
  <1>38. CASE FrameArrives
    BY <1>38, NewsIsFresh DEF FrameArrives, machine, run
  <1>40. ASSUME NEW s \in Timed, TimerFires(s) PROVE Fresh'
    BY <1>40, TimerIsFresh
  <1>41. CASE UNCHANGED vars
    BY <1>41, NewsIsFresh DEF vars, machine, run
  <1> QED
    BY <1>1, <1>2, <1>3, <1>4, <1>5, <1>6, <1>7, <1>8, <1>9, <1>10, <1>11, <1>12,
       <1>13, <1>14, <1>15, <1>16, <1>17, <1>18, <1>19, <1>20, <1>21, <1>22, <1>23,
       <1>24, <1>25, <1>26, <1>27, <1>28, <1>29, <1>30, <1>31, <1>32, <1>33, <1>34,
       <1>35, <1>36, <1>37, <1>38, <1>39, <1>40, <1>41
    DEF Next, User, ProcessEvent

LEMMA FreshHolds ==
    ASSUME ~KeepsLeftovers
    PROVE  Spec => [](Inv /\ Fresh)
  <1>1. Init => Fresh
    BY DEF Init, Fresh
  <1> QED BY <1>1, FreshStep, InvHolds, PTL DEF Spec

(* No watchdog of a phase that is over ends a run: neither by its timer,   *)
(* nor by a timeout that was queued just before (the <send>/<cancel> pairs *)
(* of the timed states).                                                   *)
THEOREM NoStaleTimeout ==
    ASSUME ~KeepsLeftovers
    PROVE  Spec => []TimeoutsAreFresh
  <1>1. Inv /\ Fresh => TimeoutsAreFresh
    <2>1. SUFFICES ASSUME Inv, Fresh, NEW s \in armed PROVE ~Contains(queue, TimeoutOf[s])
      BY DEF TimeoutsAreFresh, Fresh
    <2>2. s \in Timed /\ s \in Config
      BY <2>1 DEF Inv, TypeOK, StateType, Fresh
    <2>3. running
      BY <2>1, <2>2 DEF Inv, Lockstep, Phases, Config, Timed, TypeOK, StateType, Terminal
    <2> QED BY <2>1, <2>3 DEF Fresh, QueueFits
  <1> QED BY <1>1, FreshHolds, PTL

(* A settling is cut short neither by the settle timer of an earlier phase *)
(* nor by a SettleDone left in the queue (SMWaitSettle,                    *)
(* onGuidingSettleTimeout).                                                *)
THEOREM NoStaleSettling ==
    ASSUME ~KeepsLeftovers
    PROVE  Spec => []SettleIsFresh
  <1>1. Inv /\ Fresh => SettleIsFresh
    <2>1. SUFFICES ASSUME Inv, Fresh, settle
                   PROVE  seq = "WaitSettle" /\ ~Contains(queue, "SettleDone")
      BY DEF SettleIsFresh
    <2>2. seq = "WaitSettle" /\ running
      BY <2>1 DEF Fresh, Inv, Lockstep, Phases
    <2> QED BY <2>1, <2>2 DEF Fresh, QueueFits
  <1> QED BY <1>1, FreshHolds, PTL
-----------------------------------------------------------------------------
(***************************************************************************)
(* The shots of all rows.                                                  *)
(***************************************************************************)

(* Induction over the naturals, as a fact about sets: if one were missing, *)
(* the successor would map the smaller members into fewer of them.         *)
LEMMA Induction ==
    ASSUME NEW S, 0 \in S, \A n \in Nat : n \in S => n + 1 \in S
    PROVE  \A n \in Nat : n \in S
  <1> SUFFICES ASSUME NEW n \in Nat, n \notin S PROVE FALSE
    OBVIOUS
  <1> DEFINE A == {m \in 0..n : m \in S}
             B == A \ {0}
             next == [m \in A |-> m + 1]
  <1>1. A \in SUBSET (0..n) /\ 0 \in A
    OBVIOUS
  <1>2. next \in [A -> B]
    <2>1. \A m \in A : m \in Nat /\ m # n /\ m + 1 \in B
      OBVIOUS
    <2> QED BY <2>1
  <1>3. \A x, y \in A : next[x] = next[y] => x = y
    OBVIOUS
  <1>4. IsFiniteSet(0..n)
    BY FS_Interval
  <1> HIDE DEF A, next
  <1>5. IsFiniteSet(A) /\ Cardinality(A) \in Nat
    BY <1>1, <1>4, FS_Subset, FS_CardinalityType
  <1>6. IsFiniteSet(B) /\ Cardinality(B) = Cardinality(A) - 1
    BY <1>1, <1>5, FS_RemoveElement
  <1> HIDE DEF B
  <1>7. Cardinality(B) < Cardinality(A)
    BY <1>5, <1>6
  <1> QED BY <1>2, <1>3, <1>5, <1>6, <1>7, FS_PigeonHole

(* The sum of the rows' shots. *)
ShotsOf(d) == MapThenSumSet(LAMBDA l : d[l], Lines)

(* The row that is summed first. *)
First(s) == CHOOSE l \in s : TRUE
(* The sets of at most n rows. *)
Upto(n) == {s \in SUBSET Lines : Cardinality(s) <= n}
(* f[s] is the sum of d over s, for each of them. *)
Sums(d, f, n) ==
    f = [s \in Upto(n) |-> IF s = {} THEN 0 ELSE d[First(s)] + f[s \ {First(s)}]]

(* A set of rows is finite, and one smaller without its first. *)
LEMMA SetsOfRows ==
    ASSUME NEW s \in SUBSET Lines
    PROVE  /\ IsFiniteSet(s) /\ Cardinality(s) \in Nat /\ Cardinality(s) <= NLines
           /\ s # {} => /\ First(s) \in s
                        /\ Cardinality(s \ {First(s)}) = Cardinality(s) - 1
           /\ Cardinality(s) = 0 => s = {}
  <1>1. IsFiniteSet(Lines) /\ Cardinality(Lines) = NLines
    BY Grid, FS_Interval DEF Lines
  <1>2. IsFiniteSet(s) /\ Cardinality(s) \in Nat /\ Cardinality(s) <= NLines
    BY <1>1, FS_Subset, FS_CardinalityType
  <1>3. s # {} => First(s) \in s
    BY DEF First
  <1>4. s # {} => Cardinality(s \ {First(s)}) = Cardinality(s) - 1
    BY <1>2, <1>3, FS_RemoveElement
  <1>5. Cardinality(s) = 0 => s = {}
    BY <1>2, FS_EmptySet
  <1> QED BY <1>2, <1>3, <1>4, <1>5

(* The sum of a set refers to that of a smaller one. *)
LEMMA SumsStep ==
    ASSUME NEW n \in Nat, NEW s \in Upto(n + 1), s # {}
    PROVE  s \ {First(s)} \in Upto(n)
  <1> DEFINE c == Cardinality(s)
             r == s \ {First(s)}
  <1>1. s \in SUBSET Lines /\ c <= n + 1
    BY DEF Upto
  <1>2. c \in Nat /\ Cardinality(r) = c - 1
    BY <1>1, SetsOfRows
  <1>3. r \in SUBSET Lines
    BY <1>1
  <1> HIDE DEF r, c
  <1>4. r \in Upto(n)
    BY <1>1, <1>2, <1>3 DEF Upto
  <1> QED BY <1>4 DEF r

(* What is known of such a set. *)
LEMMA OfUpto ==
    ASSUME NEW n, NEW s \in Upto(n)
    PROVE  /\ s \subseteq Lines /\ Cardinality(s) \in Nat
           /\ Cardinality(s) <= n /\ Cardinality(s) <= NLines
           /\ Cardinality(s) = 0 => s = {}
           /\ s # {} => /\ First(s) \in s
                        /\ Cardinality(s \ {First(s)}) = Cardinality(s) - 1
  <1>1. s \in SUBSET Lines /\ Cardinality(s) <= n
    BY DEF Upto
  <1> QED BY <1>1, SetsOfRows

(* The sums of all sets of rows exist. *)
LEMMA SumsExist ==
    ASSUME NEW d, NEW n \in Nat
    PROVE  \E f : Sums(d, f, n)
  <1> DEFINE S == {k \in Nat : \E f : Sums(d, f, k)}
  <1>1. 0 \in S
    <2> DEFINE f == [s \in Upto(0) |-> 0]
    <2>1. ASSUME NEW s \in Upto(0) PROVE s = {}
      <3>1. Cardinality(s) \in Nat /\ Cardinality(s) <= 0
        BY OfUpto
      <3>2. Cardinality(s) = 0
        BY <3>1
      <3> QED BY <3>2, OfUpto
    <2>2. Sums(d, f, 0)
      BY <2>1 DEF Sums
    <2> QED BY <2>2
  <1>2. ASSUME NEW k \in Nat, k \in S PROVE k + 1 \in S
    <2>1. PICK f : Sums(d, f, k)
      BY <1>2
    <2> DEFINE Next1(x) == [s \in Upto(k + 1) |->
                              IF s = {} THEN 0 ELSE d[First(s)] + x[s \ {First(s)}]]
               g == Next1(f)
    <2>2. ASSUME NEW s \in Upto(k) PROVE s \in Upto(k + 1)
      <3>1. s \subseteq Lines /\ Cardinality(s) \in Nat /\ Cardinality(s) <= k
        BY OfUpto
      <3>2. Cardinality(s) <= k + 1
        BY <3>1
      <3> QED BY <3>1, <3>2 DEF Upto
    <2>3. \A s \in Upto(k) : g[s] = f[s]
      BY <2>1, <2>2 DEF Sums
    <2> HIDE DEF g
    <2>4. \A s \in Upto(k + 1) : s # {} => g[s \ {First(s)}] = f[s \ {First(s)}]
      BY <2>3, SumsStep
    <2>5. g = Next1(g)
      <3>1. g = Next1(f)
        BY DEF g
      <3> QED BY <2>4, <3>1
    <2>6. Sums(d, g, k + 1)
      BY <2>5 DEF Sums
    <2> QED BY <2>6
  <1> HIDE DEF S
  <1>3. n \in S
    BY <1>1, <1>2, Induction
  <1> QED BY <1>3 DEF S

(* MapThenSumSet is the sum of the whole grid. *)
LEMMA ShotsAreSums ==
    ASSUME NEW d
    PROVE  \E f : Sums(d, f, NLines) /\ ShotsOf(d) = f[Lines]
  <1> DEFINE Step(f) == [s \in SUBSET Lines |-> IF s = {} THEN 0
                           ELSE d[CHOOSE l \in s : TRUE] + f[s \ {CHOOSE l \in s : TRUE}]]
             sum == CHOOSE f : f = Step(f)
  <1>1. Upto(NLines) = SUBSET Lines
    BY SetsOfRows DEF Upto
  <1>2. ASSUME NEW f PROVE Sums(d, f, NLines) <=> f = Step(f)
    BY <1>1 DEF Sums, First
  <1>3. \E f : f = Step(f)
    <2>1. PICK f : Sums(d, f, NLines)
      BY SumsExist, Grid
    <2>2. f = Step(f)
      BY <1>2, <2>1
    <2> QED BY <2>2
  <1>4. sum = Step(sum)
    BY <1>3
  <1>5. ShotsOf(d) = sum[Lines]
    BY DEF ShotsOf, MapThenSumSet, MapThenFoldSet
  <1> HIDE DEF sum
  <1> QED BY <1>2, <1>4, <1>5

(* No shots at all. *)
LEMMA NoShots == ShotsOf([l \in Lines |-> 0]) = 0
  <1> DEFINE d == [l \in Lines |-> 0]
  <1>1. PICK f : Sums(d, f, NLines) /\ ShotsOf(d) = f[Lines]
    BY ShotsAreSums
  <1>2. Lines \in Upto(NLines)
    BY SetsOfRows DEF Upto
  <1>3. \A s \in Upto(NLines) : s \in SUBSET Lines
    BY DEF Upto
  <1> DEFINE S == {k \in Nat : \A s \in Upto(NLines) : Cardinality(s) <= k => f[s] = 0}
  <1>4. 0 \in S
    <2>1. ASSUME NEW s \in Upto(NLines), Cardinality(s) <= 0 PROVE f[s] = 0
      <3>1. Cardinality(s) \in Nat /\ (Cardinality(s) = 0 => s = {})
        BY OfUpto
      <3>2. s = {}
        BY <2>1, <3>1
      <3> QED BY <1>1, <3>2 DEF Sums
    <2> QED BY <2>1
  <1>5. ASSUME NEW k \in Nat, k \in S PROVE k + 1 \in S
    <2>1. ASSUME NEW s \in Upto(NLines), Cardinality(s) <= k + 1, s # {} PROVE f[s] = 0
      <3> DEFINE r == s \ {First(s)}
      <3>1. f[s] = d[First(s)] + f[r] /\ First(s) \in Lines
        BY <1>1, <1>3, <2>1, SetsOfRows DEF Sums
      <3>2. Cardinality(r) <= k /\ Cardinality(r) <= NLines /\ r \in SUBSET Lines
        <4>1. Cardinality(s) \in Nat /\ Cardinality(r) = Cardinality(s) - 1 /\ s \subseteq Lines
          BY <2>1, OfUpto
        <4>2. Cardinality(s) <= NLines /\ NLines \in Nat
          BY OfUpto, Grid
        <4> QED BY <2>1, <4>1, <4>2
      <3> HIDE DEF r
      <3>3. f[r] = 0
        BY <1>5, <3>2 DEF Upto
      <3> QED BY <3>1, <3>3
    <2>2. ASSUME NEW s \in Upto(NLines), s = {} PROVE f[s] = 0
      BY <1>1, <2>2 DEF Sums
    <2> QED BY <2>1, <2>2
  <1> HIDE DEF S
  <1>6. NLines \in S
    BY <1>4, <1>5, Induction, Grid
  <1> QED BY <1>1, <1>2, <1>6, SetsOfRows DEF S

(* One shot more in one row is one more of all. *)
LEMMA OneShotMore ==
    ASSUME NEW d \in [Lines -> Int], NEW l \in Lines
    PROVE  /\ ShotsOf(d) \in Int
           /\ ShotsOf([d EXCEPT ![l] = d[l] + 1]) = ShotsOf(d) + 1
  <1> DEFINE e == [d EXCEPT ![l] = d[l] + 1]
             Gain(s) == IF l \in s THEN 1 ELSE 0
  <1>1. PICK f : Sums(d, f, NLines) /\ ShotsOf(d) = f[Lines]
    BY ShotsAreSums
  <1>2. PICK g : Sums(e, g, NLines) /\ ShotsOf(e) = g[Lines]
    BY ShotsAreSums
  <1>3. Lines \in Upto(NLines)
    BY SetsOfRows DEF Upto
  <1>4. \A s \in Upto(NLines) : s \in SUBSET Lines
    BY DEF Upto
  <1> DEFINE Grows(s) == f[s] \in Int /\ g[s] = f[s] + Gain(s)
             S == {k \in Nat : \A s \in Upto(NLines) : Cardinality(s) <= k => Grows(s)}
  <1>5. ASSUME NEW s \in Upto(NLines), s = {} PROVE Grows(s)
    BY <1>1, <1>2, <1>5 DEF Sums
  <1>6. 0 \in S
    <2>1. ASSUME NEW s \in Upto(NLines), Cardinality(s) <= 0 PROVE Grows(s)
      <3>1. Cardinality(s) \in Nat /\ (Cardinality(s) = 0 => s = {})
        BY OfUpto
      <3>2. s = {}
        BY <2>1, <3>1
      <3> QED BY <1>5, <3>2
    <2> QED BY <2>1
  <1>7. ASSUME NEW k \in Nat, k \in S PROVE k + 1 \in S
    <2>1. ASSUME NEW s \in Upto(NLines), Cardinality(s) <= k + 1, s # {} PROVE Grows(s)
      <3> DEFINE r == s \ {First(s)}
      <3>1. f[s] = d[First(s)] + f[r] /\ g[s] = e[First(s)] + g[r]
        BY <1>1, <1>2, <1>4, <2>1, SetsOfRows DEF Sums
      <3>2. Cardinality(r) <= k /\ Cardinality(r) <= NLines /\ r \in SUBSET Lines
        <4>1. Cardinality(s) \in Nat /\ Cardinality(r) = Cardinality(s) - 1 /\ s \subseteq Lines
          BY <2>1, OfUpto
        <4>2. Cardinality(s) <= NLines /\ NLines \in Nat
          BY OfUpto, Grid
        <4> QED BY <2>1, <4>1, <4>2
      <3>3. First(s) \in s /\ First(s) \in Lines /\ First(s) \notin r
        BY <1>4, <2>1, SetsOfRows
      <3>4. Gain(s) = IF First(s) = l THEN 1 ELSE Gain(r)
        BY <3>3
      <3>5. First(s) = l => Gain(r) = 0
        BY <3>3
      <3> HIDE DEF r, Gain
      <3>6. Grows(r)
        BY <1>7, <3>2 DEF Upto
      <3>7. e[First(s)] = IF First(s) = l THEN d[First(s)] + 1 ELSE d[First(s)]
        BY <3>3
      <3>8. d[First(s)] \in Int
        BY <3>3
      <3>9. CASE First(s) = l
        BY <3>1, <3>4, <3>5, <3>6, <3>7, <3>8, <3>9
      <3>10. CASE First(s) # l
        <4>1. Gain(r) \in Int
          BY DEF Gain
        <4> QED BY <3>1, <3>4, <3>6, <3>7, <3>8, <3>10, <4>1
      <3> QED BY <3>9, <3>10
    <2> HIDE DEF Grows
    <2> QED BY <1>5, <2>1
  <1>8. NLines \in S
    <2> HIDE DEF S
    <2> QED BY <1>6, <1>7, Induction, Grid
  <1>9. Grows(Lines)
    BY <1>3, <1>8, SetsOfRows
  <1> QED BY <1>1, <1>2, <1>9

-----------------------------------------------------------------------------
(***************************************************************************)
(* The books of a run.  The row that is shot tells by its LineDone that it *)
(* is complete, and the end of the grid by SequenceCtrl's staying in       *)
(* InitLine without a LineLoaded.                                          *)
(***************************************************************************)
(* No row is open and no shot taken. *)
Blank ==
    /\ line = 0 /\ total = 0
    /\ done = [l \in Lines |-> 0] /\ status = [l \in Lines |-> "Idle"]

(* The shots of the open row are those that mShotCount no longer asks for. *)
CurrentRow ==
    line \in Lines =>
        /\ status[line] = "Busy"
        /\ left = Count[line] - done[line] /\ done[line] \in Nat
        /\ IF Contains(queue, "LineDone") THEN left <= 0 /\ done[line] = Enough(line)
           ELSE left > 0 \/ (Count[line] = 0 /\ done[line] = 0)

(* The rows before it are complete, those behind it untouched. *)
OtherRows ==
    \A l \in Lines : /\ l < line => status[l] = "Ok" /\ done[l] = Enough(l)
                     /\ l > line => status[l] = "Idle" /\ done[l] = 0

(* SMInitLine found no further row. *)
GridIsShot == seq = "InitLine" /\ ~Contains(queue, "LineLoaded")

(* The books are blank until the first row is opened, and true from there. *)
Ledger ==
    /\ running /\ top # "Running" => Blank
    /\ top = "Running" =>
          /\ line \in 1..(NLines + 1) /\ (line > NLines <=> GridIsShot)
          /\ total = ShotsOf(done) /\ CurrentRow /\ OtherRows

(* The tokens that the books go by. *)
Marks == {"LineDone", "LineLoaded"}
SameMarks == \A e \in Marks : Contains(queue', e) <=> Contains(queue, e)

(* A step that the books do not notice. *)
Steady ==
    /\ UNCHANGED <<running, top, line, left, total, done, status>>
    /\ SameMarks
    /\ seq' = seq \/ (seq # "InitLine" /\ seq' # "InitLine")

(* Taking and submitting other events leaves them queued or not. *)
LEMMA ConsumeIsSteady ==
    ASSUME TypeOK, queue # <<>>, Head(queue) \notin Marks,
           NEW sub, sub = <<>> \/ (\E e \in Events \ Marks : sub = <<e>>), Consume(sub)
    PROVE  SameMarks
  <1>1. queue \in Seq(Events) /\ Rest \in Seq(Events) /\ queue' = Rest \o sub
    BY RestIsQueue DEF TypeOK, QueueType, Consume, Rest
  <1>2. \A e \in Marks : Contains(Rest, e) <=> Contains(queue, e)
    <2> DEFINE r == Rest
    <2>1. /\ Len(queue) \in Nat /\ Len(r) = Len(queue) - 1
          /\ \A i \in 1..Len(r) : r[i] = queue[i + 1]
          /\ Head(queue) = queue[1]
      BY <1>1 DEF Rest
    <2> HIDE DEF r
    <2>2. ASSUME NEW e \in Marks, NEW i \in 1..Len(queue), queue[i] = e PROVE Contains(r, e)
      <3>1. i # 1
        BY <2>1, <2>2
      <3>2. i - 1 \in 1..Len(r) /\ r[i - 1] = queue[i]
        BY <2>1, <3>1
      <3> QED BY <2>2, <3>2 DEF Contains
    <2>3. ASSUME NEW e, NEW i \in 1..Len(r), r[i] = e PROVE Contains(queue, e)
      <3>1. i + 1 \in 1..Len(queue) /\ queue[i + 1] = e
        BY <2>1, <2>3
      <3> QED BY <3>1 DEF Contains
    <2>4. \A e \in Marks : Contains(r, e) <=> Contains(queue, e)
      BY <2>2, <2>3 DEF Contains
    <2> QED BY <2>4 DEF r
  <1>3. CASE sub = <<>>
    BY <1>1, <1>2, <1>3, SubmitNone DEF SameMarks
  <1>4. ASSUME NEW e \in Events \ Marks, sub = <<e>> PROVE SameMarks
    <2>1. \A x : Contains(Rest \o <<e>>, x) <=> Contains(Rest, x) \/ x = e
      BY <1>1, OfSubmission
    <2> QED BY <1>1, <1>2, <1>4, <2>1 DEF SameMarks
  <1> QED BY <1>3, <1>4

(* So does submitting alone. *)
LEMMA MarksOfSubmission ==
    ASSUME NEW q \in Seq(Events), NEW x \in Events \ Marks
    PROVE  \A e \in Marks : /\ Contains(q \o <<x>>, e) <=> Contains(q, e)
                            /\ Contains(Append(q, x), e) <=> Contains(q, e)
  <1>1. Append(q, x) = q \o <<x>> /\ \A e : Contains(q \o <<x>>, e) <=> Contains(q, e) \/ e = x
    BY OfSubmission
  <1> QED BY <1>1

(* What a callback submits is no mark. *)
LEMMA SubmitIsSteady ==
    ASSUME TypeOK, NEW x \in Events \ Marks,
           queue' = queue \/ queue' = Append(queue, x) \/ queue' = queue \o <<x>>
    PROVE  SameMarks
  <1>1. queue \in Seq(Events)
    BY DEF TypeOK, QueueType
  <1>2. CASE queue' = queue
    BY <1>2 DEF SameMarks
  <1>3. CASE queue' = Append(queue, x)
    BY <1>1, <1>3, MarksOfSubmission DEF SameMarks
  <1>4. CASE queue' = queue \o <<x>>
    BY <1>1, <1>4, MarksOfSubmission DEF SameMarks
  <1> QED BY <1>2, <1>3, <1>4

(* A token is dropped by no state: the one that is queued is waited for. *)
LEMMA DiscardsNoToken ==
    ASSUME Inv, Discard
    PROVE  Head(queue) \notin Tokens
  <1>1. running /\ queue # <<>> /\ ~Takes(Head(queue)) /\ queue \in Seq(Events)
    BY DEF Discard, Inv, TypeOK, QueueType
  <1>2. Head(queue) = queue[1] /\ 1 \in 1..Len(queue)
    BY <1>1
  <1>3. CASE top = "Running"
    <2>1. Head(queue) \in Tokens => Head(queue) \in TransitionsOf(seq)
      BY <1>1, <1>2, <1>3 DEF Inv, TokensFit, Fits, Single
    <2>2. seq \in Config
      BY DEF Config
    <2> QED BY <1>1, <2>1, <2>2 DEF Takes
  <1>4. CASE top # "Running"
    BY <1>1, <1>2, <1>4 DEF Inv, TokensFit, Fits, Quiet
  <1> QED BY <1>3, <1>4

(* All other steps leave the books alone. *)
LEMMA LedgerSteps ==
    ASSUME Inv, [Next]_vars
    PROVE  \/ Steady
           \/ StartSequence \/ StartWithoutCamera \/ OnStartSequence \/ OnCoolingReady
           \/ OnLineLoaded \/ OnFindStarsDone \/ OnLineDone
           \/ OnSequenceDoneAll \/ OnAbort \/ OnFatal
  <1> TypeOK
    BY DEF Inv
  <1>1. CASE EnterIdle
    BY <1>1 DEF EnterIdle, Steady, SameMarks, run
  <1>2. CASE OnFilterReady
    <2> DEFINE sub == IF IsLightOrFlat /\ FocusOnFilterChange /\ lastFocused # filter
                      THEN <<"DoFocus">> ELSE <<"SkipFocus">>
    <2>1. Head(queue) \notin Marks
      BY <1>2 DEF OnFilterReady, On, Marks
    <2>2. queue # <<>> /\ Consume(sub)
      BY <1>2 DEF OnFilterReady, On, SMFocusGate, run
    <2>3. sub = <<>> \/ (\E e \in Events \ Marks : sub = <<e>>)
      BY DEF Events, Tokens, Marks
    <2> HIDE DEF sub
    <2>4. SameMarks
      BY <2>1, <2>2, <2>3, ConsumeIsSteady
    <2> QED BY <1>2, <2>4 DEF OnFilterReady, On, Steady, Consume, SMFocusGate, run
  <1>3. CASE OnDoFocus
    <2> DEFINE sub == <<>>
    <2>1. Head(queue) \notin Marks
      BY <1>3 DEF OnDoFocus, On, Marks
    <2>2. queue # <<>> /\ Consume(sub)
      BY <1>3 DEF OnDoFocus, On
    <2>3. sub = <<>> \/ (\E e \in Events \ Marks : sub = <<e>>)
      BY DEF Events, Tokens, Marks
    <2> HIDE DEF sub
    <2>4. SameMarks
      BY <2>1, <2>2, <2>3, ConsumeIsSteady
    <2> QED BY <1>3, <2>4 DEF OnDoFocus, On, Steady, Consume
  <1>4. CASE OnSkipFocus
    <2> DEFINE sub == IF UseGuiding /\ ~(guiderActive /\ ~suspended)
                      THEN <<"StartGuide">> ELSE <<"SkipGuide">>
    <2>1. Head(queue) \notin Marks
      BY <1>4 DEF OnSkipFocus, On, Marks
    <2>2. queue # <<>> /\ Consume(sub)
      BY <1>4 DEF OnSkipFocus, On, ToGuideGate, SMGuideGate
    <2>3. sub = <<>> \/ (\E e \in Events \ Marks : sub = <<e>>)
      BY DEF Events, Tokens, Marks
    <2> HIDE DEF sub
    <2>4. SameMarks
      BY <2>1, <2>2, <2>3, ConsumeIsSteady
    <2> QED BY <1>4, <2>4 DEF OnSkipFocus, On, Steady, Consume, ToGuideGate, SMGuideGate
  <1>5. CASE OnFocusDone
    <2> DEFINE sub == IF seq = "WaitFocus"
                      THEN IF UseGuiding /\ ~(guiderActive /\ ~suspended)
                           THEN <<"StartGuide">> ELSE <<"SkipGuide">>
                      ELSE <<>>
    <2>1. Head(queue) \notin Marks
      BY <1>5 DEF OnFocusDone, On, Marks
    <2>2. queue # <<>> /\ Consume(sub)
      BY <1>5 DEF OnFocusDone, On, ToGuideGate, SMGuideGate
    <2>3. sub = <<>> \/ (\E e \in Events \ Marks : sub = <<e>>)
      BY DEF Events, Tokens, Marks
    <2> HIDE DEF sub
    <2>4. SameMarks
      BY <2>1, <2>2, <2>3, ConsumeIsSteady
    <2> QED BY <1>5, <2>4 DEF OnFocusDone, On, Steady, Consume, ToGuideGate, SMGuideGate
  <1>6. CASE OnStartGuide
    <2> DEFINE sub == <<>>
    <2>1. Head(queue) \notin Marks
      BY <1>6 DEF OnStartGuide, On, Marks
    <2>2. queue # <<>> /\ Consume(sub)
      BY <1>6 DEF OnStartGuide, On
    <2>3. sub = <<>> \/ (\E e \in Events \ Marks : sub = <<e>>)
      BY DEF Events, Tokens, Marks
    <2> HIDE DEF sub
    <2>4. SameMarks
      BY <2>1, <2>2, <2>3, ConsumeIsSteady
    <2> QED BY <1>6, <2>4 DEF OnStartGuide, On, Steady, Consume
  <1>7. CASE OnGuideDone
    <2> DEFINE sub == IF seq = "WaitGuide" /\ ~SettleWait THEN <<"SettleDone">> ELSE <<>>
    <2>1. Head(queue) \notin Marks
      BY <1>7 DEF OnGuideDone, On, Marks
    <2>2. queue # <<>> /\ Consume(sub)
      BY <1>7 DEF OnGuideDone, On, SMWaitSettle
    <2>3. sub = <<>> \/ (\E e \in Events \ Marks : sub = <<e>>)
      BY DEF Events, Tokens, Marks
    <2> HIDE DEF sub
    <2>4. SameMarks
      BY <2>1, <2>2, <2>3, ConsumeIsSteady
    <2> QED BY <1>7, <2>4 DEF OnGuideDone, On, Steady, Consume, SMWaitSettle
  <1>8. CASE OnReadyToExpose
    <2> DEFINE sub == <<>>
    <2>1. Head(queue) \notin Marks
      BY <1>8 DEF OnReadyToExpose, On, Marks
    <2>2. queue # <<>> /\ Consume(sub)
      BY <1>8 DEF OnReadyToExpose, On, SMExposing, run
    <2>3. sub = <<>> \/ (\E e \in Events \ Marks : sub = <<e>>)
      BY DEF Events, Tokens, Marks
    <2> HIDE DEF sub
    <2>4. SameMarks
      BY <2>1, <2>2, <2>3, ConsumeIsSteady
    <2> QED BY <1>8, <2>4 DEF OnReadyToExpose, On, Steady, Consume, SMExposing, run
  <1>9. CASE OnExposureDone
    <2> DEFINE sub == IF IsLightOrFlat THEN <<>> ELSE <<"FindStarsDone">>
    <2>1. Head(queue) \notin Marks
      BY <1>9 DEF OnExposureDone, On, Marks
    <2>2. queue # <<>> /\ Consume(sub)
      BY <1>9 DEF OnExposureDone, On, SMFindStars, run
    <2>3. sub = <<>> \/ (\E e \in Events \ Marks : sub = <<e>>)
      BY DEF Events, Tokens, Marks
    <2> HIDE DEF sub
    <2>4. SameMarks
      BY <2>1, <2>2, <2>3, ConsumeIsSteady
    <2> QED BY <1>9, <2>4 DEF OnExposureDone, On, Steady, Consume, SMFindStars, run
  <1>10. CASE OnRMSAlert
    <2> DEFINE sub == <<>>
    <2>1. Head(queue) \notin Marks
      BY <1>10 DEF OnRMSAlert, On, Marks
    <2>2. queue # <<>> /\ Consume(sub)
      BY <1>10 DEF OnRMSAlert, On, run
    <2>3. sub = <<>> \/ (\E e \in Events \ Marks : sub = <<e>>)
      BY DEF Events, Tokens, Marks
    <2> HIDE DEF sub
    <2>4. SameMarks
      BY <2>1, <2>2, <2>3, ConsumeIsSteady
    <2> QED BY <1>10, <2>4 DEF OnRMSAlert, On, Steady, Consume, run
  <1>11. CASE OnNextShot
    <2> DEFINE sub == IF DitherEvery > 0 /\ sinceDither >= DitherEvery /\ guiderActive
                      THEN <<"DoDither">> ELSE <<"SkipDither">>
    <2>1. Head(queue) \notin Marks
      BY <1>11 DEF OnNextShot, On, Marks
    <2>2. queue # <<>> /\ Consume(sub)
      BY <1>11 DEF OnNextShot, On, SMDitherGate, run
    <2>3. sub = <<>> \/ (\E e \in Events \ Marks : sub = <<e>>)
      BY DEF Events, Tokens, Marks
    <2> HIDE DEF sub
    <2>4. SameMarks
      BY <2>1, <2>2, <2>3, ConsumeIsSteady
    <2> QED BY <1>11, <2>4 DEF OnNextShot, On, Steady, Consume, SMDitherGate, run
  <1>12. CASE OnDoDither
    <2> DEFINE sub == <<>>
    <2>1. Head(queue) \notin Marks
      BY <1>12 DEF OnDoDither, On, Marks
    <2>2. queue # <<>> /\ Consume(sub)
      BY <1>12 DEF OnDoDither, On
    <2>3. sub = <<>> \/ (\E e \in Events \ Marks : sub = <<e>>)
      BY DEF Events, Tokens, Marks
    <2> HIDE DEF sub
    <2>4. SameMarks
      BY <2>1, <2>2, <2>3, ConsumeIsSteady
    <2> QED BY <1>12, <2>4 DEF OnDoDither, On, Steady, Consume
  <1>13. CASE OnDitherDone
    <2> DEFINE sub == IF seq = "WaitDither" /\ ~SettleWait THEN <<"SettleDone">> ELSE <<>>
    <2>1. Head(queue) \notin Marks
      BY <1>13 DEF OnDitherDone, On, Marks
    <2>2. queue # <<>> /\ Consume(sub)
      BY <1>13 DEF OnDitherDone, On, SMWaitSettle
    <2>3. sub = <<>> \/ (\E e \in Events \ Marks : sub = <<e>>)
      BY DEF Events, Tokens, Marks
    <2> HIDE DEF sub
    <2>4. SameMarks
      BY <2>1, <2>2, <2>3, ConsumeIsSteady
    <2> QED BY <1>13, <2>4 DEF OnDitherDone, On, Steady, Consume, SMWaitSettle
  <1>14. CASE Discard
    <2> DEFINE sub == <<>>
    <2>1. Head(queue) \notin Marks
      BY <1>14, DiscardsNoToken DEF Marks, Tokens
    <2>2. queue # <<>> /\ Consume(sub)
      BY <1>14 DEF Discard
    <2>3. sub = <<>> \/ (\E e \in Events \ Marks : sub = <<e>>)
      BY DEF Events, Tokens, Marks
    <2> HIDE DEF sub
    <2>4. SameMarks
      BY <2>1, <2>2, <2>3, ConsumeIsSteady
    <2> QED BY <1>14, <2>4 DEF Discard, On, Steady, Consume, run
  <1>15. CASE onGuidingSettleTimeout
    <2>1. queue' = queue \/ queue' = Append(queue, "SettleDone")
      BY <1>15 DEF onGuidingSettleTimeout, Submit
    <2>2. "SettleDone" \in Events \ Marks
      BY DEF Events, Tokens, Marks
    <2>3. SameMarks
      BY <2>1, <2>2, SubmitIsSteady
    <2> QED BY <1>15, <2>3 DEF onGuidingSettleTimeout, Steady, Submit
  <1>16. CASE OnSucessSEP
    <2>1. queue' = queue \/ queue' = Append(queue, "FindStarsDone")
      BY <1>16 DEF OnSucessSEP, Submit
    <2>2. "FindStarsDone" \in Events \ Marks
      BY DEF Events, Tokens, Marks
    <2>3. SameMarks
      BY <2>1, <2>2, SubmitIsSteady
    <2> QED BY <1>16, <2>3 DEF OnSucessSEP, Steady, Submit
  <1>17. CASE FocuserReady
    <2>1. queue' = queue \/ queue' = Append(queue, "FocusDone")
      BY <1>17 DEF FocuserReady, Submit
    <2>2. "FocusDone" \in Events \ Marks
      BY DEF Events, Tokens, Marks
    <2>3. SameMarks
      BY <2>1, <2>2, SubmitIsSteady
    <2> QED BY <1>17, <2>3 DEF FocuserReady, Steady, Submit
  <1>18. CASE GuiderRms
    <2>1. queue' = queue \/ queue' = Append(queue, "GuideDone")
      BY <1>18 DEF GuiderRms
    <2>2. "GuideDone" \in Events \ Marks
      BY DEF Events, Tokens, Marks
    <2>3. SameMarks
      BY <2>1, <2>2, SubmitIsSteady
    <2> QED BY <1>18, <2>3 DEF GuiderRms, Steady
  <1>19. CASE GuiderReady
    <2>1. queue' = queue \/ queue' = Append(queue, "GuiderLost")
      BY <1>19 DEF GuiderReady
    <2>2. "GuiderLost" \in Events \ Marks
      BY DEF Events, Tokens, Marks
    <2>3. SameMarks
      BY <2>1, <2>2, SubmitIsSteady
    <2> QED BY <1>19, <2>3 DEF GuiderReady, Steady
  <1>20. CASE CoolingReached
    <2>1. queue' = queue \/ queue' = Append(queue, "CoolingReady")
      BY <1>20 DEF CoolingReached, Submit, run
    <2>2. "CoolingReady" \in Events \ Marks
      BY DEF Events, Tokens, Marks
    <2>3. SameMarks
      BY <2>1, <2>2, SubmitIsSteady
    <2> QED BY <1>20, <2>3 DEF CoolingReached, Steady, Submit, run
  <1>21. CASE FilterReached
    <2>1. queue' = queue \/ queue' = Append(queue, "FilterReady")
      BY <1>21 DEF FilterReached, Submit, run
    <2>2. "FilterReady" \in Events \ Marks
      BY DEF Events, Tokens, Marks
    <2>3. SameMarks
      BY <2>1, <2>2, SubmitIsSteady
    <2> QED BY <1>21, <2>3 DEF FilterReached, Steady, Submit, run
  <1>22. CASE CameraAlert
    <2>1. queue' = queue \/ queue' = Append(queue, "CameraAlert")
      BY <1>22 DEF CameraAlert, Submit, run
    <2>2. "CameraAlert" \in Events \ Marks
      BY DEF Events, Tokens, Marks
    <2>3. SameMarks
      BY <2>1, <2>2, SubmitIsSteady
    <2> QED BY <1>22, <2>3 DEF CameraAlert, Steady, Submit, run
  <1>23. CASE FrameSaved
    <2>1. queue' = queue \/ queue' = Append(queue, "ExposureDone")
      BY <1>23 DEF FrameSaved, run
    <2>2. "ExposureDone" \in Events \ Marks
      BY DEF Events, Tokens, Marks
    <2>3. SameMarks
      BY <2>1, <2>2, SubmitIsSteady
    <2> QED BY <1>23, <2>3 DEF FrameSaved, Steady, run
  <1>24. CASE AbortSequence
    <2>1. queue' = queue \/ queue' = Append(queue, "abort")
      BY <1>24 DEF AbortSequence
    <2>2. "abort" \in Events \ Marks
      BY DEF Events, Tokens, Marks
    <2>3. SameMarks
      BY <2>1, <2>2, SubmitIsSteady
    <2> QED BY <1>24, <2>3 DEF AbortSequence, Steady
  <1>25. CASE FocuserFails \/ GuiderFails \/ FrameArrives \/ UNCHANGED vars
    BY <1>25 DEF FocuserFails, GuiderFails, FrameArrives, vars, Steady, SameMarks, machine, run
  <1>26. CASE GuiderGuiding
    <2>1. queue' = queue \/ (\E x \in {"GuideDone", "DitherDone"} : queue' = queue \o <<x>>)
      BY <1>26, SubmitNone DEF GuiderGuiding, AwaitedFromGuider, TypeOK, QueueType
    <2>2. {"GuideDone", "DitherDone"} \subseteq Events \ Marks
      BY DEF Events, Tokens, Marks
    <2>3. SameMarks
      BY <2>1, <2>2, SubmitIsSteady
    <2> QED BY <1>26, <2>3 DEF GuiderGuiding, Steady
  <1>27. CASE GuiderRmsAlert
    <2> DEFINE q == Append(queue, "RMSAlert")
    <2>1. q \in Seq(Events) /\ \A e \in Marks : Contains(q, e) <=> Contains(queue, e)
      <3>1. "RMSAlert" \in Events \ Marks /\ queue \in Seq(Events)
        BY DEF TypeOK, QueueType, Events, Marks
      <3> QED BY <3>1, SubmitOne, MarksOfSubmission
    <2>2. queue' = q \o AwaitedFromGuider
      BY <1>27 DEF GuiderRmsAlert
    <2> HIDE DEF q
    <2>3. queue' = q \/ (\E x \in {"GuideDone", "DitherDone"} : queue' = q \o <<x>>)
      BY <2>1, <2>2, SubmitNone DEF AwaitedFromGuider
    <2>4. {"GuideDone", "DitherDone"} \subseteq Events \ Marks
      BY DEF Events, Tokens, Marks
    <2>5. ASSUME NEW x \in Events \ Marks, queue' = q \o <<x>> PROVE SameMarks
      BY <2>1, <2>5, MarksOfSubmission DEF SameMarks
    <2>6. ASSUME queue' = q PROVE SameMarks
      BY <2>1, <2>6 DEF SameMarks
    <2>7. SameMarks
      BY <2>3, <2>4, <2>5, <2>6
    <2> QED BY <1>27, <2>7 DEF GuiderRmsAlert, Steady
  <1>28. ASSUME NEW s \in Timed, TimerFires(s) PROVE Steady
    <2>1. queue' = Append(queue, TimeoutOf[s])
      BY <1>28 DEF TimerFires, Submit
    <2>2. TimeoutOf[s] \in Events \ Marks
      BY TimeoutsAreTimeouts DEF Events, Timeouts, Marks
    <2>3. SameMarks
      BY <2>1, <2>2, SubmitIsSteady
    <2> QED BY <1>28, <2>3 DEF TimerFires, Submit, Steady, run
  <1> QED BY <1>1, <1>2, <1>3, <1>4, <1>5, <1>6, <1>7, <1>8, <1>9, <1>10, <1>11, <1>12, <1>13, <1>14, <1>15, <1>16, <1>17, <1>18, <1>19, <1>20, <1>21, <1>22, <1>23, <1>24, <1>25, <1>26, <1>27, <1>28
      DEF Next, User, ProcessEvent

(* A queue without tokens has none of them. *)
LEMMA QuietHasNone ==
    ASSUME NEW q \in Seq(Events), Quiet(q), NEW e \in Tokens
    PROVE  ~Contains(q, e)
  BY DEF Quiet, Contains

(* The only token afterwards is the one the handler submits. *)
LEMMA TokensAfter ==
    ASSUME TypeOK, queue # <<>>, Quiet(Rest), NEW sub \in Submission, Consume(sub)
    PROVE  \A e \in Tokens : Contains(queue', e) <=> sub = <<e>>
  <1>1. Rest \in Seq(Events) /\ queue' = Rest \o sub
    BY RestIsQueue DEF TypeOK, QueueType, Consume, Rest
  <1>2. \A e \in Tokens : ~Contains(Rest, e)
    BY <1>1, QuietHasNone
  <1>3. CASE sub = <<>>
    BY <1>1, <1>2, <1>3, SubmitNone
  <1>4. ASSUME NEW x \in Events, sub = <<x>>
        PROVE  \A e \in Tokens : Contains(queue', e) <=> sub = <<e>>
    <2>1. \A e : Contains(Rest \o <<x>>, e) <=> Contains(Rest, e) \/ e = x
      BY <1>1, OfSubmission
    <2>2. \A e : sub = <<e>> <=> x = e
      BY <1>4
    <2> QED BY <1>1, <1>2, <1>4, <2>1, <2>2
  <1> QED BY <1>3, <1>4 DEF Submission

(* SMInitLine opens the next row, or stays behind the last. *)
LEMMA NextRowOpens ==
    ASSUME TypeOK, queue # <<>>, Quiet(Rest), SMInitLine,
           UNCHANGED <<total, done>>, top' = "Running", total = ShotsOf(done),
           line \in 0..NLines,
           \A l \in Lines : /\ l <= line => done[l] = Enough(l)
                            /\ l < line => status[l] = "Ok"
                            /\ l > line => status[l] = "Idle" /\ done[l] = 0
    PROVE  Ledger'
  <1>1. /\ line' = line + 1 /\ seq' = "InitLine" /\ NLines \in Nat /\ Count \in [Lines -> Nat]
        /\ status \in [Lines -> {"Idle", "Busy", "Ok", "Error"}]
        /\ line' \in 1..(NLines + 1)
    BY Grid DEF SMInitLine, TypeOK, RunType
  <1>2. \A l \in Lines : l \in Int
    BY <1>1 DEF Lines
  <1>3. CASE line + 1 > NLines
    <2>1. /\ Consume(<<"SequenceDoneAll">>)
          /\ status' = IF line \in Lines THEN [status EXCEPT ![line] = "Ok"] ELSE status
      BY <1>3 DEF SMInitLine
    <2>2. <<"SequenceDoneAll">> \in Submission /\ "LineLoaded" \in Tokens
      BY DEF Submission, Events, Tokens
    <2>3. ~Contains(queue', "LineLoaded")
      BY <2>1, <2>2, TokensAfter
    <2>4. line' > NLines /\ line' \notin Lines
      BY <1>1, <1>3 DEF Lines
    <2>5. \A l \in Lines : status'[l] = "Ok" /\ done'[l] = Enough(l) /\ ~(l > line')
      <3> TAKE l \in Lines
      <3>1. l \in Int /\ l <= NLines /\ line \in Int
        BY <1>1, <1>2 DEF Lines
      <3>2. l <= line
        BY <1>3, <3>1, <1>1
      <3>3. l = line \/ l < line
        BY <3>1, <3>2
      <3> QED BY <1>1, <2>1, <3>1, <3>2, <3>3
    <2>6. CurrentRow' /\ OtherRows' /\ GridIsShot'
      BY <1>1, <2>3, <2>4, <2>5 DEF CurrentRow, OtherRows, GridIsShot, Enough
    <2> QED BY <1>1, <2>4, <2>6 DEF Ledger
  <1>4. CASE ~(line + 1 > NLines)
    <2>1. /\ Consume(<<"LineLoaded">>) /\ left' = Count[line + 1]
          /\ status' = [l \in Lines |-> IF l = line THEN "Ok"
                                        ELSE IF l = line + 1 THEN "Busy" ELSE status[l]]
      BY <1>4 DEF SMInitLine
    <2>2. <<"LineLoaded">> \in Submission /\ {"LineLoaded", "LineDone"} \subseteq Tokens
      BY DEF Submission, Events, Tokens
    <2>3. Contains(queue', "LineLoaded") /\ ~Contains(queue', "LineDone")
      <3>1. <<"LineLoaded">> # <<"LineDone">>
        OBVIOUS
      <3> QED BY <2>1, <2>2, <3>1, TokensAfter
    <2>4. line' \in Lines /\ ~(line' > NLines) /\ line' # line
      BY <1>1, <1>4 DEF Lines
    <2>5. /\ status'[line'] = "Busy" /\ done'[line'] = 0
          /\ left' \in Nat /\ left' = Count[line']
      BY <1>1, <2>1, <2>4
    <2>6. CurrentRow'
      BY <2>3, <2>4, <2>5 DEF CurrentRow
    <2>7. OtherRows'
      <3> SUFFICES ASSUME NEW l \in Lines
                   PROVE  /\ l < line' => status'[l] = "Ok" /\ done'[l] = Enough(l)
                          /\ l > line' => status'[l] = "Idle" /\ done'[l] = 0
        BY DEF OtherRows, Enough
      <3>1. l \in Int /\ line \in Int
        BY <1>2
      <3>2. CASE l < line'
        <4>1. l <= line /\ (l = line \/ l < line) /\ l # line + 1
          BY <1>1, <3>1, <3>2
        <4> QED BY <1>1, <2>1, <3>1, <3>2, <4>1
      <3>3. CASE ~(l < line')
        <4>1. l > line /\ l # line /\ (l > line' => l # line + 1)
          BY <1>1, <3>1, <3>3
        <4> QED BY <2>1, <3>3, <4>1
      <3> QED BY <3>2, <3>3
    <2> QED BY <1>1, <2>3, <2>4, <2>6, <2>7 DEF Ledger, GridIsShot
  <1> QED BY <1>3, <1>4

(* A frame that counts is one the row still needs, and completes it as *)
(* LineDone says.                                                      *)
LEMMA FrameIsBooked ==
    ASSUME Inv, Ledger, OnFindStarsDone
    PROVE  /\ Ledger'
           /\ \/ done' = done
              \/ /\ line \in Lines /\ done[line] < Enough(line)
                 /\ \A l \in Lines : l < line => done[l] = Enough(l)
                 /\ done' = [done EXCEPT ![line] = done[line] + 1]
  <1>1. /\ queue # <<>> /\ seq = "FindingStars" /\ seq' = "EvalShot" /\ running
        /\ SMEvalShot /\ UNCHANGED <<top, running, line, status>> /\ TypeOK
    <2>1. UNCHANGED running
      BY DEF OnFindStarsDone, SMEvalShot, AcceptShot, Consume
    <2> QED BY <2>1 DEF OnFindStarsDone, On, Inv
  <1>2. top = "Running" /\ top' = "Running"
    BY <1>1 DEF Inv, Lockstep
  <1>3. Quiet(Rest) /\ Quiet(queue) /\ queue \in Seq(Events)
    <2>1. queue \in Seq(Events) /\ Single(queue, seq)
      BY <1>1, <1>2 DEF TypeOK, QueueType, Inv, TokensFit, Fits
    <2>2. "FindingStars" \in SeqStates \cup {"Off"} /\ "FindingStars" \notin Gates
      BY DEF SeqStates, Gates
    <2>3. Quiet(queue)
      BY <1>1, <2>1, <2>2, TokensAreForGates, SingleIsQuiet
    <2> QED BY <1>1, <2>1, <2>3, QuietRest DEF Rest
  <1>4. "LineDone" \in Tokens /\ ~Contains(queue, "LineDone")
    BY <1>3, QuietHasNone DEF Tokens
  <1>5. /\ line \in Lines /\ line \in Int /\ total = ShotsOf(done) /\ OtherRows
        /\ status[line] = "Busy" /\ left = Count[line] - done[line] /\ done[line] \in Nat
        /\ left > 0 \/ (Count[line] = 0 /\ done[line] = 0)
        /\ line \in 1..(NLines + 1) /\ ~(line > NLines)
        /\ Count[line] \in Nat
    <2>1. ~GridIsShot
      BY <1>1 DEF GridIsShot
    <2>2. line \in 1..(NLines + 1) /\ ~(line > NLines) /\ total = ShotsOf(done)
          /\ CurrentRow /\ OtherRows
      BY <1>2, <2>1 DEF Ledger
    <2>3. line \in Lines /\ line \in Int
      BY <2>2, Grid DEF Lines
    <2> QED BY <1>4, <2>2, <2>3, Grid DEF CurrentRow
  <1>6. ~GridIsShot'
    BY <1>1 DEF GridIsShot
  <1>7. CASE IsLightOrFlat /\ HfrCheck /\ hfrHigh
    <2>1. Consume(<<"DoFocus">>) /\ UNCHANGED <<left, total, done>>
      BY <1>1, <1>7 DEF SMEvalShot
    <2>2. <<"DoFocus">> \in Submission /\ <<"DoFocus">> # <<"LineDone">>
      BY DEF Submission, Events, Tokens
    <2>3. ~Contains(queue', "LineDone")
      BY <1>1, <1>3, <1>4, <2>1, <2>2, TokensAfter
    <2>4. CurrentRow' /\ OtherRows'
      BY <1>1, <1>5, <2>1, <2>3 DEF CurrentRow, OtherRows, Enough
    <2> QED BY <1>1, <1>2, <1>5, <1>6, <2>1, <2>4 DEF Ledger
  <1>8. CASE ~(IsLightOrFlat /\ HfrCheck /\ hfrHigh)
    <2>1. /\ left' = left - 1 /\ total' = total + 1
          /\ done' = [done EXCEPT ![line] = Count[line] - (left - 1)]
          /\ Consume(IF MoreShots THEN <<"NextShot">> ELSE <<"LineDone">>)
      BY <1>1, <1>5, <1>8 DEF SMEvalShot, AcceptShot
    <2>2. /\ {<<"NextShot">>, <<"LineDone">>} \subseteq Submission
          /\ <<"NextShot">> # <<"LineDone">>
      BY DEF Submission, Events, Tokens
    <2>3. Contains(queue', "LineDone") <=> ~MoreShots
      <3>1. CASE MoreShots
        BY <1>1, <1>3, <1>4, <2>1, <2>2, <3>1, TokensAfter
      <3>2. CASE ~MoreShots
        BY <1>1, <1>3, <1>4, <2>1, <2>2, <3>2, TokensAfter
      <3> QED BY <3>1, <3>2
    <2>4. Count[line] - (left - 1) = done[line] + 1
      BY <1>5
    <2>5. done' = [done EXCEPT ![line] = done[line] + 1] /\ done \in [Lines -> Int]
      BY <1>1, <2>1, <2>4 DEF TypeOK, RunType
    <2>6. total' = ShotsOf(done')
      BY <1>5, <2>1, <2>5, OneShotMore
    <2>7. /\ done'[line] = done[line] + 1 /\ done'[line] \in Nat
          /\ left' = Count[line] - done'[line]
      BY <1>5, <2>1, <2>5
    <2>8. done[line] < Enough(line)
      BY <1>5 DEF Enough
    <2>9. IF MoreShots THEN left' > 0 ELSE left' <= 0 /\ done'[line] = Enough(line)
      BY <1>5, <2>1, <2>7 DEF MoreShots, Enough
    <2>10. CurrentRow'
      BY <1>1, <1>5, <2>3, <2>7, <2>9 DEF CurrentRow, Enough
    <2>11. OtherRows'
      BY <1>1, <1>5, <2>5 DEF OtherRows, Enough
    <2>12. Ledger'
      BY <1>1, <1>2, <1>5, <1>6, <2>6, <2>10, <2>11 DEF Ledger
    <2> QED BY <1>5, <2>5, <2>8, <2>12 DEF OtherRows
  <1> QED BY <1>7, <1>8

(* Only a stopped machine is started, whose leftovers are gone. *)
LEMMA RunStartsBlank ==
    ASSUME ~KeepsLeftovers, StartSequence
    PROVE  ~running /\ running' /\ top' = "None" /\ Blank'
  <1>1. ~running /\ running' /\ top' = "None"
    BY SequencerAssumption DEF StartSequence, MayStart
  <1>2. line' = 0 /\ total' = 0 /\ done' = [l \in Lines |-> 0]
        /\ status' = [l \in Lines |-> "Idle"]
    BY DEF StartSequence, ResetRun
  <1> QED BY <1>1, <1>2 DEF Blank

(* The first row is opened with no shot taken. *)
LEMMA FirstRowOpens ==
    ASSUME Inv, Ledger, OnCoolingReady
    PROVE  Ledger'
  <1>1. /\ queue # <<>> /\ running /\ top = "WaitCooling" /\ top' = "Running"
        /\ SMInitLine /\ UNCHANGED <<total, done>> /\ TypeOK
    BY DEF OnCoolingReady, On, Inv
  <1>2. Quiet(Rest)
    BY <1>1, RestIsQuiet DEF Inv
  <1>3. /\ line = 0 /\ total = 0 /\ done = [l \in Lines |-> 0]
        /\ status = [l \in Lines |-> "Idle"]
    BY <1>1 DEF Ledger, Blank
  <1>4. total = ShotsOf(done)
    BY <1>3, NoShots
  <1>5. line \in 0..NLines
    BY <1>3, Grid
  <1>6. \A l \in Lines : /\ l <= line => done[l] = Enough(l)
                         /\ l < line => status[l] = "Ok"
                         /\ l > line => status[l] = "Idle" /\ done[l] = 0
    <2> TAKE l \in Lines
    <2>1. l \in Nat /\ l >= 1
      BY Grid DEF Lines
    <2> QED BY <1>3, <2>1
  <1> QED BY <1>1, <1>2, <1>4, <1>5, <1>6, NextRowOpens

(* A row that is done is left for the next one. *)
LEMMA NextRowFollows ==
    ASSUME Inv, Ledger, OnLineDone
    PROVE  Ledger'
  <1>1. /\ queue # <<>> /\ running /\ seq = "EvalShot" /\ UNCHANGED top
        /\ SMInitLine /\ UNCHANGED <<total, done>> /\ TypeOK
        /\ Head(queue) = "LineDone"
    BY DEF OnLineDone, On, Inv
  <1>2. top = "Running" /\ top' = "Running"
    BY <1>1 DEF Inv, Lockstep
  <1>3. Quiet(Rest)
    <2>1. Head(queue) \in Tokens
      BY <1>1 DEF Tokens
    <2> QED BY <1>1, <2>1, RestIsQuiet DEF Inv
  <1>4. Contains(queue, "LineDone")
    BY <1>1 DEF Contains, TypeOK, QueueType
  <1>5. /\ line \in 1..(NLines + 1) /\ ~(line > NLines) /\ total = ShotsOf(done)
        /\ CurrentRow /\ OtherRows
    <2>1. ~GridIsShot
      BY <1>1 DEF GridIsShot
    <2> QED BY <1>2, <2>1 DEF Ledger
  <1>6. line \in Lines /\ line \in 0..NLines
    BY <1>5, Grid DEF Lines
  <1>7. done[line] = Enough(line)
    BY <1>4, <1>5, <1>6 DEF CurrentRow
  <1>8. \A l \in Lines : /\ l <= line => done[l] = Enough(l)
                         /\ l < line => status[l] = "Ok"
                         /\ l > line => status[l] = "Idle" /\ done[l] = 0
    <2> TAKE l \in Lines
    <2>1. l \in Nat /\ line \in Nat
      BY <1>6, Grid DEF Lines
    <2>2. l <= line <=> l < line \/ l = line
      BY <2>1
    <2> QED BY <1>5, <1>7, <2>2 DEF OtherRows
  <1> QED BY <1>1, <1>2, <1>3, <1>5, <1>6, <1>8, NextRowOpens

(* The row that was opened is begun. *)
LEMMA RowBegins ==
    ASSUME Inv, Ledger, OnLineLoaded
    PROVE  Ledger'
  <1> DEFINE sub == IF FilterWheel THEN <<>> ELSE <<"FilterReady">>
  <1>1. /\ queue # <<>> /\ running /\ seq = "InitLine" /\ seq' = "FilterStep"
        /\ UNCHANGED <<running, top, line, left, total, done, status>>
        /\ Consume(sub) /\ TypeOK /\ Head(queue) = "LineLoaded"
    BY DEF OnLineLoaded, On, Inv, run, Consume
  <1>2. top = "Running" /\ top' = "Running"
    BY <1>1 DEF Inv, Lockstep
  <1>3. Quiet(Rest)
    <2>1. Head(queue) \in Tokens
      BY <1>1 DEF Tokens
    <2> QED BY <1>1, <2>1, RestIsQuiet DEF Inv
  <1>4. Contains(queue, "LineLoaded") /\ ~Contains(queue, "LineDone")
    <2>1. queue \in Seq(Events) /\ Head(queue) = queue[1] /\ 1 \in 1..Len(queue)
      BY <1>1 DEF TypeOK, QueueType
    <2>2. {"LineLoaded", "LineDone"} \subseteq Tokens
      BY DEF Tokens
    <2>3. \A i \in 1..Len(queue) : queue[i] \in Tokens => i = 1
      BY <1>1, <1>2, <2>1, <2>2 DEF Inv, TokensFit, Fits, Single
    <2> QED BY <1>1, <2>1, <2>2, <2>3 DEF Contains
  <1>5. ~Contains(queue', "LineDone")
    <2>1. sub \in Submission /\ sub # <<"LineDone">> /\ "LineDone" \in Tokens
      BY DEF Submission, Events, Tokens
    <2> HIDE DEF sub
    <2> QED BY <1>1, <1>3, <2>1, TokensAfter
  <1>6. /\ line \in 1..(NLines + 1) /\ ~(line > NLines) /\ total = ShotsOf(done)
        /\ CurrentRow /\ OtherRows
    <2>1. ~GridIsShot
      BY <1>4 DEF GridIsShot
    <2> QED BY <1>2, <2>1 DEF Ledger
  <1>7. CurrentRow' /\ OtherRows' /\ ~GridIsShot'
    BY <1>1, <1>4, <1>5, <1>6 DEF CurrentRow, OtherRows, GridIsShot, Enough
  <1> QED BY <1>1, <1>2, <1>6, <1>7 DEF Ledger

(* The books are kept by every step. *)
LEMMA LedgerStep ==
    ASSUME ~KeepsLeftovers
    PROVE  Inv /\ Ledger /\ [Next]_vars => Ledger'
  <1> SUFFICES ASSUME Inv, Ledger, [Next]_vars PROVE Ledger'
    OBVIOUS
  <1>0. Inv'
    BY InvStep
  <1>1. CASE Steady
    <2>1. /\ UNCHANGED <<running, top, line, left, total, done, status>>
          /\ GridIsShot' <=> GridIsShot
          /\ Contains(queue', "LineDone") <=> Contains(queue, "LineDone")
      BY <1>1 DEF Steady, SameMarks, Marks, GridIsShot
    <2>2. (CurrentRow' <=> CurrentRow) /\ (OtherRows' <=> OtherRows) /\ (Blank' <=> Blank)
      BY <2>1 DEF CurrentRow, OtherRows, Blank, Enough
    <2> QED BY <2>1, <2>2 DEF Ledger
  <1>2. CASE StartSequence
    BY <1>2, RunStartsBlank DEF Ledger
  <1>3. CASE StartWithoutCamera
    <2>1. ~running /\ UNCHANGED <<running, top>>
      BY <1>3, SequencerAssumption DEF StartWithoutCamera, MayStart, machine
    <2>2. top # "Running"
      BY <2>1 DEF Inv, Phases
    <2> QED BY <2>1, <2>2 DEF Ledger
  <1>4. CASE OnStartSequence
    <2>1. /\ running /\ idle /\ top' = "WaitCooling"
          /\ UNCHANGED <<line, total, done, status>>
      BY <1>4 DEF OnStartSequence, On, run
    <2>2. top # "Running"
      BY <2>1 DEF Inv, Phases
    <2> QED BY <2>1, <2>2 DEF Ledger, Blank
  <1>5. CASE OnSequenceDoneAll \/ OnAbort \/ OnFatal
    <2>1. ~running' /\ top' # "Running"
      BY <1>5 DEF OnSequenceDoneAll, OnAbort, OnFatal, SMDone, SMAborted, SMError, StopIn
    <2> QED BY <2>1 DEF Ledger
  <1> QED BY <1>1, <1>2, <1>3, <1>4, <1>5, LedgerSteps, FirstRowOpens, RowBegins,
             NextRowFollows, FrameIsBooked

(* They are true in every run. *)
LEMMA LedgerHolds ==
    ASSUME ~KeepsLeftovers
    PROVE  Spec => [](Inv /\ Fresh /\ Ledger)
  <1>1. Init => Ledger
    BY DEF Init, Ledger
  <1> QED BY <1>1, LedgerStep, FreshHolds, PTL DEF Spec

(* The shots of the rows add up to mShotsCompleted, rows that were left are *)
(* complete, the current one has the shots that mShotCount says are gone,   *)
(* for every grid (SMInitLine, SMEvalShot, updateLiveSequenceProgress).     *)
THEOREM BooksAddUp ==
    ASSUME ~KeepsLeftovers
    PROVE  Spec => []ShotsAddUp
  <1>1. Ledger /\ top = "Running" => total = ShotsOf(done) /\ CurrentRow /\ OtherRows
    BY DEF Ledger
  <1>2. ASSUME Ledger, top = "Running", NEW l \in Lines
        PROVE  /\ l < line => status[l] = "Ok" /\ done[l] = Enough(l)
               /\ l = line => /\ status[l] = "Busy"
                              /\ left = Count[l] - done[l]
                              /\ (left > 0 \/ Contains(queue, "LineDone")) \/ Count[l] <= 0
               /\ l > line => status[l] = "Idle" /\ done[l] = 0
    <2>1. CurrentRow /\ OtherRows
      BY <1>1, <1>2
    <2>2. l = line => /\ status[l] = "Busy"
                      /\ left = Count[l] - done[l]
                      /\ (left > 0 \/ Contains(queue, "LineDone")) \/ Count[l] <= 0
      BY <2>1 DEF CurrentRow
    <2> QED BY <2>1, <2>2 DEF OtherRows
  <1>3. Ledger => ShotsAddUp
    BY <1>1, <1>2 DEF ShotsAddUp, ShotsOf
  <1> QED BY <1>3, LedgerHolds, PTL

(* A run that ends as done has shot every row. *)
LEMMA DoneIsShot ==
    ASSUME Inv, Fresh, Ledger, OnSequenceDoneAll
    PROVE  done = [l \in Lines |-> Enough(l)]
  <1>1. running /\ Contains(queue, "SequenceDoneAll") /\ queue \in Seq(Events)
    BY DEF OnSequenceDoneAll, On, Contains, Inv, TypeOK, QueueType
  <1>2. seq = "InitLine" /\ Quiet(queue)
    BY <1>1 DEF Fresh, QueueFits
  <1>3. GridIsShot /\ top = "Running"
    <2>1. "LineLoaded" \in Tokens
      BY DEF Tokens
    <2> QED BY <1>1, <1>2, <2>1, QuietHasNone DEF GridIsShot, Inv, Lockstep
  <1>4. line \in 1..(NLines + 1) /\ line > NLines /\ OtherRows
    BY <1>3 DEF Ledger
  <1>5. \A l \in Lines : l < line
    BY <1>4, Grid DEF Lines
  <1>6. \A l \in Lines : done[l] = Enough(l)
    BY <1>4, <1>5 DEF OtherRows
  <1> QED BY <1>6 DEF Inv, TypeOK, RunType

(* Every step of the sequencer is one of a SequenceRun, or none. *)
LEMMA PromiseStep ==
    ASSUME ~KeepsLeftovers, Inv, Fresh, Ledger, [Next]_vars
    PROVE  [Promise!Next]_Promise!vars
  <1>0. done \in [Lines -> Int] /\ DOMAIN [l \in Lines |-> Enough(l)] = Lines
    BY DEF Inv, TypeOK, RunType
  <1>1. CASE Steady
    BY <1>1 DEF Steady, Promise!vars
  <1>2. CASE StartSequence
    <2>1. ~running /\ running' /\ done' = [l \in Lines |-> 0]
      BY <1>2, RunStartsBlank DEF Blank
    <2>2. Promise!Begin
      BY <1>0, <2>1 DEF Promise!Begin
    <2> QED BY <2>2 DEF Promise!Next
  <1>3. CASE StartWithoutCamera
    BY <1>3 DEF StartWithoutCamera, machine, Promise!vars
  <1>4. CASE OnStartSequence \/ OnCoolingReady \/ OnLineLoaded \/ OnLineDone
    <2>1. running /\ running' = running /\ done' = done
      BY <1>4 DEF OnStartSequence, OnCoolingReady, OnLineLoaded, OnLineDone, On, Consume,
                  SMInitLine, run
    <2> QED BY <2>1 DEF Promise!vars
  <1>5. CASE OnFindStarsDone
    <2>1. running /\ running' = running
      BY <1>5 DEF OnFindStarsDone, On, SMEvalShot, AcceptShot, Consume
    <2>2. CASE done' = done
      BY <2>1, <2>2 DEF Promise!vars
    <2>3. CASE /\ line \in Lines /\ done[line] < Enough(line)
               /\ \A l \in Lines : l < line => done[l] = Enough(l)
               /\ done' = [done EXCEPT ![line] = done[line] + 1]
      <3>1. Promise!Shoot(line)
        BY <1>0, <2>1, <2>3 DEF Promise!Shoot
      <3> QED BY <1>0, <2>3, <3>1 DEF Promise!Next
    <2> QED BY <1>5, <2>2, <2>3, FrameIsBooked
  <1>6. CASE OnSequenceDoneAll
    <2>1. running /\ ~running' /\ top' = "Done" /\ done' = done
      BY <1>6 DEF OnSequenceDoneAll, On, SMDone, StopIn
    <2>2. done = [l \in Lines |-> Enough(l)]
      BY <1>6, DoneIsShot
    <2>3. Promise!End
      BY <2>1, <2>2 DEF Promise!End
    <2> QED BY <2>3 DEF Promise!Next
  <1>7. CASE OnAbort \/ OnFatal
    <2>1. running /\ ~running' /\ top' \in {"Aborted", "Error"} /\ done' = done
      BY <1>7 DEF OnAbort, OnFatal, On, SMAborted, SMError, StopIn
    <2>2. Promise!End
      BY <2>1 DEF Promise!End
    <2> QED BY <2>2 DEF Promise!Next
  <1> QED BY <1>1, <1>2, <1>3, <1>4, <1>5, <1>6, <1>7, LedgerSteps

(* The sequencer implements SequenceRun for every grid: rows are shot in    *)
(* order, no frame beyond what a row asks for is accepted, and a run that   *)
(* ends as done has shot them all (SMInitLine, SMEvalShot, SMDone).         *)
THEOREM ImplementsSequenceRun ==
    ASSUME ~KeepsLeftovers
    PROVE  Spec => KeepsPromise
  <1>1. Init => Promise!Init
    BY DEF Init, Promise!Init
  <1>2. Inv /\ Fresh /\ Ledger /\ [Next]_vars => [Promise!Next]_Promise!vars
    BY PromiseStep
  <1> QED BY <1>1, <1>2, LedgerHolds, PTL DEF Spec, KeepsPromise, Promise!Spec
=============================================================================
