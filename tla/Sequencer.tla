----------------------------- MODULE Sequencer -----------------------------
(***************************************************************************)
(* The sequencer module of OST: the state chart of                         *)
(* src/modules/sequencer/sequencer.scxml together with the C++ entry       *)
(* handlers and callbacks of sequencer.cpp that feed it.                   *)
(*                                                                         *)
(* The state chart is a hierarchy: Idle, and Active with WaitCooling, the  *)
(* three parallel regions SequenceCtrl / FocusCtrl / GuideCtrl of Running, *)
(* and the terminal states.  Events are put into the interpreter's queue   *)
(* by the entry handlers, by main-thread callbacks and by the INDI thread, *)
(* and are taken one at a time, in order.                                  *)
(*                                                                         *)
(* The focuser, the guider, the star detection, the camera and the Qt      *)
(* interpreter are modelled from the way this module uses them.            *)
(***************************************************************************)
EXTENDS Integers, SequencesExt

CONSTANTS
    NLines,              \* number of rows of the "sequence" grid
    Count,               \* Count[l]: the row's "count" column
    FilterOf,            \* FilterOf[l]: the filter the row asks for
    EnableCooling,       \* "enablecooling" is set and the camera is valid
    FilterWheel,         \* a filter wheel is present, rows command it
    IsLightOrFlat,       \* "frametype" is L or F
    FocusOnFilterChange, \* "autofocusonfilterchange"
    HfrCheck,            \* "hfrthreshold" > 0
    SuspendForFocus,     \* "suspendguidingduringfocus"
    UseGuiding,          \* "useguiding"
    DitherEvery,         \* "ditherevery", 0 disables dithering
    SettleWait,          \* "guidingsettletime" > 0
    RmsCheck,            \* "rmsthreshold" > 0
    SuspendAfterSequence,\* "suspendguidingaftersequence"
    SuspendOnError,      \* "suspendguidingonerror"
    CameraMayAlert,      \* the camera may report IPS_ALERT
    GuiderMayFail,       \* the guider may stop by itself
    AllowReissue,        \* the user may press Start while a run is active
    KeepsLeftovers,      \* start() keeps the queue and configuration of a stopped machine
    MaxQueue,            \* bound: outsiders submit while fewer are queued
    MaxShots             \* bound: no start within a run that accepted as many frames

ASSUME SequencerAssumption ==
    /\ NLines \in Nat
    /\ Count \in [1..NLines -> Nat]
    /\ DitherEvery \in Nat
    /\ MaxQueue \in Nat /\ MaxShots \in Nat
    /\ \A b \in {EnableCooling, FilterWheel, IsLightOrFlat, HfrCheck,
                 FocusOnFilterChange, SuspendForFocus, UseGuiding, SettleWait,
                 RmsCheck, SuspendAfterSequence, SuspendOnError,
                 CameraMayAlert, GuiderMayFail, AllowReissue, KeepsLeftovers} :
            b \in BOOLEAN
    /\ AllowReissue => KeepsLeftovers

Lines == 1..NLines
Filters == {FilterOf[l] : l \in Lines}

VARIABLES
  (* the QScxmlStateMachine *)
    running,       \* isRunning()
    starting,      \* start() was called, the initial transition is pending
    draining,      \* processEvents() is on the main thread's stack
    queue,         \* external event queue
    idle,          \* Idle is in the configuration
    top,           \* the active child of Active, "None" outside Active
    seq, foc, gui, \* the active child of each region, "Off" outside Running
    armed,         \* states whose delayed <send> has neither fired nor been cancelled
  (* members of Sequencer *)
    line,          \* mCurrentLine + 1
    left,          \* mShotCount
    filter,        \* mCurrentFilter
    sinceDither,   \* mShotsSinceDither
    total,         \* mShotsCompleted
    guiderActive,  \* mGuiderActive
    suspended,     \* mGuiderWasSuspended
    lastFocused,   \* mLastFocusedFilter, "never" while ~mHasFocusedOnce
    hfrHigh,       \* mLastHFR > hfrthreshold
    settle,        \* mSettleTimer is active
    done,          \* done[l]: shots in livesequence's "progressduration"
    status,        \* status[l]: livesequence's "status" light
    signal,        \* identifier of the last setStateEvent()
  (* what the sequencer talks to *)
    guider,        \* the guider module
    readyPending,  \* its deferred Ok/"ready" after an abort
    focuser,       \* TRUE while the focus module runs an autofocus
    exposing,      \* a capture is in progress or its frame on the way
    blob,          \* the INDI thread is inside newBLOB()
    sep            \* star detection runs, successSEP is connected

machine == <<running, starting, draining, queue, idle, top, seq, foc, gui, armed>>
run     == <<line, left, filter, sinceDither, total, guiderActive, suspended,
             lastFocused, hfrHigh, settle, done, status, signal>>
outside == <<guider, readyPending, focuser, exposing, blob, sep>>
vars    == <<machine, run, outside>>

(***************************************************************************)
(* Events and states.  DoRecal, Recalibrating and WaitRecal are left out:  *)
(* no code submits DoRecal.                                                *)
(***************************************************************************)
Tokens == {"LineLoaded", "DoFocus", "SkipFocus", "StartGuide", "SkipGuide",
           "DoDither", "SkipDither", "NextShot", "LineDone"}
Timeouts == {"CoolingTimeout", "FilterTimeout", "ExposureTimeout",
             "FocusTimeout", "GuiderTimeout", "DitherTimeout"}
Events == Tokens \cup Timeouts \cup
          {"startsequence", "abort", "CameraAlert", "GuiderLost",
           "SequenceDoneAll", "CoolingReady", "FilterReady", "FocusDone",
           "GuideDone", "DitherDone", "SettleDone", "ExposureDone",
           "RMSAlert", "FindStarsDone"}

Gates     == {"InitLine", "FocusGate", "GuideGate", "DitherGate", "EvalShot"}
SeqStates == Gates \cup {"FilterStep", "WaitFocus", "WaitGuide", "WaitSettle",
                         "WaitDither", "Exposing", "FindingStars"}
FocStates == {"FocusIdle", "Focusing"}
GuiStates == {"GuideIdle", "GuideStarting", "Dithering"}
Terminal  == {"Done", "Aborted", "Error"}
Timed     == {"WaitCooling", "FilterStep", "Exposing", "Focusing",
              "GuideStarting", "Dithering"}

(* The event the <send> of a timed state delivers. *)
TimeoutOf == [s \in Timed |->
    CASE s = "WaitCooling"   -> "CoolingTimeout"
      [] s = "FilterStep"    -> "FilterTimeout"
      [] s = "Exposing"      -> "ExposureTimeout"
      [] s = "Focusing"      -> "FocusTimeout"
      [] s = "GuideStarting" -> "GuiderTimeout"
      [] s = "Dithering"     -> "DitherTimeout"]

(* The atomic states of the configuration, Idle aside. *)
Config == {top, seq, foc, gui}

(* The <transition event="..."> elements of each state. *)
TransitionsOf(s) ==
    CASE s = "WaitCooling"   -> {"CoolingReady", "CoolingTimeout"}
      [] s = "InitLine"      -> {"LineLoaded"}
      [] s = "FilterStep"    -> {"FilterReady", "FilterTimeout"}
      [] s = "FocusGate"     -> {"DoFocus", "SkipFocus"}
      [] s = "WaitFocus"     -> {"FocusDone"}
      [] s = "GuideGate"     -> {"StartGuide", "SkipGuide"}
      [] s = "WaitGuide"     -> {"GuideDone"}
      [] s = "WaitSettle"    -> {"SettleDone"}
      [] s = "DitherGate"    -> {"DoDither", "SkipDither"}
      [] s = "WaitDither"    -> {"DitherDone", "GuiderLost"}
      [] s = "Exposing"      -> {"ExposureDone", "ExposureTimeout", "GuiderLost", "RMSAlert"}
      [] s = "FindingStars"  -> {"FindStarsDone"}
      [] s = "EvalShot"      -> {"NextShot", "LineDone", "DoFocus"}
      [] s = "FocusIdle"     -> {"DoFocus"}
      [] s = "Focusing"      -> {"FocusDone", "FocusTimeout"}
      [] s = "GuideIdle"     -> {"StartGuide", "DoDither"}
      [] s = "GuideStarting" -> {"GuideDone", "GuiderTimeout"}
      [] s = "Dithering"     -> {"DitherDone", "DitherTimeout"}
      [] OTHER               -> {}

Takes(e) ==
    \/ e = "startsequence" /\ idle
    \/ e \in {"abort", "CameraAlert", "SequenceDoneAll"} /\ top # "None"
    \/ \E s \in Config : e \in TransitionsOf(s)

-----------------------------------------------------------------------------
(***************************************************************************)
(* Commands to the slave modules.                                          *)
(***************************************************************************)

(* "abortguider": an idle guider ignores it; a busy one stops at once and  *)
(* confirms by a zero-delay timer.                                         *)
AbortGuider ==
    /\ guider' = "off"
    /\ readyPending' = (readyPending \/ guider # "off")

(* "guide": an idle guider begins its initialisation and calibration. *)
StartGuider == guider' = IF guider = "off" THEN "starting" ELSE guider

(***************************************************************************)
(* Entry handlers.  Each gives the variables the handler assigns and the   *)
(* event it submits; the transition around it says what else moves.        *)
(***************************************************************************)
Rest == Tail(queue)

(* The event is consumed and sub is what the entry handlers submit. *)
Consume(sub) ==
    /\ queue' = Rest \o sub
    /\ draining' = (queue' # <<>>)
    /\ UNCHANGED <<running, starting>>

(* The <send> and the <cancel> of a timed state. *)
NoArm(s)    == armed' = armed                \* mutant: no watchdog is started
NoCancel(s) == armed' = armed                \* mutant: no watchdog is cancelled
Arm(s)      == armed' = armed \cup {s}
Cancel(s)   == armed' = armed \ {s}

SMInitLine ==
    /\ seq' = "InitLine"
    /\ line' = line + 1
    /\ IF line + 1 > NLines
       THEN /\ status' = IF line \in Lines THEN [status EXCEPT ![line] = "Ok"] ELSE status
            /\ Consume(<<"SequenceDoneAll">>)
            /\ UNCHANGED <<left, filter, hfrHigh, signal>>
       ELSE /\ status' = [l \in Lines |-> IF l = line THEN "Ok"
                                          ELSE IF l = line + 1 THEN "Busy"
                                          ELSE status[l]]
            /\ left' = Count[line + 1]
            /\ filter' = FilterOf[line + 1]
            /\ hfrHigh' = FALSE
            /\ signal' = "startline"
            /\ Consume(<<"LineLoaded">>)

SMFocusGate ==
    LET needsFocus == /\ IsLightOrFlat
                      /\ FocusOnFilterChange
                      /\ lastFocused # filter
    IN  Consume(IF needsFocus THEN <<"DoFocus">> ELSE <<"SkipFocus">>)

(* Mutant: the suspension is not cleared when guiding is asked back. *)
SMGuideGateKeepsFlag ==
    /\ suspended' = suspended
    /\ Consume(IF UseGuiding /\ ~(guiderActive /\ ~suspended)
               THEN <<"StartGuide">> ELSE <<"SkipGuide">>)
SMGuideGate ==
    IF UseGuiding /\ ~(guiderActive /\ ~suspended)
    THEN suspended' = FALSE /\ Consume(<<"StartGuide">>)
    ELSE suspended' = suspended /\ Consume(<<"SkipGuide">>)

SMDitherGate ==
    LET dither == DitherEvery > 0 /\ sinceDither >= DitherEvery /\ guiderActive
    IN  Consume(IF dither THEN <<"DoDither">> ELSE <<"SkipDither">>)

(* Mutant: the settling is not waited for. *)
SMWaitSettleTwice == settle' = SettleWait /\ Consume(<<"SettleDone">>)
SMWaitSettle ==
    IF SettleWait
    THEN settle' = TRUE /\ Consume(<<>>)
    ELSE settle' = settle /\ Consume(<<"SettleDone">>)

SMExposing ==
    /\ seq' = "Exposing"
    /\ Arm("Exposing")
    /\ exposing' = TRUE
    /\ Consume(<<>>)

SMFindStars ==
    IF IsLightOrFlat
    THEN sep' = TRUE /\ Consume(<<>>)
    ELSE sep' = sep /\ Consume(<<"FindStarsDone">>)

MoreShotsOffByOne == left > 0                \* mutant
MoreShots == left - 1 > 0

AcceptShot ==
    /\ left' = left - 1
    /\ sinceDither' = sinceDither + 1
    /\ total' = total + 1
    /\ done' = IF line \in Lines
                THEN [done EXCEPT ![line] = Count[line] - (left - 1)] ELSE done
    /\ Consume(IF MoreShots THEN <<"NextShot">> ELSE <<"LineDone">>)

SMEvalShot ==
    IF IsLightOrFlat /\ HfrCheck /\ hfrHigh
    THEN Consume(<<"DoFocus">>) /\ UNCHANGED <<left, sinceDither, total, done>>
    ELSE AcceptShot

(* Mutant: FocusIdle has no transition for DoFocus. *)
SMFocusingMissed ==
    /\ foc' = "FocusIdle"
    /\ UNCHANGED <<armed, focuser, suspended, guiderActive, guider, readyPending>>
SMFocusing ==
    /\ foc' = "Focusing"
    /\ Arm("Focusing")
    /\ focuser' = TRUE
    /\ IF guiderActive /\ SuspendForFocus
       THEN suspended' = TRUE /\ guiderActive' = FALSE /\ AbortGuider
       ELSE UNCHANGED <<suspended, guiderActive, guider, readyPending>>

SMGuideStarting ==
    /\ gui' = "GuideStarting"
    /\ Arm("GuideStarting")
    /\ StartGuider
    /\ UNCHANGED sinceDither

SMDithering ==
    /\ gui' = "Dithering"
    /\ Arm("Dithering")
    /\ sinceDither' = 0
    /\ guider' = IF guider = "guiding" THEN "dithering" ELSE guider

(* Every state but t is left, their timers are cancelled, stop() keeps the *)
(* events that are still queued.                                           *)
StopIn(t) ==
    /\ top' = t /\ idle' = FALSE
    /\ seq' = "Off" /\ foc' = "Off" /\ gui' = "Off"
    /\ armed' = {}
    /\ queue' = Rest
    /\ running' = FALSE /\ draining' = FALSE
    /\ UNCHANGED starting

(* A run cut short marks its current row. *)
MarkLineError ==
    status' = IF line \in Lines THEN [status EXCEPT ![line] = "Error"] ELSE status

SMDone ==
    /\ StopIn("Done")
    /\ signal' = "sequencedone"
    /\ IF guiderActive /\ SuspendAfterSequence
       THEN guiderActive' = FALSE /\ AbortGuider
       ELSE UNCHANGED <<guiderActive, guider, readyPending>>
    /\ UNCHANGED <<line, left, filter, sinceDither, total, suspended, lastFocused, hfrHigh,
                   settle, done, status, focuser, exposing, blob, sep>>

SMAborted ==
    /\ StopIn("Aborted")
    /\ settle' = FALSE
    /\ MarkLineError
    /\ signal' = "abortdone"
    /\ UNCHANGED <<line, left, filter, sinceDither, total, guiderActive, suspended,
                   lastFocused, hfrHigh, done, outside>>

SMError ==
    /\ StopIn("Error")
    /\ settle' = FALSE
    /\ MarkLineError
    /\ signal' = "sequenceerror"
    /\ IF guiderActive /\ SuspendOnError
       THEN guiderActive' = FALSE /\ AbortGuider
       ELSE UNCHANGED <<guiderActive, guider, readyPending>>
    /\ UNCHANGED <<line, left, filter, sinceDither, total, suspended, lastFocused, hfrHigh,
                   done, focuser, exposing, blob, sep>>

-----------------------------------------------------------------------------
(***************************************************************************)
(* The interpreter takes the head of the queue: one action per event.      *)
(***************************************************************************)
On(e) == running /\ ~starting /\ queue # <<>> /\ Head(queue) = e

(* The initial transition after start(). *)
EnterIdle ==
    /\ running /\ starting
    /\ starting' = FALSE
    /\ idle' = TRUE
    /\ draining' = (queue # <<>>)
    /\ UNCHANGED <<running, queue, top, seq, foc, gui, armed, run, outside>>

OnStartSequence ==
    /\ On("startsequence") /\ idle
    /\ idle' = FALSE
    /\ top' = "WaitCooling" /\ seq' = "Off" /\ foc' = "Off" /\ gui' = "Off"
    /\ armed' = {"WaitCooling"}
    /\ Consume(IF EnableCooling THEN <<>> ELSE <<"CoolingReady">>)
    /\ UNCHANGED <<run, outside>>

OnCoolingReady ==
    /\ On("CoolingReady") /\ top = "WaitCooling"
    /\ top' = "Running" /\ foc' = "FocusIdle" /\ gui' = "GuideIdle"
    /\ Cancel("WaitCooling")
    /\ SMInitLine
    /\ UNCHANGED <<idle, sinceDither, total, guiderActive, suspended, lastFocused,
                   settle, done, outside>>

OnLineLoaded ==
    /\ On("LineLoaded") /\ seq = "InitLine"
    /\ seq' = "FilterStep"
    /\ Arm("FilterStep")
    /\ Consume(IF FilterWheel THEN <<>> ELSE <<"FilterReady">>)
    /\ UNCHANGED <<idle, top, foc, gui, run, outside>>

OnFilterReady ==
    /\ On("FilterReady") /\ seq = "FilterStep"
    /\ seq' = "FocusGate"
    /\ Cancel("FilterStep")
    /\ SMFocusGate
    /\ UNCHANGED <<idle, top, foc, gui, run, outside>>

OnDoFocus ==
    /\ On("DoFocus")
    /\ seq \in {"FocusGate", "EvalShot"} \/ foc = "FocusIdle"
    /\ seq' = IF seq \in {"FocusGate", "EvalShot"} THEN "WaitFocus" ELSE seq
    /\ Consume(<<>>)
    /\ IF foc = "FocusIdle"
       THEN SMFocusing
       ELSE UNCHANGED <<foc, armed, focuser, suspended, guiderActive, guider, readyPending>>
    /\ UNCHANGED <<idle, top, gui, line, left, filter, sinceDither, total, lastFocused, hfrHigh,
                   settle, done, status, signal, exposing, blob, sep>>

(* SequenceCtrl goes on to GuideGate. *)
ToGuideGate ==
    /\ seq' = "GuideGate"
    /\ SMGuideGate

OnSkipFocus ==
    /\ On("SkipFocus") /\ seq = "FocusGate"
    /\ ToGuideGate
    /\ UNCHANGED <<idle, top, foc, gui, armed, line, left, filter, sinceDither, total, guiderActive,
                   lastFocused, hfrHigh, settle, done, status, signal, outside>>

OnFocusDone ==
    /\ On("FocusDone")
    /\ seq = "WaitFocus" \/ foc = "Focusing"
    /\ foc' = IF foc = "Focusing" THEN "FocusIdle" ELSE foc
    /\ Cancel("Focusing")
    /\ IF seq = "WaitFocus" THEN ToGuideGate
                            ELSE Consume(<<>>) /\ UNCHANGED <<seq, suspended>>
    /\ UNCHANGED <<idle, top, gui, line, left, filter, sinceDither, total, guiderActive,
                   lastFocused, hfrHigh, settle, done, status, signal, outside>>

OnStartGuide ==
    /\ On("StartGuide")
    /\ seq = "GuideGate" \/ gui = "GuideIdle"
    /\ seq' = IF seq = "GuideGate" THEN "WaitGuide" ELSE seq
    /\ Consume(<<>>)
    /\ IF gui = "GuideIdle" THEN SMGuideStarting
                            ELSE UNCHANGED <<gui, armed, guider, sinceDither>>
    /\ UNCHANGED <<idle, top, foc, line, left, filter, total, guiderActive, suspended, lastFocused,
                   hfrHigh, settle, done, status, signal,
                   readyPending, focuser, exposing, blob, sep>>

OnGuideDone ==
    /\ On("GuideDone")
    /\ seq = "WaitGuide" \/ gui = "GuideStarting"
    /\ gui' = IF gui = "GuideStarting" THEN "GuideIdle" ELSE gui
    /\ Cancel("GuideStarting")
    /\ IF seq = "WaitGuide" THEN seq' = "WaitSettle" /\ SMWaitSettle
                            ELSE Consume(<<>>) /\ UNCHANGED <<seq, settle>>
    /\ UNCHANGED <<idle, top, foc, line, left, filter, sinceDither, total, guiderActive, suspended,
                   lastFocused, hfrHigh, done, status, signal, outside>>

(* SkipGuide, SkipDither and SettleDone all lead to a new exposure. *)
OnReadyToExpose ==
    /\ \E p \in {<<"SkipGuide", "GuideGate">>, <<"SkipDither", "DitherGate">>,
                 <<"SettleDone", "WaitSettle">>} : On(p[1]) /\ seq = p[2]
    /\ SMExposing
    /\ UNCHANGED <<idle, top, foc, gui, run, guider, readyPending, focuser, blob, sep>>

OnExposureDone ==
    /\ On("ExposureDone") /\ seq = "Exposing"
    /\ seq' = "FindingStars"
    /\ Cancel("Exposing")
    /\ SMFindStars
    /\ UNCHANGED <<idle, top, foc, gui, run, guider, readyPending, focuser, exposing, blob>>

OnRMSAlert ==
    /\ On("RMSAlert") /\ seq = "Exposing"
    /\ seq' = "WaitGuide"
    /\ Cancel("Exposing")
    /\ Consume(<<>>)
    /\ UNCHANGED <<idle, top, foc, gui, run, outside>>

OnFindStarsDone ==
    /\ On("FindStarsDone") /\ seq = "FindingStars"
    /\ seq' = "EvalShot"
    /\ SMEvalShot
    /\ UNCHANGED <<idle, top, foc, gui, armed, line, filter, guiderActive, suspended,
                   lastFocused, hfrHigh, settle, status, signal, outside>>

OnNextShot ==
    /\ On("NextShot") /\ seq = "EvalShot"
    /\ seq' = "DitherGate"
    /\ SMDitherGate
    /\ UNCHANGED <<idle, top, foc, gui, armed, run, outside>>

OnLineDone ==
    /\ On("LineDone") /\ seq = "EvalShot"
    /\ SMInitLine
    /\ UNCHANGED <<idle, top, foc, gui, armed, sinceDither, total, guiderActive, suspended,
                   lastFocused, settle, done, outside>>

OnDoDither ==
    /\ On("DoDither")
    /\ seq = "DitherGate" \/ gui = "GuideIdle"
    /\ seq' = IF seq = "DitherGate" THEN "WaitDither" ELSE seq
    /\ Consume(<<>>)
    /\ IF gui = "GuideIdle" THEN SMDithering
                            ELSE UNCHANGED <<gui, armed, guider, sinceDither>>
    /\ UNCHANGED <<idle, top, foc, line, left, filter, total, guiderActive, suspended, lastFocused,
                   hfrHigh, settle, done, status, signal,
                   readyPending, focuser, exposing, blob, sep>>

OnDitherDone ==
    /\ On("DitherDone")
    /\ seq = "WaitDither" \/ gui = "Dithering"
    /\ gui' = IF gui = "Dithering" THEN "GuideIdle" ELSE gui
    /\ Cancel("Dithering")
    /\ IF seq = "WaitDither" THEN seq' = "WaitSettle" /\ SMWaitSettle
                             ELSE Consume(<<>>) /\ UNCHANGED <<seq, settle>>
    /\ UNCHANGED <<idle, top, foc, line, left, filter, sinceDither, total, guiderActive, suspended,
                   lastFocused, hfrHigh, done, status, signal, outside>>

OnSequenceDoneAll == On("SequenceDoneAll") /\ top # "None" /\ SMDone

(* Mutant: Active has no transition for abort. *)
OnAbortIgnored ==
    /\ On("abort") /\ top # "None"
    /\ Consume(<<>>)
    /\ UNCHANGED <<idle, top, seq, foc, gui, armed, run, outside>>
OnAbort == On("abort") /\ top # "None" /\ SMAborted

(* Every transition whose target is Error. *)
OnFatal ==
    /\ \/ On("CameraAlert") /\ top # "None"
       \/ On("GuiderLost") /\ seq \in {"WaitDither", "Exposing"}
       \/ \E s \in Timed : On(TimeoutOf[s]) /\ s \in Config
    /\ SMError

(* An event no active state has a transition for is dropped. *)
Discard ==
    /\ running /\ ~starting /\ queue # <<>> /\ ~Takes(Head(queue))
    /\ Consume(<<>>)
    /\ UNCHANGED <<idle, top, seq, foc, gui, armed, run, outside>>

ProcessEvent ==
    \/ EnterIdle \/ OnStartSequence \/ OnCoolingReady \/ OnLineLoaded \/ OnFilterReady
    \/ OnDoFocus \/ OnSkipFocus \/ OnFocusDone \/ OnStartGuide \/ OnGuideDone
    \/ OnReadyToExpose \/ OnExposureDone \/ OnRMSAlert \/ OnFindStarsDone
    \/ OnNextShot \/ OnLineDone \/ OnDoDither \/ OnDitherDone
    \/ OnSequenceDoneAll \/ OnAbort \/ OnFatal \/ Discard

-----------------------------------------------------------------------------
(***************************************************************************)
(* Requests of the user (or of the planner), on the main thread: never     *)
(* between two events of one processEvents() call.                         *)
(***************************************************************************)
Room == Len(queue) < MaxQueue

(* Mutant: the row index is not reset. *)
ResetRunKeepsRow ==
    /\ left' = 0 /\ sinceDither' = 0 /\ line' = line
    /\ guiderActive' = FALSE /\ suspended' = FALSE /\ hfrHigh' = FALSE

(* What onExternalEvent() clears before it looks at the camera. *)
ResetRun ==
    /\ line' = 0 /\ left' = 0 /\ sinceDither' = 0
    /\ guiderActive' = FALSE /\ suspended' = FALSE /\ hfrHigh' = FALSE

MayStart == ~draining /\ (~running \/ (AllowReissue /\ Room /\ total < MaxShots))

StartSequence ==
    /\ MayStart
    /\ ResetRun
    /\ total' = 0
    /\ done' = [l \in Lines |-> 0]
    /\ status' = [l \in Lines |-> "Idle"]
    /\ signal' = "startsequence"
    /\ running' = TRUE /\ starting' = TRUE
    /\ IF KeepsLeftovers
       THEN queue' = Append(queue, "startsequence") /\ top' = top
       ELSE queue' = <<"startsequence">> /\ top' = "None"
    /\ UNCHANGED <<draining, idle, seq, foc, gui, armed, filter, lastFocused, settle, outside>>

StartWithoutCamera ==
    /\ MayStart
    /\ ResetRun
    /\ signal' = "deviceerror"
    /\ UNCHANGED <<machine, filter, total, lastFocused, settle, done, status, outside>>

AbortSequence ==
    /\ ~draining /\ Room
    /\ settle' = FALSE
    /\ queue' = IF running THEN Append(queue, "abort") ELSE queue
    /\ AbortGuider
    /\ focuser' = FALSE
    /\ UNCHANGED <<running, starting, draining, idle, top, seq, foc, gui, armed,
                   line, left, filter, sinceDither, total, guiderActive, suspended, lastFocused,
                   hfrHigh, done, status, signal, exposing, blob, sep>>

(***************************************************************************)
(* Timers and callbacks of the main thread.                                *)
(***************************************************************************)
Submit(e) == /\ queue' = Append(queue, e)
             /\ UNCHANGED <<running, starting, draining, idle, top, seq, foc, gui>>

TimerFires(s) ==
    /\ ~draining /\ running /\ s \in armed
    /\ Cancel(s)
    /\ Submit(TimeoutOf[s])
    /\ UNCHANGED <<run, outside>>

onGuidingSettleTimeout ==
    /\ ~draining /\ settle
    /\ settle' = FALSE
    /\ Submit("SettleDone")
    /\ UNCHANGED <<armed, line, left, filter, sinceDither, total, guiderActive, suspended,
                   lastFocused, hfrHigh, done, status, signal, outside>>

(* The handler does not look at the state chart. *)
OnSucessSEP ==
    /\ ~draining /\ sep
    /\ sep' = FALSE
    /\ hfrHigh' \in (IF HfrCheck THEN BOOLEAN ELSE {FALSE})
    /\ signal' = "imagehfr"
    /\ Submit("FindStarsDone")
    /\ UNCHANGED <<armed, line, left, filter, sinceDither, total, guiderActive, suspended,
                   lastFocused, settle, done, status,
                   guider, readyPending, focuser, exposing, blob>>

(***************************************************************************)
(* The focus module.  Its failures and aborts say nothing the sequencer    *)
(* listens to.  An autofocus lasts longer than the guider's zero-delay     *)
(* confirmation.                                                           *)
(***************************************************************************)
FocuserReady ==
    /\ ~draining /\ Room /\ focuser /\ ~readyPending
    /\ focuser' = FALSE
    /\ IF foc = "Focusing"
       THEN lastFocused' = filter /\ Submit("FocusDone")
       ELSE UNCHANGED <<lastFocused, queue, running, starting, draining, idle,
                        top, seq, foc, gui>>
    /\ UNCHANGED <<armed, line, left, filter, sinceDither, total, guiderActive, suspended, hfrHigh,
                   settle, done, status, signal, guider, readyPending, exposing, blob, sep>>

FocuserFails ==
    /\ ~draining /\ focuser
    /\ focuser' = FALSE
    /\ UNCHANGED <<machine, run, guider, readyPending, exposing, blob, sep>>

(***************************************************************************)
(* The guider module.                                                      *)
(***************************************************************************)
AwaitedFromGuider ==
    IF gui = "GuideStarting" THEN <<"GuideDone">>
    ELSE IF gui = "Dithering" THEN <<"DitherDone">> ELSE <<>>

(* Busy/"guiding": at the end of the initialisation, which takes longer    *)
(* than the zero-delay confirmation, after a dither, and on every guide    *)
(* frame.                                                                  *)
GuiderGuiding ==
    /\ ~draining /\ Room /\ guider # "off"
    /\ guider = "starting" => ~readyPending
    /\ guider' = "guiding"
    /\ IF UseGuiding
       THEN guiderActive' = TRUE /\ queue' = queue \o AwaitedFromGuider
       ELSE UNCHANGED <<guiderActive, queue>>
    /\ UNCHANGED <<running, starting, draining, idle, top, seq, foc, gui, armed,
                   line, left, filter, sinceDither, total, suspended, lastFocused, hfrHigh,
                   settle, done, status, signal, readyPending, focuser, exposing, blob, sep>>

(* A new "rmsTotal" below the threshold. *)
GuiderRms ==
    /\ ~draining /\ Room /\ guider = "guiding" /\ UseGuiding
    /\ guiderActive' = TRUE
    /\ IF gui = "GuideStarting" \/ seq = "WaitGuide"
       THEN queue' = Append(queue, "GuideDone")
       ELSE queue' = queue
    /\ UNCHANGED <<running, starting, draining, idle, top, seq, foc, gui, armed,
                   line, left, filter, sinceDither, total, suspended, lastFocused, hfrHigh,
                   settle, done, status, signal, outside>>

(* Above it while exposing: exposure and guider are aborted, and the       *)
(* guider's frame handler, which is still running, reports "guiding" again *)
(* before it obeys.                                                        *)
GuiderRmsAlert ==
    /\ ~draining /\ Room /\ guider = "guiding" /\ UseGuiding /\ RmsCheck
    /\ seq = "Exposing" /\ gui # "GuideStarting"
    /\ guiderActive' = TRUE
    /\ exposing' \in {exposing, FALSE}
    /\ AbortGuider
    /\ queue' = Append(queue, "RMSAlert") \o AwaitedFromGuider
    /\ UNCHANGED <<running, starting, draining, idle, top, seq, foc, gui, armed,
                   line, left, filter, sinceDither, total, suspended, lastFocused, hfrHigh,
                   settle, done, status, signal, focuser, blob, sep>>

(* The guider's watchdog, or anybody else's abort. *)
GuiderFails ==
    /\ ~draining /\ GuiderMayFail /\ guider # "off"
    /\ AbortGuider
    /\ UNCHANGED <<machine, run, focuser, exposing, blob, sep>>

(* Ok/"ready", from a zero-delay timer: it comes behind the events that    *)
(* were queued when the guider was aborted.                                *)
GuiderReady ==
    /\ ~draining /\ readyPending /\ (running => queue = <<>>)
    /\ readyPending' = FALSE
    /\ IF ~UseGuiding
       THEN UNCHANGED <<guider, guiderActive, queue>>
       ELSE IF seq = "WaitGuide"
       THEN StartGuider /\ UNCHANGED <<guiderActive, queue>>
       ELSE /\ guiderActive' = FALSE
            /\ queue' = IF guiderActive /\ ~suspended /\ running
                        THEN Append(queue, "GuiderLost") ELSE queue
            /\ UNCHANGED guider
    /\ UNCHANGED <<running, starting, draining, idle, top, seq, foc, gui, armed,
                   line, left, filter, sinceDither, total, suspended, lastFocused, hfrHigh,
                   settle, done, status, signal, focuser, exposing, blob, sep>>

(***************************************************************************)
(* The INDI thread: concurrent with the main thread, one callback at a     *)
(* time.                                                                   *)
(***************************************************************************)
IndiIdle == ~blob /\ Room

CoolingReached ==
    /\ IndiIdle /\ top = "WaitCooling" /\ EnableCooling
    /\ Submit("CoolingReady")
    /\ UNCHANGED <<armed, run, outside>>

FilterReached ==
    /\ IndiIdle /\ seq = "FilterStep" /\ FilterWheel
    /\ Submit("FilterReady")
    /\ UNCHANGED <<armed, run, outside>>

CameraAlert ==
    /\ IndiIdle /\ CameraMayAlert /\ running
    /\ Submit("CameraAlert")
    /\ UNCHANGED <<armed, run, outside>>

(* newBLOB() looks at the state chart, then decodes and saves the frame. *)
FrameArrives ==
    /\ ~blob /\ exposing
    /\ exposing' = FALSE
    /\ blob' = (running /\ seq = "Exposing")
    /\ UNCHANGED <<machine, run, guider, readyPending, focuser, sep>>

FrameSaved ==
    /\ blob
    /\ blob' = FALSE
    /\ queue' = IF running THEN Append(queue, "ExposureDone") ELSE queue
    /\ UNCHANGED <<running, starting, draining, idle, top, seq, foc, gui, armed, run,
                   guider, readyPending, focuser, exposing, sep>>

-----------------------------------------------------------------------------
Init ==
    /\ running = FALSE /\ starting = FALSE /\ draining = FALSE
    /\ queue = <<>> /\ idle = FALSE
    /\ top = "None" /\ seq = "Off" /\ foc = "Off" /\ gui = "Off"
    /\ armed = {}
    /\ line = 0 /\ left = 0 /\ filter = "none" /\ sinceDither = 0 /\ total = 0
    /\ guiderActive = FALSE /\ suspended = FALSE
    /\ lastFocused = "never" /\ hfrHigh = FALSE /\ settle = FALSE
    /\ done = [l \in Lines |-> 0]
    /\ status = [l \in Lines |-> "Idle"]
    /\ signal = "none"
    /\ guider = "off" /\ readyPending = FALSE /\ focuser = FALSE
    /\ exposing = FALSE /\ blob = FALSE /\ sep = FALSE

User == StartSequence \/ StartWithoutCamera \/ AbortSequence

Next ==
    \/ ProcessEvent
    \/ User
    \/ \E s \in Timed : TimerFires(s)
    \/ onGuidingSettleTimeout \/ OnSucessSEP
    \/ FocuserReady \/ FocuserFails
    \/ GuiderGuiding \/ GuiderRms \/ GuiderRmsAlert \/ GuiderFails \/ GuiderReady
    \/ CoolingReached \/ FilterReached \/ CameraAlert
    \/ FrameArrives \/ FrameSaved

Spec == Init /\ [][Next]_vars

(***************************************************************************)
(* Fairness: the Qt event loop goes on processing, an armed timer fires,   *)
(* and a star detection or the saving of a frame ends.  Nothing is assumed *)
(* of the user, the devices, the focuser and the guider.                   *)
(***************************************************************************)
Fairness ==
    /\ WF_vars(ProcessEvent)
    /\ \A s \in Timed : WF_vars(TimerFires(s))
    /\ WF_vars(onGuidingSettleTimeout)
    /\ WF_vars(OnSucessSEP)
    /\ WF_vars(FrameSaved)

FairSpec == Spec /\ Fairness

-----------------------------------------------------------------------------
(***************************************************************************)
(* Properties.                                                             *)
(***************************************************************************)
Signals == {"none", "startsequence", "startline", "imagehfr", "sequencedone",
            "abortdone", "sequenceerror", "deviceerror"}

QueueType ==
    /\ running \in BOOLEAN /\ starting \in BOOLEAN /\ draining \in BOOLEAN
    /\ queue \in Seq(Events)
StateType ==
    /\ idle \in BOOLEAN
    /\ top \in {"None", "WaitCooling", "Running"} \cup Terminal
    /\ seq \in SeqStates \cup {"Off"}
    /\ foc \in FocStates \cup {"Off"}
    /\ gui \in GuiStates \cup {"Off"}
    /\ armed \in SUBSET Timed
RunType ==
    /\ line \in Nat /\ left \in Int /\ sinceDither \in Nat /\ total \in Nat
    /\ filter \in Filters \cup {"none"}
    /\ lastFocused \in Filters \cup {"none", "never"}
    /\ guiderActive \in BOOLEAN /\ suspended \in BOOLEAN
    /\ hfrHigh \in BOOLEAN /\ settle \in BOOLEAN
    /\ done \in [Lines -> Int]
    /\ status \in [Lines -> {"Idle", "Busy", "Ok", "Error"}]
    /\ signal \in Signals
OutsideType ==
    /\ guider \in {"off", "starting", "guiding", "dithering"}
    /\ readyPending \in BOOLEAN /\ focuser \in BOOLEAN
    /\ exposing \in BOOLEAN /\ blob \in BOOLEAN /\ sep \in BOOLEAN

(* Every variable has its type (members of Sequencer, sequencer.h:92-156). *)
TypeOK == QueueType /\ StateType /\ RunType /\ OutsideType

(* The three regions stay in step although each one reacts to an event on  *)
(* its own: SequenceCtrl waits for the focus or the dither exactly while   *)
(* FocusCtrl or GuideCtrl has it under way, and GuideStarting only runs    *)
(* while SequenceCtrl waits for the guider (scxml:21-29, the shared        *)
(* events).                                                                *)
Lockstep ==
    /\ top = "Running" <=> seq # "Off"
    /\ top = "Running" <=> foc # "Off"
    /\ top = "Running" <=> gui # "Off"
    /\ seq = "WaitFocus" <=> foc = "Focusing"
    /\ seq = "WaitDither" <=> gui = "Dithering"
    /\ gui = "GuideStarting" => seq = "WaitGuide"

(* A watchdog never fires for a phase that is over: an armed timer belongs *)
(* to an active state, and while that state is active no timeout of an     *)
(* earlier activation is still queued (the <send>/<cancel> pairs of the    *)
(* timed states).                                                          *)
TimeoutsAreFresh ==
    /\ armed \subseteq Config
    /\ \A s \in armed : ~Contains(queue, TimeoutOf[s])

(* A run's books: the shots of the rows add up to mShotsCompleted, a row   *)
(* that was left is complete and "Ok", the current one has as many shots   *)
(* as mShotCount says are gone, later ones none (SMInitLine, SMEvalShot,   *)
(* updateLiveSequenceProgress).                                            *)
Enough(l) == IF Count[l] > 0 THEN Count[l] ELSE 1
ShotsAddUp ==
    top = "Running" =>
        /\ total = MapThenSumSet(LAMBDA l : done[l], Lines)
        /\ \A l \in Lines :
             /\ l < line => status[l] = "Ok" /\ done[l] = Enough(l)
             /\ l = line => /\ status[l] = "Busy"
                            /\ left = Count[l] - done[l]
                            /\ (left > 0 \/ Contains(queue, "LineDone"))
                                 \/ Count[l] <= 0
             /\ l > line => status[l] = "Idle" /\ done[l] = 0

(* Guiding that the sequencer suspended for a focus is asked back before   *)
(* anything else happens: the flag does not outlive the wait for that      *)
(* focus, whatever the guider reported meanwhile (SMFocusing, SMGuideGate).*)
SuspensionEndsWithFocus ==
    top = "Running" /\ suspended => seq = "WaitFocus"

(* The settle timer only runs while its phase is active and its shot has   *)
(* not been fired yet, so it cannot cut a later settling short             *)
(* (SMWaitSettle, onGuidingSettleTimeout, the stops on abort and error).   *)
SettleIsFresh ==
    settle => seq = "WaitSettle" /\ ~Contains(queue, "SettleDone")

(* A frame is only ever accepted once: the shot counter advances by one,   *)
(* on a measured frame of the current row, and never while a refocus is    *)
(* decided (SMEvalShot).                                                   *)
ShotsCountOnce ==
    [][total' # total =>
         \/ total' = 0 /\ line' = 0
         \/ /\ total' = total + 1
            /\ seq = "FindingStars" /\ ~(HfrCheck /\ hfrHigh)]_vars

(* What the sequencer promises to whoever started it, SequenceRun.         *)
Promise == INSTANCE SequenceRun WITH
    Need    <- [l \in Lines |-> Enough(l)],
    phase   <- IF running THEN "running" ELSE "stopped",
    shots   <- done,
    outcome <- IF running THEN "none"
               ELSE IF top = "Done" THEN "done"
               ELSE IF top = "None" THEN "none" ELSE "cut"
KeepsPromise == Promise!Spec

(* An aborted run stops, also where it would go on for ever by itself      *)
(* (refocus loop, guider that does not come back after an RMS alert): the  *)
(* abort transition of Active.                                             *)
AbortStops == Contains(queue, "abort") /\ running ~> ~running

(* A run comes to an end, because each phase that waits for an answer has a  *)
(* watchdog (scxml, the <send> elements), but for what no watchdog ends:      *)
(* exposures repeated for the HFR or given up for the RMS again and again, a  *)
(* guider that does not come back after an RMS alert, and a user who presses  *)
(* Start in it for ever.                                                      *)
Repeats == \/ seq = "EvalShot" /\ seq' = "WaitFocus"
           \/ seq = "Exposing" /\ seq' = "WaitGuide"
           \/ running /\ (StartSequence \/ StartWithoutCamera)
Unwatched == seq = "WaitGuide" /\ gui # "GuideStarting"
RunsEnd == []<>~running \/ []<><<Repeats>>_vars \/ <>[]Unwatched

(***************************************************************************)
(* What the documentation or a comment says and the code does not do.      *)
(***************************************************************************)

(* An exposure begins only while the guider is known to guide, or else the *)
(* loss of the guider is about to end it (documentation of the sequencer:  *)
(* "Guiding is started (or confirmed already running) before exposures     *)
(* begin").                                                                *)
ExposuresAreGuided ==
    [][UseGuiding /\ seq # "Exposing" /\ seq' = "Exposing"
         => guiderActive \/ Contains(queue', "GuiderLost")]_vars
=============================================================================
