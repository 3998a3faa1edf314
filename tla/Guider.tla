------------------------------- MODULE Guider -------------------------------
(***************************************************************************)
(* The guider module of OST (src/modules/guider/guider.cpp): it takes a    *)
(* reference frame, calibrates the mount by pulses in four directions, and *)
(* guides by exposing, measuring the drift and pulsing against it.         *)
(*                                                                         *)
(* Three QStateMachines on the main thread, started one after the other by *)
(* the "finished" of the one before, all listening to the signals of the   *)
(* same object.  A machine runs from one wait to the next without a break; *)
(* a signal that no machine waits for is lost.  INDI's callbacks run on a  *)
(* thread of their own; what they emit reaches the machines through the    *)
(* main thread's queue of posted calls.                                    *)
(*                                                                         *)
(* Measures are abstracted to which pulses lie between two frames.         *)
(***************************************************************************)
EXTENDS Integers, Sequences, FiniteSets

CONSTANTS
    CalSteps,      \* calParams.calsteps
    Kick,          \* calParams.decbacklashkick > 0
    CalRetries,    \* calParams.calmaxretries
    MaxMatchFail,  \* guideParams.maxmatchfail
    Faults,        \* what else may happen, among Hitches
    MaxSessions,   \* bound: presses of "guide" and "calibrate"
    MaxHitches     \* bound: hitches of a behaviour, "blank", "lost" and "poor" apart

Hitches == {"again",     \* a session begun while a machine runs
            "refused",   \* a device is not there
            "silent",    \* an answer is lost
            "slow",      \* an answer comes after the watchdog
            "early",     \* a pulse ends before the next one is sent
            "blank",     \* fewer than three stars
            "lost",      \* the stars do not match, or are far off
            "poor"}      \* the calibration is mostly drift

ASSUME GuiderAssumption ==
    /\ CalSteps \in Nat \ {0} /\ CalRetries \in Nat /\ MaxMatchFail \in Nat \ {0}
    /\ Kick \in BOOLEAN /\ Faults \subseteq Hitches
    /\ MaxSessions \in Nat /\ MaxHitches \in Nat

Machines == {"Init", "Cal", "Guide"}       \* _SMInit, _SMCalibration, _SMGuide
Axes == {"RA", "DEC"}
Directions == <<"W", "E", "N", "S">>       \* _calState 0 .. 3
AxisOf(pulse) == IF pulse \in {"W", "E"} THEN "RA" ELSE "DEC"

(* The states in which a machine rests, by the signal it waits for there. *)
Hears == [FrameResetDone |-> {"WaitFrameReset"},
          ExposureDone   |-> {"WaitFirstExposure", "WaitCalExposure",
                              "WaitGuideExposure", "WaitRefExposure"},
          FindStarsDone  |-> {"FindStarsFirst", "FindStarsCal",
                              "FindStarsGuide", "FindStarsRef"},
          PulsesDone     |-> {"WaitCalPulses", "WaitGuidePulses", "WaitDitherPulses"}]
Waits == Hears.FrameResetDone \cup Hears.ExposureDone \cup Hears.FindStarsDone
         \cup Hears.PulsesDone

VARIABLES
    at,           \* where each machine is: "off", "starting", or one of Waits;
                  \* "doomed" is starting and told to stop
    posted,       \* <<signal, machine>> and <<"start", machine>> in the queue
    wire,         \* <<a, b>>: the "finished" of a starts b
    deferred,     \* the timer behind Ok/"ready" in SMAbort()
    armed,        \* _watchdog
  (* members *)
    expecting,    \* _expectingFrame
    finished,     \* the axes whose _pulse..finished is set
    doDither,     \* _doDither
    firstFrame,   \* _firstGuideFrame
    fails,        \* _consecutiveMatchFail
    calState, calStep, awaitingKick, calRetry,
    samples,      \* _dxvector, _dyvector
    passes,       \* _calPassMean: the samples of each direction
    calibrated,   \* "calibrationvalues": both rates are there
  (* devices and star detection *)
    resetting,    \* the camera owes its Ok on CCD_FRAME_RESET
    exposing,     \* the exposure under way, {} or one frame
    image,        \* _image
    detecting,    \* the frame whose stars are looked for
    seen,         \* the frame of _solver.stars
    pulsing,      \* the axes the mount is moving
  (* history *)
    trail,        \* calibration and dither pulses since the stars compared with
    said,         \* the last state event
    asked,        \* the last of "guide" and "calibrate"
    aborted,      \* SMAbort() ran after it
    spoiled,      \* another session was begun while this one ran
    leftover,     \* it began while the devices were busy with the one before
    late,         \* an answer was lost, late or early
    sessions, hitches

cal == <<calState, calStep, awaitingKick, calRetry, samples, passes, calibrated>>
guide == <<doDither, firstFrame, fails>>
camera == <<resetting, exposing>>
mount == <<finished, pulsing, trail>>
solver == <<image, detecting, seen>>
session == <<asked, spoiled, leftover, sessions>>
hitched == <<late, hitches>>
vars == <<at, posted, wire, deferred, armed, expecting, guide, cal, camera,
          mount, solver, said, aborted, session, hitched>>

Hitch(h) == h \in Faults /\ hitches < MaxHitches /\ hitches' = hitches + 1

(* isRunning() of a machine *)
Runs(m) == at[m] \in Waits

(* A frame knows whose it is, whether the mount rested when it was begun and *)
(* which pulses lie between the stars it is compared with and itself.  None  *)
(* of this is noted while two sessions cross.                                *)
Noted(pulses) == IF spoiled THEN <<>> ELSE pulses
NotOwn(frames) == {[f EXCEPT !.own = FALSE] : f \in frames}

-----------------------------------------------------------------------------
(* What the entry handlers are made of.  m is the machine; rest what is left *)
(* in the queue.                                                             *)

(* SMAbort(): it stops all machines, which forget what was posted to them; a *)
(* machine still starting enters its first state before it stops.  m is the  *)
(* machines that are in the middle of a step.                                *)
StopsAll(m) ==
    LET doomed == {x \in Machines \ m : at[x] \in {"starting", "doomed"}}
    IN  /\ at' = [x \in Machines |-> IF x \in doomed THEN "doomed" ELSE "off"]
        /\ posted' = {<<"start", x>> : x \in doomed}

\* mutant: the machines are left to come to their End, whose "finished" is
\* still connected
EndsWired(m) ==
    LET next == {x \in Machines : \E y \in Machines : at[y] \in Waits /\ <<y, x>> \in wire}
    IN  /\ at' = [x \in Machines |-> IF x \in next THEN "starting" ELSE "off"]
        /\ posted' = {<<"start", x>> : x \in next}
        /\ UNCHANGED wire
Disconnects(m) == StopsAll(m) /\ wire' = {}

SMAbort(m) ==
    /\ Disconnects(m)
    /\ deferred' = TRUE /\ armed' = FALSE /\ expecting' = FALSE
    /\ aborted' = TRUE

(* setStateEvent(OST::Error, ...) and emit Abort() *)
Fails(m, why) == SMAbort({m}) /\ said' = why

Rests(m, state, rest) ==
    /\ at' = [at EXCEPT ![m] = state]
    /\ posted' = rest
    /\ UNCHANGED <<wire, deferred, aborted>>

(* SMRequestExposure(): a camera busy with another exposure goes on with it. *)
(* trail' is set before.                                                     *)
SMRequestExposure(m, state, rest, event) ==
    \/ /\ Rests(m, state, rest)
       /\ exposing' = IF exposing # {} THEN exposing
                      ELSE {[own |-> TRUE, still |-> spoiled \/ pulsing = {}, trail |-> trail']}
       /\ expecting' = TRUE /\ armed' = TRUE
       /\ said' = event
       /\ UNCHANGED hitched
    \/ /\ Hitch("refused") /\ UNCHANGED late
       /\ Fails(m, "error") /\ UNCHANGED exposing

(* SMFindStars(): whether a detection still at work goes on with its own     *)
(* image or takes this one is the library's affair.                          *)
SMFindStars(m, state, rest) ==
    /\ Rests(m, state, rest)
    /\ \/ detecting' = image
       \/ detecting # {} /\ detecting' = detecting
    /\ armed' = TRUE
    /\ UNCHANGED <<expecting, said, hitched>>

(* SMRequestPulses() with something to send; flags is what is finished       *)
(* before.                                                                   *)
SMRequestPulses(m, state, rest, axes, flags, event) ==
    /\ pulsing' = pulsing \cup axes
    /\ finished' = flags \ axes
    /\ armed' = TRUE
    /\ said' = event
    /\ Rests(m, state, rest)
    /\ UNCHANGED <<expecting, hitched>>

(* The same while guiding.  When both axes are pulsed and DEC comes to rest  *)
(* before RA is sent, the flag of RA is still set: PulsesDone comes at once. *)
SMRequestGuidePulses(state, rest, axes, event) ==
    \/ SMRequestPulses("Guide", state, rest, axes, finished, event)
    \/ /\ axes = Axes /\ finished = Axes /\ Hitch("early") /\ late' = TRUE
       /\ pulsing' = pulsing \cup {"RA"}
       /\ finished' = {"DEC"}
       /\ armed' = TRUE
       /\ said' = event
       /\ Rests("Guide", state, rest \cup {<<"PulsesDone", "Guide">>})
       /\ UNCHANGED expecting

(* The stars just measured become those to compare with; next is pulsed.    *)
Compares(next) ==
    /\ trail' = Noted(next)
    /\ seen' = {[f EXCEPT !.trail = <<>>] : f \in seen}

(* A machine that has come to its End is off, and starts those wired to it   *)
(* that are not running.                                                     *)
Finishes(m, rest) ==
    LET next == {x \in Machines : <<m, x>> \in wire /\ at[x] = "off"}
    IN  /\ at' = [x \in Machines |-> IF x = m THEN "off"
                                     ELSE IF x \in next THEN "starting" ELSE at[x]]
        /\ posted' = {p \in rest : p[2] # m} \cup {<<"start", x>> : x \in next}
        /\ UNCHANGED <<wire, deferred, aborted, armed, expecting>>

(* emit signal: it is posted to the machines that wait for it, but m. *)
Emits(signal, m) == {<<signal, x>> : x \in {y \in Machines \ {m} : at[y] \in Hears[signal]}}

-----------------------------------------------------------------------------
(* _q_start(): a machine runs from its first state to its first wait.        *)
(* A doomed one runs the handler of its first state only.                    *)

FromWest ==
    /\ calState' = 0 /\ calStep' = 0 /\ awaitingKick' = FALSE
    /\ samples' = <<>>
    /\ passes' = [d \in 1..4 |-> <<>>]

(* SMInitCal(), SMRequestPulses() *)
StartCal(rest) ==
    /\ FromWest /\ calRetry' = 0 /\ calibrated' = FALSE
    /\ IF at["Cal"] = "doomed"
       THEN /\ Rests("Cal", "off", rest)
            /\ finished' = Axes /\ said' = "busy"
            /\ UNCHANGED <<armed, expecting, hitched, pulsing, trail>>
       ELSE /\ SMRequestPulses("Cal", "WaitCalPulses", rest, {"RA"}, Axes, "busy")
            /\ trail' = Noted(Append(trail, "W"))
    /\ UNCHANGED <<guide, camera, solver>>

(* SMInitInit(), SMRequestFrameReset() *)
StartInit(rest) ==
    /\ \/ /\ Rests("Init", IF at["Init"] = "doomed" THEN "off" ELSE "WaitFrameReset", rest)
          /\ resetting' = TRUE
          /\ armed' = (armed \/ at["Init"] # "doomed")
          /\ said' = "busy"
          /\ UNCHANGED <<expecting, hitched>>
       \/ /\ at["Init"] = "starting" /\ Hitch("refused") /\ UNCHANGED late
          /\ Fails("Init", "error")
          /\ resetting' \in {resetting, TRUE}
    /\ UNCHANGED <<guide, cal, exposing, mount, solver>>

SMInitGuide == doDither' = FALSE /\ firstFrame' = TRUE /\ fails' = 0

(* SMInitGuide(), SMRequestExposure() *)
StartGuide(rest) ==
    /\ SMInitGuide
    /\ UNCHANGED <<cal, resetting, mount, solver>>
    /\ IF at["Guide"] = "doomed"
       THEN /\ Rests("Guide", "off", rest)
            /\ said' = "startguiding"
            /\ UNCHANGED <<armed, expecting, hitched, exposing>>
       ELSE SMRequestExposure("Guide", "WaitGuideExposure", rest, "startguiding")

Starts(m) ==
    /\ <<"start", m>> \in posted
    /\ LET rest == posted \ {<<"start", m>>}
       IN  \/ m = "Init" /\ StartInit(rest)
           \/ m = "Cal" /\ StartCal(rest)
           \/ m = "Guide" /\ StartGuide(rest)
    /\ UNCHANGED session

-----------------------------------------------------------------------------
(* SMComputeCal().  A sample is what lies between its two frames.            *)

Sample == IF spoiled THEN <<"foreign">> ELSE (CHOOSE f \in seen : TRUE).trail
Sampled == Append(samples, Sample)

PulsesNext(pulse, direction, rest, event) ==
    /\ SMRequestPulses("Cal", "WaitCalPulses", rest, {AxisOf(direction)}, finished, event)
    /\ Compares(<<pulse>>)

CalLost(rest) ==
    /\ "lost" \in Faults
    /\ Fails("Cal", "error")
    /\ UNCHANGED <<cal, mount, seen, hitched>>

\* mutant: the kick's frame is measured like any other
KickMeasured(rest) ==
    /\ awaitingKick /\ awaitingKick' = FALSE
    /\ PulsesNext(Directions[calState + 1], Directions[calState + 1], rest, said)
    /\ samples' = Sampled
    /\ UNCHANGED <<calState, calStep, calRetry, passes, calibrated>>

\* the kick took up the backlash: its frame is no sample
KickTaken(rest) ==
    /\ awaitingKick /\ awaitingKick' = FALSE
    /\ PulsesNext(Directions[calState + 1], Directions[calState + 1], rest, said)
    /\ UNCHANGED <<calState, calStep, calRetry, samples, passes, calibrated>>

StepTaken(rest) ==
    /\ ~awaitingKick /\ calStep + 1 < CalSteps
    /\ calStep' = calStep + 1 /\ samples' = Sampled
    /\ PulsesNext(Directions[calState + 1], Directions[calState + 1], rest, said)
    /\ UNCHANGED <<calState, awaitingKick, calRetry, passes, calibrated>>

PassTaken(rest) ==
    /\ ~awaitingKick /\ calStep + 1 >= CalSteps /\ calState < 3
    /\ calStep' = 0 /\ calState' = calState + 1 /\ samples' = <<>>
    /\ passes' = [passes EXCEPT ![calState + 1] = Sampled]
    /\ awaitingKick' = (Kick /\ calState' \in {2, 3})
    /\ PulsesNext(IF awaitingKick' THEN "kick" ELSE Directions[calState' + 1],
                  Directions[calState' + 1], rest, "busy")
    /\ UNCHANGED <<calRetry, calibrated>>

LastPassTaken(rest) ==
    /\ ~awaitingKick /\ calStep + 1 >= CalSteps /\ calState = 3
    /\ \/ /\ calState' = 4 /\ calStep' = 0 /\ samples' = <<>>          \* CalibrationDone
          /\ passes' = [passes EXCEPT ![4] = Sampled]
          /\ calRetry' = 0 /\ calibrated' = TRUE
          /\ Finishes("Cal", rest) /\ Compares(<<>>) /\ said' = "calcompleted"
          /\ UNCHANGED <<awaitingKick, finished, pulsing, hitched>>
       \/ /\ "poor" \in Faults /\ calRetry < CalRetries               \* calretry
          /\ calRetry' = calRetry + 1
          /\ FromWest
          /\ PulsesNext("W", "W", rest, "busy")
          /\ UNCHANGED calibrated
       \/ /\ "poor" \in Faults /\ calRetry >= CalRetries              \* calbad
          /\ calRetry' = calRetry + 1
          /\ Fails("Cal", "error") /\ Compares(<<>>)
          /\ UNCHANGED <<calState, calStep, awaitingKick, samples, passes, calibrated,
                         finished, pulsing, hitched>>

SMComputeCal(rest) ==
    /\ \/ CalLost(rest)
       \/ KickTaken(rest)
       \/ StepTaken(rest)
       \/ PassTaken(rest)
       \/ LastPassTaken(rest)
    /\ UNCHANGED <<guide, camera, image, detecting>>

-----------------------------------------------------------------------------
(* SMComputeGuide() *)

\* mutant: a frame that asks for no pulse does not say PulsesDone
WaitsForNothing(rest, event) ==
    /\ Rests("Guide", "WaitGuidePulses", rest) /\ said' = event
    /\ UNCHANGED <<mount, seen, exposing, expecting, armed, hitched>>

\* nothing to pulse: PulsesDone at once
GoesOn(rest, event) ==
    /\ UNCHANGED <<mount, seen>>
    /\ SMRequestExposure("Guide", "WaitGuideExposure", rest \cup Emits("PulsesDone", "Guide"), event)

MatchLost(rest) ==
    /\ "lost" \in Faults
    /\ fails' = fails + 1
    /\ UNCHANGED <<doDither, firstFrame>>
    /\ IF fails' >= MaxMatchFail
       THEN SMAbort({"Guide"}) /\ UNCHANGED <<exposing, mount, seen, said, hitched>>
       ELSE GoesOn(rest, said)

FirstFrameTaken(rest) ==
    /\ firstFrame /\ firstFrame' = FALSE /\ fails' = 0
    /\ GoesOn(rest, said)
    /\ UNCHANGED doDither

\* mutant: after a dither guiding goes on with the reference it had
DitherWithoutReference(rest) ==
    /\ ~firstFrame /\ doDither /\ doDither' = FALSE /\ fails' = 0
    /\ UNCHANGED <<firstFrame, seen>>
    /\ \E axes \in (SUBSET Axes) \ {{}} :
          SMRequestGuidePulses("WaitGuidePulses", rest, axes, "dithering")
    /\ trail' = Noted(Append(trail, "dither")) /\ UNCHANGED exposing

\* _doDither is looked at after the first frame
DitherNow(rest) ==
    /\ ~firstFrame /\ doDither /\ doDither' = FALSE /\ fails' = 0
    /\ UNCHANGED <<firstFrame, seen>>
    /\ \E axes \in SUBSET Axes :
          IF axes = {}
          THEN /\ UNCHANGED mount
               /\ SMRequestExposure("Guide", "WaitRefExposure",
                                    rest \cup Emits("PulsesDone", "Guide"), "dithering")
          ELSE /\ SMRequestGuidePulses("WaitDitherPulses", rest, axes, "dithering")
               /\ trail' = Noted(Append(trail, "dither")) /\ UNCHANGED exposing

Corrects(rest) ==
    /\ ~firstFrame /\ ~doDither /\ fails' = 0
    /\ UNCHANGED <<firstFrame, doDither>>
    /\ \E axes \in SUBSET Axes :
          IF axes = {}
          THEN GoesOn(rest, "guideRMS")
          ELSE /\ SMRequestGuidePulses("WaitGuidePulses", rest, axes, "guideRMS")
               /\ UNCHANGED <<trail, seen, exposing>>

SMComputeGuide(rest) ==
    /\ \/ MatchLost(rest)
       \/ FirstFrameTaken(rest)
       \/ DitherNow(rest)
       \/ Corrects(rest)
    /\ UNCHANGED <<cal, resetting, image, detecting>>

-----------------------------------------------------------------------------
(* The reactions to a signal in the queue, each up to the next wait.         *)

\* where SMFindStars() is entered from, and SMRequestExposure() after pulses
Detects == [WaitFirstExposure |-> "FindStarsFirst", WaitCalExposure |-> "FindStarsCal",
            WaitGuideExposure |-> "FindStarsGuide", WaitRefExposure |-> "FindStarsRef"]
Exposes == [WaitFrameReset |-> "WaitFirstExposure", WaitCalPulses |-> "WaitCalExposure",
            WaitGuidePulses |-> "WaitGuideExposure", WaitDitherPulses |-> "WaitRefExposure"]

OnExposureDone(m, rest) ==
    /\ SMFindStars(m, Detects[at[m]], rest)
    /\ UNCHANGED <<guide, cal, camera, mount, image, seen>>

\* FrameResetDone and PulsesDone
OnReadyToExpose(m, rest) ==
    /\ UNCHANGED <<guide, cal, resetting, mount, solver>>
    /\ SMRequestExposure(m, Exposes[at[m]], rest, said)

OnFindStarsDone(m, rest) ==
    \/ /\ at[m] = "FindStarsFirst"
       /\ Compares(<<>>) /\ Finishes(m, rest)
       /\ UNCHANGED <<guide, cal, camera, finished, pulsing, image, detecting, said, hitched>>
    \/ m = "Cal" /\ at[m] = "FindStarsCal" /\ SMComputeCal(rest)
    \/ m = "Guide" /\ at[m] = "FindStarsGuide" /\ SMComputeGuide(rest)
    \/ /\ at[m] = "FindStarsRef"
       /\ Compares(<<>>) /\ SMInitGuide
       /\ SMRequestExposure(m, "WaitGuideExposure", rest, "startguiding")
       /\ UNCHANGED <<cal, resetting, finished, pulsing, image, detecting>>

\* m still waits for what was posted to it: it leaves no wait but by its signal,
\* and forgets the queue when it stops
Reacts(signal, m) ==
    /\ <<signal, m>> \in posted /\ at[m] \in Hears[signal]
    /\ LET rest == posted \ {<<signal, m>>}
       IN  \/ signal = "ExposureDone" /\ OnExposureDone(m, rest)
           \/ signal \in {"FrameResetDone", "PulsesDone"} /\ OnReadyToExpose(m, rest)
           \/ signal = "FindStarsDone" /\ OnFindStarsDone(m, rest)
    /\ UNCHANGED session

EventLoop == \E m \in Machines : Starts(m) \/ \E s \in DOMAIN Hears : Reacts(s, m)

-----------------------------------------------------------------------------
(* onUpdateProperty() and newBLOB() on the INDI thread, the solver's thread  *)

machines == <<at, wire, deferred, armed, guide, cal, aborted, session>>

FrameResetDone ==
    /\ resetting /\ resetting' = FALSE
    /\ posted' = posted \cup Emits("FrameResetDone", "")
    /\ UNCHANGED <<machines, expecting, exposing, mount, solver, said, hitched>>

ExposureEnds ==
    /\ exposing # {} /\ exposing' = {}
    /\ IF expecting
       THEN /\ expecting' = FALSE /\ image' = exposing
            /\ posted' = posted \cup Emits("ExposureDone", "")
       ELSE UNCHANGED <<expecting, image, posted>>
    /\ UNCHANGED <<machines, resetting, mount, detecting, seen, said, hitched>>

PulseEnds(axis) ==
    /\ axis \in pulsing
    /\ pulsing' = pulsing \ {axis} /\ finished' = finished \cup {axis}
    /\ posted' = IF finished' = Axes THEN posted \cup Emits("PulsesDone", "") ELSE posted
    /\ UNCHANGED <<machines, expecting, camera, trail, solver, said, hitched>>

(* OnSucessSEP() *)
DetectionEnds ==
    /\ detecting # {} /\ detecting' = {} /\ seen' = detecting
    /\ \/ /\ posted' = posted \cup Emits("FindStarsDone", "")
          /\ UNCHANGED <<at, wire, deferred, armed, expecting, aborted, said>>
       \/ /\ "blank" \in Faults
          /\ said' = "error"
          /\ IF \E m \in Machines : Runs(m) THEN SMAbort({})
             ELSE UNCHANGED <<at, posted, wire, deferred, armed, expecting, aborted>>
    /\ UNCHANGED <<guide, cal, camera, mount, image, session, hitched>>

(* An answer that does not come: a device is lost, the extraction fails. *)
NoAnswer ==
    /\ Hitch("silent") /\ late' = TRUE
    /\ \/ resetting /\ resetting' = FALSE /\ UNCHANGED <<exposing, pulsing, detecting>>
       \/ exposing # {} /\ exposing' = {} /\ UNCHANGED <<resetting, pulsing, detecting>>
       \/ \E axis \in pulsing : pulsing' = pulsing \ {axis} /\ UNCHANGED <<camera, detecting>>
       \/ detecting # {} /\ detecting' = {} /\ UNCHANGED <<camera, pulsing>>
    /\ UNCHANGED <<machines, posted, expecting, finished, trail, image, seen, said>>

Answers == FrameResetDone \/ ExposureEnds \/ DetectionEnds \/ \E a \in Axes : PulseEnds(a)

-----------------------------------------------------------------------------
(* Timers.  The watchdog leaves the devices their time, unless they are slow. *)

AllQuiet == posted = {} /\ ~resetting /\ exposing = {} /\ pulsing = {} /\ detecting = {}

\* mutant: it does not know of the calibration
WatchdogForgetsCal ==
    /\ armed
    /\ IF Runs("Init") \/ Runs("Guide")
       THEN /\ \/ AllQuiet /\ UNCHANGED hitched
               \/ ~AllQuiet /\ Hitch("slow") /\ late' = TRUE
            /\ said' = "timeout" /\ SMAbort({})
       ELSE /\ armed' = FALSE
            /\ UNCHANGED <<at, posted, wire, deferred, expecting, said, aborted, hitched>>
    /\ UNCHANGED <<guide, cal, camera, mount, solver, session>>

Watchdog ==
    /\ armed
    /\ IF \E m \in Machines : Runs(m)
       THEN /\ \/ AllQuiet /\ UNCHANGED hitched
               \/ ~AllQuiet /\ Hitch("slow") /\ late' = TRUE
            /\ said' = "timeout" /\ SMAbort({})
       ELSE /\ armed' = FALSE
            /\ UNCHANGED <<at, posted, wire, deferred, expecting, said, aborted, hitched>>
    /\ UNCHANGED <<guide, cal, camera, mount, solver, session>>

Ready ==
    /\ deferred /\ deferred' = FALSE /\ said' = "ready"
    /\ UNCHANGED <<at, posted, wire, armed, expecting, guide, cal, camera, mount, solver,
                   aborted, session, hitched>>

-----------------------------------------------------------------------------
(* onExternalEvent() *)

\* mutant: the wires of the session before are left where they are
WiringAdded(key) ==
    wire \cup CASE key = "calibrate" -> {<<"Init", "Cal">>}
                [] key = "guide" /\ ~calibrated -> {<<"Init", "Cal">>, <<"Cal", "Guide">>}
                [] key = "guide" /\ calibrated -> {<<"Init", "Guide">>}

Wiring(key) ==
    CASE key = "calibrate" -> {<<"Init", "Cal">>}
      [] key = "guide" /\ ~calibrated -> {<<"Init", "Cal">>, <<"Cal", "Guide">>}
      [] key = "guide" /\ calibrated -> {<<"Init", "Guide">>}

Off == \A m \in Machines : at[m] = "off"

Begins(key) ==
    /\ sessions < MaxSessions /\ sessions' = sessions + 1
    /\ wire' = Wiring(key)
    /\ at' = IF at["Init"] = "off" THEN [at EXCEPT !["Init"] = "starting"] ELSE at
    /\ posted' = IF at["Init"] = "off" THEN posted \cup {<<"start", "Init">>} ELSE posted
    /\ asked' = key /\ aborted' = FALSE
    /\ IF Off
       THEN /\ spoiled' = FALSE /\ late' = FALSE /\ UNCHANGED hitches
            /\ leftover' = (finished # Axes \/ ~AllQuiet)
            /\ exposing' = NotOwn(exposing) /\ image' = NotOwn(image)
            /\ detecting' = NotOwn(detecting) /\ seen' = NotOwn(seen)
       ELSE /\ Hitch("again") /\ spoiled' = TRUE
            /\ UNCHANGED <<late, leftover, exposing, solver>>
    /\ UNCHANGED <<deferred, armed, expecting, guide, cal, resetting, mount, said>>

\* a machine that is only starting does not hear Abort
AbortPressed ==
    /\ \E m \in Machines : Runs(m)
    /\ SMAbort({})
    /\ UNCHANGED <<guide, cal, camera, mount, solver, said, session, hitched>>

Dither ==
    /\ Runs("Guide") /\ doDither' = TRUE
    /\ UNCHANGED <<at, posted, wire, deferred, armed, expecting, firstFrame, fails, cal,
                   camera, mount, solver, said, aborted, session, hitched>>

ResetCalibration ==
    /\ calibrated' = FALSE
    /\ UNCHANGED <<at, posted, wire, deferred, armed, expecting, guide, calState, calStep,
                   awaitingKick, calRetry, samples, passes, camera, mount, solver, said,
                   aborted, session, hitched>>

Commands == Begins("guide") \/ Begins("calibrate") \/ AbortPressed \/ Dither \/ ResetCalibration

-----------------------------------------------------------------------------
Init ==
    /\ at = [m \in Machines |-> "off"]
    /\ posted = {} /\ wire = {} /\ deferred = FALSE /\ armed = FALSE /\ expecting = FALSE
    /\ finished = Axes /\ pulsing = {} /\ trail = <<>>
    /\ doDither = FALSE /\ firstFrame = FALSE /\ fails = 0
    /\ calState = 0 /\ calStep = 0 /\ awaitingKick = FALSE /\ calRetry = 0
    /\ samples = <<>> /\ passes = [d \in 1..4 |-> <<>>] /\ calibrated \in BOOLEAN
    /\ resetting = FALSE /\ exposing = {} /\ image = {} /\ detecting = {} /\ seen = {}
    /\ said = "none" /\ asked = "none" /\ aborted = FALSE
    /\ spoiled = FALSE /\ leftover = FALSE /\ late = FALSE
    /\ sessions = 0 /\ hitches = 0

Next == EventLoop \/ Answers \/ NoAnswer \/ Watchdog \/ Ready \/ Commands

Fairness ==
    /\ WF_vars(EventLoop) /\ WF_vars(Watchdog) /\ WF_vars(Ready)
    /\ WF_vars(FrameResetDone) /\ WF_vars(ExposureEnds) /\ WF_vars(DetectionEnds)
    /\ \A a \in Axes : WF_vars(PulseEnds(a))

Spec == Init /\ [][Next]_vars
FairSpec == Spec /\ Fairness

-----------------------------------------------------------------------------
(* One session at a time, and of the kind that was asked for: "calibrate"    *)
(* never goes on to guide, whatever the session before was wired to do.      *)
OneSession ==
    ~spoiled =>
        /\ \A m, n \in Machines : at[m] # "off" /\ at[n] # "off" => m = n
        /\ asked = "calibrate" => at["Guide"] = "off"

(* Each wait on a device or on the solver is under the watchdog.             *)
WaitsAreWatched == (\E m \in Machines : Runs(m)) => armed

(* A session that began with the devices at rest times out only when an      *)
(* answer was lost or late: no signal is emitted before it is waited for.    *)
TimeoutsAreDeserved ==
    [][said' = "timeout" /\ armed /\ ~armed' => late' \/ leftover \/ spoiled]_vars

(* The rates that guiding uses come from passes of CalSteps samples, each of *)
(* exactly one pulse in the direction of its pass: neither a backlash kick,  *)
(* nor the pulse of another pass or try is in them.                          *)
PassesArePure ==
    calibrated =>
        \/ \A d \in 1..4 : passes[d] = <<>>
        \/ \A d \in 1..4 : /\ Len(passes[d]) = CalSteps
                           /\ \A i \in 1..CalSteps :
                                passes[d][i] \in {<<Directions[d]>>, <<"foreign">>}

(* A correction is pulsed from a frame of this session, begun with the mount *)
(* at rest, and compared with a reference taken after the last dither.       *)
CorrectionsAreFresh ==
    [][at["Guide"] = "FindStarsGuide" /\ at'["Guide"] = "WaitGuidePulses" /\ ~spoiled /\ ~late
        => \A f \in seen : f.own /\ f.trail = <<>> /\ (f.still \/ leftover)]_vars

(* After an abort the guider asks nothing of the devices or the solver until *)
(* the next session.                                                         *)
QuietAfterAbort ==
    [][aborted /\ aborted' /\ ~spoiled
        => /\ resetting' => resetting
           /\ exposing' \subseteq exposing /\ pulsing' \subseteq pulsing
           /\ detecting' \subseteq detecting]_vars

(* A session never hangs: as long as a machine runs it moves on, or is       *)
(* aborted.                                                                  *)
SessionsMoveOn == []<>Off \/ []<><<at' # at>>_vars

=============================================================================
