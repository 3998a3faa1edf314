-------------------------------- MODULE Focus --------------------------------
(***************************************************************************)
(* The autofocus of the Focus module (src/src/modules/focus): focus.cpp    *)
(* and the chart of focus.scxml that it drives, with the measurement loop  *)
(* that shares its camera and its star detection.  The zones, which are    *)
(* the same fit once per part of the image, are left out.                  *)
(*                                                                         *)
(* INDI's thread posts events (updateProperty, newBLOB) to the chart,      *)
(* which takes them one by one in the module's thread; what an entry       *)
(* handler submits goes to the end of the same queue.  Events that no      *)
(* transition of the chart waits for are left out.                         *)
(***************************************************************************)
EXTENDS Integers, Sequences, FiniteSets

CONSTANTS
    StartPos, Steps, Backlash,      \* parameters.startpos, steps, backlash
    Iterations, LoopIterations,     \* points of the sweep, frames of a point
    Modes,       \* parameters.usesharpness and aroundinitial, among AllModes
    Qualities,   \* what a frame may be measured to be: less is better
    Blank,       \* 99: what _besthfr starts from, and a frame without contrast
    Garbage,     \* what _bestpos, which nothing initialises, may hold
    Faults,      \* what else may happen, among Hitches
    MaxRuns,     \* bound: presses of autofocus and of loop
    MaxHitches   \* bound: hitches of a behaviour

Hitches == {"again",     \* autofocus or loop pressed while one of them runs
            "abort",     \* the user aborts
            "stray",     \* the focuser reports Ok although it still moves
            "foreign",   \* another module exposes with the same camera
            "blank",     \* a frame shows no star, or has no contrast
            "refused"}   \* a device is missing or refuses, a frame is lost

(* Measured by its stars or by its sharpness, from startpos or around where   *)
(* the focuser is.                                                           *)
AllModes == [sharp: BOOLEAN, around: BOOLEAN]

ASSUME FocusAssumption ==
    /\ StartPos \in Int /\ Steps \in Nat \ {0} /\ Backlash \in Nat
    /\ Iterations \in Nat \ {0} /\ LoopIterations \in Nat \ {0}
    /\ Modes \subseteq AllModes /\ Modes # {}
    /\ Blank \in Nat /\ Qualities \subseteq 0 .. (Blank - 1) /\ Qualities # {}
    /\ Garbage \subseteq Int /\ Garbage # {}
    /\ Faults \subseteq Hitches
    /\ MaxRuns \in Nat /\ MaxHitches \in Nat

VARIABLES
    running,        \* pMachine->isRunning()
    leaf, queue,    \* the chart's active leaf, its event queue
    startpos, mode,
    iteration, loopIteration,
    loopHFR,        \* _loopHFRavg times its frames
    hfds,           \* _hfdvector; _posvector is Place(0), Place(1), ...
    besthfr, bestpos, bestposfit,
    loopRunning,
    at, goal, moving,   \* the focuser
    exposing,       \* the exposure of the camera: {} or one
    resetting,      \* its frame reset is asked for
    image,          \* _image: {} or one
    solving,        \* what the star detection is at: {} or one
    listeners,      \* the slots connected to successSEP
    hfr,            \* _solver.HFRavg or _sharpnessQuality
    said,           \* the event announced by the last step, or none
    misplaced,      \* points measured elsewhere or on the move
    frames,         \* frames that went into the sweep
    waiting,        \* a start of autofocus not answered yet
    aborted,        \* the last command was an abort
    spoiled,        \* the run met what it cannot tell from its own work
    lost,           \* a device left it without an answer
    runs, hitches

machine == <<running, leaf, queue>>
sweep == <<iteration, loopIteration, loopHFR, hfds, besthfr, bestpos, bestposfit>>
setting == <<startpos, mode>>
focuser == <<at, goal, moving>>
camera == <<exposing, resetting>>
solver == <<solving, listeners, hfr>>
ghost == <<misplaced, frames, waiting, aborted, spoiled, lost, runs, hitches>>
vars == <<machine, sweep, setting, loopRunning, focuser, camera, image, solver,
          said, ghost>>

Frame == [own: BOOLEAN, still: BOOLEAN, at: Int]

(* focus.scxml: <<leaf, event, leaf>>; "abort" leaves every leaf for Final_1. *)
(* "start" stands for pMachine->start(), which enters the chart later on.     *)
Arrows == {
    <<"Init", "start", "RequestFrameReset">>,
    <<"RequestFrameReset", "FrameResetDone", "RequestBacklash">>,
    <<"RequestBacklash", "BacklashDone", "RequestGotoStart">>,
    <<"RequestGotoStart", "GotoStartDone", "InitLoopFrame">>,
    <<"InitLoopFrame", "InitLoopFrameDone", "RequestExposure">>,
    <<"RequestExposure", "ExposureDone", "FindStars">>,
    <<"FindStars", "FindStarsDone", "ComputeLoopFrame">>,
    <<"ComputeLoopFrame", "NextFrame", "RequestExposure">>,
    <<"ComputeLoopFrame", "LoopFrameDone", "Compute">>,
    <<"Compute", "NextLoop", "RequestGotoNext">>,
    <<"RequestGotoNext", "GotoNextDone", "InitLoopFrame">>,
    <<"Compute", "LoopFinished", "RequestBacklashBest">>,
    <<"RequestBacklashBest", "BacklashBestDone", "RequestGotoBest">>,
    <<"RequestGotoBest", "GotoBestDone", "RequestExposureBest">>,
    <<"RequestExposureBest", "ExposureBestDone", "FindStarsFinal">>,
    <<"FindStarsFinal", "FindStarsDone", "ComputeResult">>,
    <<"ComputeResult", "ComputeResultDone", "Final_1">>}

Leaves == {a[1] : a \in Arrows} \cup {"Final_1"}
Events == {a[2] : a \in Arrows} \cup {"abort"}

-----------------------------------------------------------------------------
(* The fit: polynomialfit() over the points, by orthogonal polynomials.     *)
(* With n points y, u = -(n-1), -(n-3) .. n-1 and v = n u^2 - sum u^2, the   *)
(* parabola is mean + (UY / UU) u + (VY / VV) v.                            *)

Total(f, n) == LET s[i \in 0 .. n] == IF i = 0 THEN 0 ELSE s[i - 1] + f[i]
               IN  s[n]

U(n) == [i \in 1 .. n |-> 2 * i - n - 1]
Dot(f, g, n) == Total([i \in 1 .. n |-> f[i] * g[i]], n)
V(n) == [i \in 1 .. n |-> n * U(n)[i] * U(n)[i] - Dot(U(n), U(n), n)]

Flat(y) == \A i, j \in DOMAIN y : y[i] = y[j]

(* R2 >= 0.95: the share of the variance that the parabola explains *)
FitIsGood(y) ==
    LET n == Len(y)
        one == [i \in 1 .. n |-> 1]
        UY == Dot(U(n), y, n)   UU == Dot(U(n), U(n), n)
        VY == Dot(V(n), y, n)   VV == Dot(V(n), V(n), n)
        TSS == n * Dot(y, y, n) - Dot(one, y, n) * Dot(one, y, n)
    IN  20 * n * (UY * UY * VV + VY * VY * UU) >= 19 * TSS * UU * VV

(* The vertex, in half steps from the middle of the sweep, as a fraction of *)
(* positive denominator; a line has none.                                   *)
Vertex(y) ==
    LET n == Len(y)
        UY == Dot(U(n), y, n)   UU == Dot(U(n), U(n), n)
        VY == Dot(V(n), y, n)   VV == Dot(V(n), V(n), n)
        sign == IF VY < 0 THEN -1 ELSE 1
    IN  [num |-> -sign * UY * VV, den |-> sign * 2 * n * UU * VY]

HasVertex(y) == Dot(V(Len(y)), y, Len(y)) # 0

Place(i) == startpos + i * Steps

InRange(y) ==
    /\ HasVertex(y)
    /\ LET v == Vertex(y)
           n == Len(y)
       IN  v.num \in -(n - 1) * v.den .. (n - 1) * v.den

(* int(_bestposfit), towards zero *)
Truncated(num, den) == IF num >= 0 THEN num \div den ELSE -((-num) \div den)
VertexPos(y) ==
    LET v == Vertex(y)
    IN  Truncated(startpos * 2 * v.den
                      + Steps * ((Len(y) - 1) * v.den + v.num), 2 * v.den)

(* SMRequestGotoBest: the fit when it is reliable, the measured minimum      *)
(* otherwise.  Of a flat curve R2 is 1 and the vertex is rounding noise, or  *)
(* not a number: it may be taken for anything.                               *)
BestPositions(y) ==
    IF Len(y) > 2 /\ Flat(y)
    THEN {bestpos} \cup Garbage \cup Place(0) .. Place(Len(y) - 1)
    ELSE IF Len(y) > 2 /\ FitIsGood(y) /\ InRange(y) THEN {VertexPos(y)}
    ELSE {bestpos}

-----------------------------------------------------------------------------
(* Commands to the devices *)

Hitch(h) == h \in Faults /\ hitches < MaxHitches /\ hitches' = hitches + 1
NoHitch == UNCHANGED hitches

Unsteady(S) == {[x EXCEPT !.still = FALSE] : x \in S}
NotOwn(S) == {[x EXCEPT !.own = FALSE] : x \in S}
Foreign(S) == \E x \in S : ~x.own

(* Mutant: the other order, so that one answer ends both last moves. *)
MovedBestFirst == <<"BacklashBestDone", "GotoBestDone", "BacklashDone",
                    "GotoNextDone", "GotoStartDone">>

(* updateProperty() answers every Ok of ABS_FOCUS_POSITION with these, in    *)
(* this order.                                                               *)
Moved == <<"GotoBestDone", "BacklashBestDone", "BacklashDone",
           "GotoNextDone", "GotoStartDone">>

(* Answers of the focuser still in the queue, beside the one being handled. *)
Unread(rest) ==
    Cardinality({i \in DOMAIN rest : rest[i] = "GotoStartDone"})
        > IF leaf \in {"RequestBacklash", "RequestBacklashBest"} THEN 1 ELSE 0

(* sendModNewNumber() of the position; when it fails the handler submits     *)
(* "abort".  An unread answer will be taken for this move's.                 *)
Move(p, rest) ==
    /\ UNCHANGED at
    /\ \/ /\ goal' = p /\ moving' = TRUE
          /\ queue' = rest
          /\ exposing' = Unsteady(exposing)
          /\ spoiled' = (spoiled \/ Unread(rest))
          /\ UNCHANGED <<lost, hitches>>
       \/ /\ Hitch("refused")
          /\ queue' = Append(rest, "abort")
          /\ lost' = TRUE
          /\ UNCHANGED <<goal, moving, exposing, spoiled>>

(* requestCapture(): a camera busy with another exposure goes on with it. *)
Capture(busy, own) ==
    exposing' = IF busy # {} THEN busy
                ELSE {[own |-> own, still |-> ~moving, at |-> at]}

(* Solver::FindStars(): whether a detection still at work goes on with its   *)
(* own image or takes this one is the library's affair.                      *)
Detect(slot) ==
    /\ listeners' = listeners \cup {slot}
    /\ \/ solving' = image'
       \/ solving # {} /\ solving' = solving
    /\ UNCHANGED hfr

Measures == {[hfr |-> q, hitch |-> FALSE] : q \in Qualities}
            \cup {[hfr |-> Blank, hitch |-> TRUE]}

-----------------------------------------------------------------------------
(* The entry handlers.  rest is the queue without the event that led there. *)

(* Mutant: a camera that cannot reset its frame is waited for. *)
FrameResetAwaited(rest) ==
    /\ queue' = rest
    /\ \/ resetting' = TRUE /\ NoHitch
       \/ Hitch("refused") /\ UNCHANGED resetting
    /\ UNCHANGED <<sweep, focuser, exposing, solver, misplaced, frames, waiting,
                   spoiled, lost>>

(* Without the camera FrameResetDone is submitted at once. *)
SMRequestFrameReset(rest) ==
    /\ \/ queue' = rest /\ resetting' = TRUE /\ NoHitch
       \/ /\ Hitch("refused")
          /\ queue' = Append(rest, "FrameResetDone") /\ UNCHANGED resetting
    /\ UNCHANGED <<sweep, focuser, exposing, solver, misplaced, frames, waiting,
                   spoiled, lost>>

Moves(p, rest) ==
    /\ Move(p, rest)
    /\ UNCHANGED <<sweep, resetting, solver, misplaced, frames, waiting>>

(* Mutant: the frames of the last point still count. *)
InitLoopFrameKeepsCount(rest) ==
    /\ loopHFR' = 0
    /\ queue' = Append(rest, "InitLoopFrameDone")
    /\ UNCHANGED <<loopIteration, iteration, hfds, besthfr, bestpos, bestposfit,
                   focuser, camera, solver, misplaced, frames, waiting, spoiled,
                   lost, hitches>>

SMInitLoopFrame(rest) ==
    /\ loopIteration' = 0
    /\ loopHFR' = 0
    /\ queue' = Append(rest, "InitLoopFrameDone")
    /\ UNCHANGED <<iteration, hfds, besthfr, bestpos, bestposfit, focuser, camera,
                   solver, misplaced, frames, waiting, spoiled, lost, hitches>>

(* A refused exposure: SMRequestExposure() emits abort(), which nothing is   *)
(* connected to; SMRequestExposureBest() submits the event, also when it     *)
(* cannot read the position of the focuser once the exposure has begun.      *)
SMRequestExposure(final, rest) ==
    /\ \/ /\ Capture(exposing, TRUE)
          /\ queue' = rest
          /\ UNCHANGED <<lost, hitches>>
       \/ /\ Hitch("refused")
          /\ queue' = IF final THEN Append(rest, "abort") ELSE rest
          /\ lost' = TRUE
          /\ UNCHANGED exposing \/ (final /\ Capture(exposing, TRUE))
    /\ UNCHANGED <<sweep, focuser, resetting, solver, misplaced, frames, waiting,
                   spoiled>>

(* Sharpness is computed here; stars are found by another thread. *)
SMFindStars(rest) ==
    /\ spoiled' = (spoiled \/ Foreign(image))
    /\ IF mode.sharp
       THEN /\ \E m \in Measures :
                  /\ hfr' = m.hfr
                  /\ IF m.hitch THEN Hitch("blank") ELSE NoHitch
            /\ queue' = Append(rest, "FindStarsDone")
            /\ UNCHANGED <<solving, listeners>>
       ELSE Detect("run") /\ queue' = rest /\ NoHitch
    /\ UNCHANGED <<sweep, focuser, camera, misplaced, frames, waiting, lost>>

InPlace(S, p) == \A x \in S : x.own /\ x.still /\ x.at = p

SMComputeLoopFrame(rest) ==
    /\ loopIteration' = loopIteration + 1
    /\ loopHFR' = loopHFR + hfr
    /\ queue' = Append(rest, IF loopIteration' < LoopIterations
                             THEN "NextFrame" ELSE "LoopFrameDone")
    /\ misplaced' = IF InPlace(image, Place(iteration)) THEN misplaced
                    ELSE misplaced \cup {iteration}
    /\ frames' = frames + 1
    /\ UNCHANGED <<iteration, hfds, besthfr, bestpos, bestposfit, focuser, camera,
                   solver, waiting, spoiled, lost, hitches>>

GoesOn == iteration + 1 < Iterations

SMCompute(rest) ==
    /\ hfds' = Append(hfds, loopHFR)
    /\ IF loopHFR < besthfr
       THEN besthfr' = loopHFR /\ bestpos' = Place(iteration)
       ELSE UNCHANGED <<besthfr, bestpos>>
    /\ IF GoesOn
       THEN iteration' = iteration + 1 /\ queue' = Append(rest, "NextLoop")
       ELSE UNCHANGED iteration /\ queue' = Append(rest, "LoopFinished")
    /\ UNCHANGED <<loopIteration, loopHFR, bestposfit, focuser, camera, solver,
                   misplaced, frames, waiting, spoiled, lost, hitches>>

SMRequestGotoBest(rest) ==
    /\ \E p \in BestPositions(hfds) : bestposfit' = p /\ Move(p, rest)
    /\ UNCHANGED <<iteration, loopIteration, loopHFR, hfds, besthfr, bestpos,
                   resetting, solver, misplaced, frames, waiting>>

SMComputeResult(rest) ==
    /\ queue' = Append(rest, "ComputeResultDone")
    /\ UNCHANGED <<sweep, focuser, camera, solver, misplaced, frames, waiting,
                   spoiled, lost, hitches>>

(* Whatever is left in the queue of a stopped chart is not taken. *)
Stops ==
    /\ running' = FALSE
    /\ queue' = <<>>
    /\ UNCHANGED <<sweep, focuser, camera, solver, misplaced, frames, spoiled>>

Enter(l, rest) ==
    /\ leaf' = l
    /\ \/ /\ l = "Final_1"               \* SMFocusDone, SMAbort
          /\ Stops
          /\ waiting' = FALSE /\ said' = "focusdone"
          /\ UNCHANGED <<lost, hitches>>
       \/ /\ l # "Final_1"
          /\ \/ l = "RequestFrameReset" /\ SMRequestFrameReset(rest)
             \/ l = "RequestBacklash" /\ Moves(startpos - Backlash, rest)
             \/ l = "RequestGotoStart" /\ Moves(startpos, rest)
             \/ l = "InitLoopFrame" /\ SMInitLoopFrame(rest)
             \/ l = "RequestExposure" /\ SMRequestExposure(FALSE, rest)
             \/ l \in {"FindStars", "FindStarsFinal"} /\ SMFindStars(rest)
             \/ l = "ComputeLoopFrame" /\ SMComputeLoopFrame(rest)
             \/ l = "Compute" /\ SMCompute(rest)
             \/ l = "RequestGotoNext" /\ Moves(Place(iteration), rest)
             \/ l = "RequestBacklashBest" /\ Moves(bestpos - Backlash, rest)
             \/ l = "RequestGotoBest" /\ SMRequestGotoBest(rest)
             \/ l = "RequestExposureBest" /\ SMRequestExposure(TRUE, rest)
             \/ l = "ComputeResult" /\ SMComputeResult(rest)
          /\ said' = "none"
          /\ UNCHANGED running

Taken(e) == e = "abort" \/ \E a \in Arrows : a[1] = leaf /\ a[2] = e

(* The chart takes the next event of its queue that it waits for; those      *)
(* before it, which no transition of this leaf takes, are dropped.           *)
Process ==
    /\ running /\ queue # <<>>
    /\ UNCHANGED <<setting, loopRunning, image, aborted, runs>>
    /\ \/ \E i \in DOMAIN queue :
             LET e == queue[i]
                 rest == SubSeq(queue, i + 1, Len(queue))
             IN  /\ Taken(e) /\ \A j \in 1 .. (i - 1) : ~Taken(queue[j])
                 /\ \/ \E a \in Arrows : a[1] = leaf /\ a[2] = e /\ Enter(a[3], rest)
                    \/ /\ e = "abort" /\ leaf' = "Final_1" /\ Stops
                       /\ said' = "none" /\ UNCHANGED <<waiting, lost, hitches>>
       \/ /\ \A i \in DOMAIN queue : ~Taken(queue[i])
          /\ queue' = <<>> /\ said' = "none"
          /\ UNCHANGED <<running, leaf, sweep, focuser, camera, solver, misplaced,
                         frames, waiting, spoiled, lost, hitches>>

-----------------------------------------------------------------------------
(* Commands *)

Init ==
    /\ running = FALSE /\ leaf = "Final_1" /\ queue = <<>>
    /\ startpos = StartPos /\ mode \in Modes
    /\ iteration = 0 /\ loopIteration = 0 /\ loopHFR = 0 /\ hfds = <<>>
    /\ besthfr = Blank * LoopIterations /\ bestpos \in Garbage /\ bestposfit = 0
    /\ loopRunning = FALSE
    /\ at = StartPos /\ goal = StartPos /\ moving = FALSE
    /\ exposing = {} /\ resetting = FALSE /\ image = {}
    /\ solving = {} /\ listeners = {} /\ hfr = Blank
    /\ said = "none" /\ misplaced = {} /\ frames = 0
    /\ waiting = FALSE /\ aborted = FALSE /\ spoiled = FALSE /\ lost = FALSE
    /\ runs = 0 /\ hitches = 0

ResetsButBest ==                           \* mutant: _besthfr is not reset
    /\ iteration' = 0
    /\ hfds' = <<>>
    /\ bestposfit' = 0
    /\ UNCHANGED <<besthfr, loopIteration, loopHFR, bestpos>>

(* SV actions.autofocus: startCoarse(), the members it sets.                *)
Resets ==
    /\ iteration' = 0
    /\ hfds' = <<>>
    /\ besthfr' = Blank * LoopIterations
    /\ bestposfit' = 0
    /\ UNCHANGED <<loopIteration, loopHFR, bestpos>>

(* A new chart starts, the old one is deleted whatever it was at.  When the  *)
(* position cannot be read the start ends there: "abort" goes to the old     *)
(* chart, parameters stay locked and nothing is announced.                   *)
Autofocus ==
    /\ runs < MaxRuns
    /\ \/ /\ IF running \/ loopRunning THEN Hitch("again") ELSE NoHitch
          /\ Resets
          /\ startpos' = IF mode.around THEN at - (Steps * Iterations) \div 2
                         ELSE StartPos
          /\ running' = TRUE /\ leaf' = "Init" /\ queue' = <<"start">>
          /\ exposing' = NotOwn(exposing) /\ image' = NotOwn(image)
          /\ solving' = NotOwn(solving)
          /\ said' = "startfocus"
          /\ misplaced' = {} /\ frames' = 0 /\ waiting' = TRUE /\ lost' = FALSE
          /\ spoiled' = FALSE
       \/ /\ mode.around /\ Hitch("refused")
          /\ queue' = IF running THEN Append(queue, "abort") ELSE queue
          /\ said' = "none"
          /\ Resets
          /\ lost' = TRUE
          /\ UNCHANGED <<running, leaf, startpos, exposing, image, solving,
                         misplaced, frames, waiting>>
          /\ spoiled' = running
    /\ aborted' = FALSE
    /\ runs' = runs + 1
    /\ UNCHANGED <<mode, loopRunning, focuser, resetting, listeners, hfr>>

(* requestLoopExposure() *)
LoopExposure(busy) ==
    \/ Capture(busy, FALSE) /\ NoHitch /\ loopRunning' = TRUE
    \/ Hitch("refused") /\ loopRunning' = FALSE /\ exposing' = busy

(* SV actions.loop: startLoop() *)
Loop ==
    /\ runs < MaxRuns
    /\ \/ ~running /\ ~loopRunning /\ LoopExposure(exposing)
       \/ /\ running \/ loopRunning
          /\ Hitch("again") /\ Capture(exposing, FALSE) /\ loopRunning' = TRUE
    /\ aborted' = FALSE
    /\ said' = "startloop"
    /\ runs' = runs + 1
    /\ UNCHANGED <<machine, sweep, setting, focuser, resetting, image, solver,
                   misplaced, frames, waiting, spoiled, lost>>

KeepsLoop == loopRunning' = loopRunning       \* mutant: the loop goes on
StopsLoop == loopRunning' = FALSE

(* SV actions.abortfocus: "abort" is submitted, but the chart is stopped     *)
(* before it takes it; no state is announced.                                *)
Abort ==
    /\ Hitch("abort")
    /\ StopsLoop
    /\ running' = FALSE /\ queue' = <<>>
    /\ waiting' = FALSE /\ aborted' = TRUE
    /\ said' = "none"
    /\ UNCHANGED <<leaf, sweep, setting, focuser, camera, image, solver,
                   misplaced, frames, spoiled, lost, runs>>

-----------------------------------------------------------------------------
(* INDI's thread: updateProperty() and newBLOB() *)

Post(es) == queue' = IF running THEN queue \o es ELSE queue

MoveEnds ==
    /\ moving
    /\ moving' = FALSE /\ at' = goal
    /\ Post(Moved)
    /\ said' = "none"
    /\ UNCHANGED <<running, leaf, sweep, setting, loopRunning, goal, camera,
                   image, solver, ghost>>

(* The driver says its position again; it may not be there yet. *)
StrayOk ==
    /\ running
    /\ Hitch("stray")
    /\ Post(Moved)
    /\ spoiled' = (spoiled \/ moving)
    /\ said' = "none"
    /\ UNCHANGED <<running, leaf, sweep, setting, loopRunning, focuser, camera,
                   image, solver, misplaced, frames, waiting, aborted, lost, runs>>

FrameResetDone ==
    /\ resetting
    /\ resetting' = FALSE
    /\ Post(<<"FrameResetDone">>)
    /\ said' = "none"
    /\ UNCHANGED <<running, leaf, sweep, setting, loopRunning, focuser, exposing,
                   image, solver, ghost>>

(* measureLoopFrame(): stars are looked for by another thread, sharpness is  *)
(* computed here and the next frame asked for.                               *)
MeasureLoopFrame(left) ==
    IF mode.sharp
    THEN LoopExposure(left) /\ UNCHANGED solver
    ELSE Detect("loop") /\ exposing' = left /\ UNCHANGED <<loopRunning, hitches>>

(* A frame of the camera is taken whoever asked for it; left is the exposure *)
(* that goes on.                                                             *)
NewBLOB(x, left) ==
    \/ /\ running
       /\ image' = {x}
       /\ Post(<<"ExposureDone", "ExposureBestDone">>)
       /\ spoiled' = (spoiled \/ ~x.own)
       /\ exposing' = left
       /\ UNCHANGED <<loopRunning, solver, hitches>>
    \/ /\ ~running /\ loopRunning
       /\ image' = {x}
       /\ MeasureLoopFrame(left)
       /\ UNCHANGED <<queue, spoiled>>
    \/ /\ ~running /\ ~loopRunning
       /\ exposing' = left
       /\ UNCHANGED <<queue, image, loopRunning, solver, spoiled, hitches>>

ExposureEnds ==
    /\ \E x \in exposing : NewBLOB(x, {})
    /\ said' = "none"
    /\ UNCHANGED <<running, leaf, sweep, setting, focuser, resetting, misplaced,
                   frames, waiting, aborted, lost, runs>>

(* The frame of an exposure that another module asked for. *)
ForeignFrame ==
    /\ running
    /\ Hitch("foreign")
    /\ image' = {[own |-> FALSE, still |-> ~moving, at |-> at]}
    /\ Post(<<"ExposureDone", "ExposureBestDone">>)
    /\ spoiled' = TRUE
    /\ said' = "none"
    /\ UNCHANGED <<running, leaf, sweep, setting, loopRunning, focuser, camera,
                   solver, misplaced, frames, waiting, aborted, lost, runs>>

(* The camera goes on Alert: the chart has no transition for "cameraAlert". *)
ExposureIsLost ==
    /\ exposing # {}
    /\ Hitch("refused")
    /\ exposing' = {}
    /\ lost' = TRUE
    /\ said' = "none"
    /\ UNCHANGED <<machine, sweep, setting, loopRunning, focuser, resetting, image,
                   solver, misplaced, frames, waiting, aborted, spoiled, runs>>

-----------------------------------------------------------------------------
(* successSEP: OnSucessSEP() and OnLoopSucessSEP(), whichever is connected,  *)
(* from whatever run or loop.                                                *)
ForRun == "run" \in listeners
ForLoop == "loop" \in listeners /\ loopRunning

StarsFound ==
    /\ IF ForLoop THEN LoopExposure(exposing)
       ELSE UNCHANGED <<exposing, loopRunning, hitches>>
    /\ hfr' \in Qualities
    /\ said' = "none"
    /\ IF ForRun THEN Post(<<"FindStarsDone">>) ELSE UNCHANGED queue
    /\ UNCHANGED waiting

NoStars ==
    /\ Hitch("blank")
    /\ IF ForLoop THEN Capture(exposing, FALSE) ELSE UNCHANGED exposing
    /\ UNCHANGED loopRunning
    /\ hfr' = Blank
    /\ IF ForRun
       THEN Post(<<"abort">>) /\ said' = "nostars" /\ waiting' = FALSE
       ELSE said' = "none" /\ UNCHANGED <<queue, waiting>>

SuccessSEP ==
    /\ solving # {}
    /\ solving' = {} /\ listeners' = {}
    /\ spoiled' = (spoiled \/ Foreign(solving))
    /\ StarsFound \/ NoStars
    /\ UNCHANGED <<running, leaf, sweep, setting, focuser, resetting, image,
                   misplaced, frames, aborted, lost, runs>>

Commands == Autofocus \/ Loop \/ Abort
Devices == MoveEnds \/ StrayOk \/ FrameResetDone \/ ExposureEnds \/ ForeignFrame
               \/ ExposureIsLost

Next == Commands \/ Devices \/ SuccessSEP \/ Process

Spec == Init /\ [][Next]_vars

(* The event loop runs, the devices and the star detection answer. *)
FairSpec ==
    /\ Spec
    /\ WF_vars(Process) /\ WF_vars(SuccessSEP)
    /\ WF_vars(MoveEnds) /\ WF_vars(FrameResetDone)
    /\ WF_vars(ExposureEnds \/ ExposureIsLost)

-----------------------------------------------------------------------------
Final == {"RequestBacklashBest", "RequestGotoBest", "RequestExposureBest",
          "FindStarsFinal", "ComputeResult"}
Measured == running /\ leaf \in Final

(* The sweep that the best position is chosen from is whole: every point has *)
(* its frames, each exposed by the run itself with the focuser at rest where *)
(* the point is recorded (the first point excepted, see MeasuresInPlace),    *)
(* unless the run met what it cannot tell from its own: an answer older than *)
(* its move, somebody else's frame, an earlier run's stars.                  *)
SweepIsWhole ==
    Measured /\ ~spoiled =>
        /\ Len(hfds) = Iterations
        /\ frames = Iterations * LoopIterations
        /\ misplaced \subseteq {0}

(* Where the focuser ends is chosen from this run's sweep: _bestpos (:603),  *)
(* which the play is taken up for and which a bad fit falls back on, is the  *)
(* first least of its points, and the fit (:674) does not leave the sweep.   *)
(* No frame better than 99 leaves _bestpos as it was, and a flat curve's fit *)
(* is rounding noise.                                                        *)
BestIsOfSweep ==
    Measured /\ ~Flat(hfds) =>
        /\ \E i \in DOMAIN hfds :
              /\ bestpos = Place(i - 1)
              /\ \A j \in DOMAIN hfds : hfds[i] <= hfds[j] /\ (j < i => hfds[i] < hfds[j])
        /\ leaf \in Final \ {"RequestBacklashBest"} =>
              bestposfit \in Place(0) .. Place(Iterations - 1)

(* "focusdone" (:1190) is what the sequencer goes on from: the focuser is at *)
(* rest at the position retained, and the frame whose quality is announced   *)
(* was exposed there, with the same exemptions.                              *)
DoneIsFocused ==
    said = "focusdone" /\ ~spoiled =>
        /\ at = bestposfit /\ ~moving
        /\ image # {} /\ InPlace(image, bestposfit)

(* The focuser's documentation (focus/_index.en.md:73-77): it moves to       *)
(* start - backlash, advances to start, then acquires frames.                *)
MeasuresInPlace == ~spoiled => misplaced = {}

(* An abort (:91) is the last thing the devices hear: neither the chart, nor *)
(* the loop, nor a star detection under way moves the focuser or exposes     *)
(* after it, until the next command.                                         *)
QuietAfterAbort ==
    [][aborted /\ aborted' => goal' = goal /\ exposing' \subseteq exposing]_vars

(* The sequencer waits for the answer: a run that is not aborted announces   *)
(* "focusdone" or "nostars", unless a device left it without an answer.      *)
RunIsAnswered == waiting ~> ~waiting \/ lost

=============================================================================
