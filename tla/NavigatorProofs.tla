--------------------------- MODULE NavigatorProofs ---------------------------
(***************************************************************************)
(* Proofs about the goto of the Navigator, for every size of the circle,   *)
(* every tolerance and every number of gotos and hitches.                  *)
(***************************************************************************)
EXTENDS Navigator, TLAPS

-----------------------------------------------------------------------------
(* Lemmas about the circle *)

LEMMA Circle ==
    Turn = 2 * Half /\ Half \in Nat /\ Half > 0 /\ Positions = 0 .. Turn - 1
    /\ Tolerance \in Nat /\ Tolerance < Half /\ Slop \in Nat /\ Slop <= Tolerance
  BY NavigatorAssumption DEF Turn, Positions

LEMMA SkyIsPosition ==
    ASSUME NEW r \in Positions, NEW o \in Positions
    PROVE  Normal(r + o) \in Positions
  BY Circle DEF Normal

\* What checkCentering() accepts is within the tolerance of the target.
LEMMA CenteringIsNear ==
    ASSUME NEW s \in Positions, NEW t \in Positions, checkCentering(s, t)
    PROVE  \E d \in -Tolerance .. Tolerance : Normal(t + d) = s
<1>1. wrapRaHoursDelta(s - t) \in -Tolerance .. Tolerance
  BY DEF checkCentering
<1>2. Normal(t + wrapRaHoursDelta(s - t)) = s
  BY Circle DEF Normal, wrapRaHoursDelta
<1> QED
  BY <1>1, <1>2

\* The corrected goal shows the target.
LEMMA CorrectionAims ==
    ASSUME NEW r \in Positions, NEW o \in Positions, NEW t \in Positions
    PROVE  LET g == Normal(r - wrapRaHoursDelta(Normal(r + o) - t))
           IN  g \in Positions /\ Normal(g + o) = t
  BY Circle DEF Normal, wrapRaHoursDelta

\* A slew that ends near enough to its goal is centred.
LEMMA SlewCentres ==
    ASSUME NEW g \in Positions, NEW o \in Positions, NEW s \in -Slop .. Slop
    PROVE  checkCentering(Normal(Normal(g + s) + o), Normal(g + o))
  BY Circle DEF checkCentering, Normal, wrapRaHoursDelta

\* A synchronisation moves the coordinates, not the telescope.
LEMMA SyncKeepsSky ==
    ASSUME NEW r \in Positions, NEW sky \in Positions
    PROVE  Normal(sky - r) \in Positions /\ Normal(r + Normal(sky - r)) = sky
  BY Circle DEF Normal

LEMMA ObservedIsPosition ==
    ASSUME NEW p \in Positions
    PROVE  Observed(p) \in Positions
  BY Circle, NavigatorAssumption DEF Observed, Normal

LEMMA TargetIsPosition == ASSUME NEW t \in Targets PROVE t \in Positions
  BY NavigatorAssumption

-----------------------------------------------------------------------------
(* Types *)

\* An exposure that a slew blurs, and frames that belong to an earlier goto,
\* are exposures and frames still.
LEMMA FramesStayTyped ==
    ASSUME NavTypeOK
    PROVE  /\ {[e EXCEPT !.steady = FALSE] : e \in exposing} \subseteq Exposure
           /\ NotOwn(exposing) \subseteq Exposure
           /\ NotOwn(image) \subseteq Frame /\ NotOwn(solving) \subseteq Frame
<1>1. \A e \in Exposure : [e EXCEPT !.steady = FALSE] \in Exposure
                           /\ [e EXCEPT !.own = FALSE] \in Exposure
  BY DEF Exposure
<1>2. \A f \in Frame : [f EXCEPT !.own = FALSE] \in Frame
  BY DEF Frame
<1> QED
  BY <1>1, <1>2 DEF NavTypeOK, NotOwn

LEMMA HitchesStayBounded ==
    ASSUME NavTypeOK, NEW h, Hitch(h) \/ NoHitch
    PROVE  hitches' \in 0 .. MaxHitches
  BY NavigatorAssumption DEF NavTypeOK, Hitch, NoHitch

LEMMA SlewType ==
    ASSUME NavTypeOK, NEW p \in Positions, Slew(p)
    PROVE  /\ goal' \in Positions /\ moving' \in BOOLEAN /\ ok' \in {"none", "fresh", "stale"}
           /\ reading' \in Positions /\ offset' \in Positions
           /\ exposing' \subseteq Exposure /\ mWaitingSlew' \in BOOLEAN
           /\ hitches' \in 0 .. MaxHitches
  BY FramesStayTyped, NavigatorAssumption DEF Slew, Hitch, NoHitch, NavTypeOK

LEMMA CommandType ==
    ASSUME NavTypeOK, NEW t \in Targets, Goto(t) \/ Pick(t) \/ Abort
    PROVE  NavTypeOK'
<1>1. CASE Goto(t)
  <2>1. hitches' \in 0 .. MaxHitches
    BY <1>1, HitchesStayBounded DEF Goto
  <2>2. gotos' \in 0 .. MaxGotos
    BY <1>1, NavigatorAssumption DEF Goto, NavTypeOK
  <2>3. exposing' \subseteq Exposure /\ image' \subseteq Frame /\ solving' \subseteq Frame
    BY <1>1, FramesStayTyped DEF Goto
  <2>4. mCurrentIteration' \in 0 .. MaxIterations /\ shots' \in Nat
    BY <1>1, NavigatorAssumption DEF Goto
  <2>5. /\ mState' \in {"idle", "running"} /\ mTarget' \in Targets
        /\ starting' \in BOOLEAN /\ asked' \in Targets /\ spoiled' \in BOOLEAN
        /\ lost' \in BOOLEAN /\ said' \subseteq Events
    BY <1>1 DEF Goto
  <2>6. UNCHANGED <<mWaitingSlew, reading, offset, goal, moving, ok>>
    BY <1>1 DEF Goto, mount
  <2> QED
    BY <2>1, <2>2, <2>3, <2>4, <2>5, <2>6 DEF NavTypeOK
<1>2. CASE Pick(t)
  BY <1>2, NavigatorAssumption DEF Pick, NavTypeOK, mount, camera, Hitch
<1>3. CASE Abort
  BY <1>3, FramesStayTyped, NavigatorAssumption
  DEF Abort, NavTypeOK, mount, camera, Hitch
<1> QED
  BY <1>1, <1>2, <1>3

LEMMA SlewToSelectionType ==
    ASSUME NavTypeOK, SlewToSelection
    PROVE  NavTypeOK'
<1>1. CASE Slew(Observed(mTarget)) /\ said' = {"slew"} /\ UNCHANGED lost
  <2>1. Observed(mTarget) \in Positions
    BY ObservedIsPosition, TargetIsPosition DEF NavTypeOK
  <2> QED
    BY <1>1, <2>1, SlewType DEF SlewToSelection, NavTypeOK, Events
<1>2. CASE Hitch("refused") /\ Stays /\ said' = {"devicefailed"} /\ lost' = TRUE
  <2>1. hitches' \in 0 .. MaxHitches
    BY <1>2, HitchesStayBounded
  <2> QED
    BY <1>2, <2>1 DEF SlewToSelection, NavTypeOK, Events, Stays, mount
<1> QED
  BY <1>1, <1>2 DEF SlewToSelection

LEMMA DevicesType ==
    ASSUME NavTypeOK, Devices
    PROVE  NavTypeOK'
<1>1. CASE SlewEnds
  <2>1. \A s \in -Slop .. Slop : Normal(goal + s) \in Positions
    BY Circle DEF Normal, NavTypeOK
  <2> QED
    BY <1>1, <2>1 DEF SlewEnds, NavTypeOK, camera, ghost
<1>2. CASE Reports
  BY <1>2 DEF Reports, NavTypeOK, camera, ghost
<1>3. ASSUME NEW own \in BOOLEAN, NEW steady, Blob(own, steady)
      PROVE  image' \subseteq Frame /\ spoiled' \in BOOLEAN
  <2>1. Sky \in Positions
    BY SkyIsPosition DEF Sky, NavTypeOK
  <2>2. image' \subseteq Frame
    BY <1>3, <2>1 DEF Blob, Frame, NavTypeOK
  <2>3. spoiled' \in BOOLEAN
    BY <1>3, Zenon DEF Blob, NavTypeOK
  <2> QED
    BY <2>2, <2>3
<1>4. CASE ExposureEnds
  BY <1>3, <1>4 DEF ExposureEnds, NavTypeOK, Exposure, mount
<1>5. CASE ForeignFrame
  <2>2. image' \subseteq Frame /\ spoiled' \in BOOLEAN
    BY <1>3, <1>5 DEF ForeignFrame
  <2> QED
    BY <1>5, <2>2, NavigatorAssumption DEF ForeignFrame, NavTypeOK, mount, Hitch
<1>6. CASE ExposureIsLost
  BY <1>6, NavigatorAssumption DEF ExposureIsLost, NavTypeOK, mount, Hitch
<1> QED
  BY <1>1, <1>2, <1>4, <1>5, <1>6 DEF Devices

LEMMA OnUpdatePropertyType ==
    ASSUME NavTypeOK, OnUpdateProperty
    PROVE  NavTypeOK'
<1>1. CASE Waits
  <2>1. exposing' \subseteq Exposure
    <3>1. [own |-> TRUE, steady |-> ~moving] \in Exposure
      BY Zenon DEF Exposure
    <3> QED
      BY <1>1, <3>1 DEF OnUpdateProperty, Shoot, NavTypeOK
  <2>2. spoiled' \in BOOLEAN
    BY <1>1, Zenon DEF OnUpdateProperty
  <2>3. hitches' \in 0 .. MaxHitches
    BY <1>1, HitchesStayBounded DEF OnUpdateProperty, Shoot, NoHitch
  <2>0. Shoot
    BY <1>1, Zenon DEF OnUpdateProperty
  <2>4. shots' \in Nat
    <3>1. shots' = shots + 1 \/ shots' = shots
      BY <2>0, Zenon DEF Shoot
    <3>2. shots \in Nat
      BY DEF NavTypeOK
    <3> QED
      BY <3>1, <3>2
  <2>6. lost' \in BOOLEAN
    <3>1. lost' = TRUE \/ lost' = lost
      BY <2>0, Zenon DEF Shoot
    <3> QED
      BY <3>1, Zenon DEF NavTypeOK
  <2>5. /\ mWaitingSlew' = FALSE /\ ok' = "none" /\ said' = {}
        /\ UNCHANGED <<mState, mCurrentIteration, mTarget, starting, reading,
                       offset, goal, moving, image, solving, asked, gotos>>
    BY <1>1 DEF OnUpdateProperty
  <2> QED
    BY <2>1, <2>2, <2>3, <2>4, <2>5, <2>6 DEF NavTypeOK
<1>2. CASE ~Waits
  BY <1>2 DEF OnUpdateProperty, NavTypeOK
<1> QED
  BY <1>1, <1>2

LEMMA OnNewImageType ==
    ASSUME NavTypeOK, OnNewImage
    PROVE  NavTypeOK'
<1>1. spoiled' \in BOOLEAN
  BY Zenon DEF OnNewImage
<1>2. hitches' \in 0 .. MaxHitches
  BY HitchesStayBounded DEF OnNewImage, NoHitch
<1> QED
  BY <1>1, <1>2 DEF OnNewImage, NavTypeOK, mount

LEMMA SyncType ==
    ASSUME NavTypeOK, NEW p \in Positions, SyncMount(p)
    PROVE  /\ reading' \in Positions /\ offset' \in Positions /\ goal' \in Positions
           /\ moving' \in BOOLEAN /\ ok' \in {"none", "fresh", "stale"}
           /\ said' \subseteq Events /\ hitches' \in 0 .. MaxHitches
<1>1. CASE reading' = Observed(p) /\ offset' = Normal(Sky - reading')
           /\ said' = {"navigatordone", "syncrequest", "syncdone"}
           /\ UNCHANGED <<goal, moving, ok, hitches>>
  <2>1. reading' \in Positions
    BY <1>1, ObservedIsPosition
  <2>2. Sky \in Positions
    BY SkyIsPosition DEF Sky, NavTypeOK
  <2>3. offset' \in Positions
    BY <1>1, <2>1, <2>2, SyncKeepsSky
  <2> QED
    BY <1>1, <2>1, <2>3 DEF NavTypeOK, Events
<1>2. CASE UNCHANGED mount /\ said' \subseteq Events /\ hitches' \in 0 .. MaxHitches
  BY <1>2 DEF mount, NavTypeOK
<1>3. hitches' \in 0 .. MaxHitches
  BY HitchesStayBounded DEF SyncMount, NoHitch
<1> QED
  BY <1>1, <1>2, <1>3 DEF SyncMount, Events

LEMMA CorrectType ==
    ASSUME NavTypeOK, NEW p \in Positions, CorrectOffset(p)
    PROVE  /\ goal' \in Positions /\ moving' \in BOOLEAN /\ ok' \in {"none", "fresh", "stale"}
           /\ reading' \in Positions /\ offset' \in Positions
           /\ exposing' \subseteq Exposure /\ mWaitingSlew' \in BOOLEAN
           /\ hitches' \in 0 .. MaxHitches /\ said' \subseteq Events
           /\ mState' \in {"idle", "running"}
<1>1. CASE Slew(Normal(reading - wrapRaHoursDelta(p - mTarget)))
           /\ said' = {"correction"} /\ UNCHANGED mState
  <2>0. reading \in Positions /\ mTarget \in Positions
    BY TargetIsPosition DEF NavTypeOK
  <2>1. Normal(reading - wrapRaHoursDelta(p - mTarget)) \in Positions
    BY <2>0, Circle DEF Normal, wrapRaHoursDelta
  <2> QED
    BY <1>1, <2>1, SlewType DEF NavTypeOK, Events
<1>2. CASE Hitch("refused") /\ Stays /\ said' = {"correction", "devicefailed"}
           /\ mState' = "idle"
  BY <1>2, NavigatorAssumption DEF Hitch, Stays, mount, NavTypeOK, Events
<1> QED
  BY <1>1, <1>2 DEF CorrectOffset

LEMMA OnSucessSolveType ==
    ASSUME NavTypeOK, OnSucessSolve
    PROVE  NavTypeOK'
<1>0. /\ solving' = {} /\ spoiled' \in BOOLEAN
      /\ UNCHANGED <<mTarget, starting, image, asked, shots, lost, gotos>>
  BY Zenon DEF OnSucessSolve
<1>1. PICK s \in solving :
        \/ SyncMount(s.seen) /\ Ends /\ UNCHANGED <<exposing, mWaitingSlew>>
        \/ /\ said' = {"navigatorfailed"} /\ Ends
           /\ UNCHANGED <<mount, exposing, mWaitingSlew, hitches>>
        \/ /\ mCurrentIteration + 1 < MaxIterations
           /\ mCurrentIteration' = mCurrentIteration + 1
           /\ CorrectOffset(s.seen)
  BY DEF OnSucessSolve
<1>2. s.seen \in Positions
  BY DEF NavTypeOK, Frame
<1>3. CASE SyncMount(s.seen) /\ Ends /\ UNCHANGED <<exposing, mWaitingSlew>>
  BY <1>0, <1>2, <1>3, SyncType, NavigatorAssumption DEF Ends, NavTypeOK
<1>4. CASE /\ said' = {"navigatorfailed"} /\ Ends
           /\ UNCHANGED <<mount, exposing, mWaitingSlew, hitches>>
  BY <1>0, <1>4, NavigatorAssumption DEF Ends, NavTypeOK, mount, Events
<1>5. CASE /\ mCurrentIteration + 1 < MaxIterations
           /\ mCurrentIteration' = mCurrentIteration + 1
           /\ CorrectOffset(s.seen)
  BY <1>0, <1>2, <1>5, CorrectType, NavigatorAssumption DEF NavTypeOK
<1> QED
  BY <1>1, <1>3, <1>4, <1>5

LEMMA SolverFailedType ==
    ASSUME NavTypeOK, SolverFailed
    PROVE  NavTypeOK'
<1>1. spoiled' \in BOOLEAN
  BY Zenon DEF SolverFailed
<1>2. hitches' \in 0 .. MaxHitches
  BY HitchesStayBounded DEF SolverFailed
<1> QED
  BY <1>1, <1>2, NavigatorAssumption
  DEF SolverFailed, Ends, NavTypeOK, mount, camera, Events

LEMMA InitTypes == Init => NavTypeOK
<1> SUFFICES ASSUME Init PROVE NavTypeOK
  OBVIOUS
<1>1. reading \in Positions /\ goal \in Positions /\ offset \in Positions
  BY NavigatorAssumption, Circle DEF Init
<1>2. /\ mCurrentIteration \in 0 .. MaxIterations /\ shots \in Nat
      /\ gotos \in 0 .. MaxGotos /\ hitches \in 0 .. MaxHitches
  BY NavigatorAssumption DEF Init
<1> QED
  BY <1>1, <1>2 DEF Init, NavTypeOK

LEMMA TypesKept ==
    ASSUME NavTypeOK, [Next]_vars
    PROVE  NavTypeOK'
<1>1. CASE Commands
  BY <1>1, CommandType, NavigatorAssumption DEF Commands
<1>2. CASE Module
  BY <1>2, SlewToSelectionType, OnUpdatePropertyType, OnNewImageType,
     OnSucessSolveType, SolverFailedType DEF Module
<1>3. CASE Devices
  BY <1>3, DevicesType
<1>4. CASE UNCHANGED vars
  BY <1>4 DEF vars, module, mount, camera, ghost, NavTypeOK
<1> QED
  BY <1>1, <1>2, <1>3, <1>4 DEF Next

\* The types of the Navigator's members, and of the mount's coordinates: a
\* correction or a synchronisation through 0h stays on the circle.
THEOREM NavigatorTypes == Spec => []NavTypeOK
  BY InitTypes, TypesKept, PTL DEF Spec

-----------------------------------------------------------------------------
(* The inductive invariant, of a goto that is not spoiled *)

Frames == image \cup solving

\* The driver reports Ok at rest only, and only a running goto is starting.
Mount ==
    /\ ok = "fresh" => ~moving
    /\ starting => mState = "running" /\ mCurrentIteration = 0

\* It aims at what it was asked for.
Aim == ~spoiled => mTarget = asked

\* What is its own was exposed at rest, and shows where the telescope still is.
Measures ==
    ~spoiled =>
        /\ \A e \in exposing : e.own =>
              e.steady /\ ~moving /\ ~starting /\ ~mWaitingSlew /\ mState = "running"
        /\ \A f \in Frames : f.own =>
              f.seen = Sky /\ ~moving /\ ~starting /\ ~mWaitingSlew /\ mState = "running"

\* It has one thing at a time of its own.
Alone ==
    ~spoiled =>
        /\ Own(image) = {} \/ Own(exposing \cup solving) = {}
        /\ Own(exposing) = {} \/ Own(solving) = {}

\* Its exposures are counted by its solutions.
Counted ==
    /\ ~spoiled => shots <= 2
    /\ mState = "running" /\ ~spoiled =>
          /\ mCurrentIteration <= 1
          /\ IF starting \/ mWaitingSlew THEN shots = mCurrentIteration
             ELSE shots <= mCurrentIteration + 1
          /\ Own(exposing \cup Frames) # {} => shots = mCurrentIteration + 1

\* A correction aims at the target.
Corrected ==
    mState = "running" /\ ~spoiled /\ mCurrentIteration > 0 =>
        IF moving THEN Normal(goal + offset) = mTarget
        ELSE checkCentering(Sky, mTarget)

Safe == Aim /\ Measures /\ Alone /\ Counted /\ Corrected
          /\ OneStage /\ DoneIsCentred /\ OneCorrection

IInv == NavTypeOK /\ Mount /\ Safe

-----------------------------------------------------------------------------
(* Lemmas about what is its own *)

LEMMA NotOwnIsNotOwn ==
    ASSUME NEW S, S \subseteq Exposure \/ S \subseteq Frame
    PROVE  \A x \in NotOwn(S) : ~x.own
<1>1. \A x \in Exposure : ~[x EXCEPT !.own = FALSE].own
  BY DEF Exposure
<1>2. \A x \in Frame : ~[x EXCEPT !.own = FALSE].own
  BY DEF Frame
<1> QED
  BY <1>1, <1>2 DEF NotOwn

\* A slew blurs an exposure and leaves it to whom it belongs.
LEMMA BlurredIsNotOwn ==
    ASSUME NavTypeOK, \A e \in exposing : ~e.own
    PROVE  \A x \in {[e EXCEPT !.steady = FALSE] : e \in exposing} : ~x.own
<1>1. \A e \in Exposure : [e EXCEPT !.steady = FALSE].own = e.own
  BY DEF Exposure
<1> QED
  BY <1>1 DEF NavTypeOK

\* Nothing is promised of a goto that is spoiled.
LEMMA SpoiledIsSafe == ASSUME spoiled' PROVE Safe'
  BY DEF Safe, Aim, Measures, Alone, Counted, Corrected, OneStage, Undisturbed,
         DoneIsCentred, OneCorrection

\* While it waits for the mount, a goto has nothing of its own.
LEMMA NothingWhileWaiting ==
    ASSUME Safe, ~spoiled, starting \/ mWaitingSlew \/ moving \/ mState # "running"
    PROVE  /\ \A e \in exposing : ~e.own
           /\ \A f \in image : ~f.own
           /\ \A f \in solving : ~f.own
  BY DEF Safe, Measures, Frames

\* A goto that does not run and says nothing is safe while nothing is its own.
LEMMA IdleIsSafe ==
    ASSUME mState' = "idle", Aim', OneCorrection', DoneIsCentred',
           \A e \in exposing' : ~e.own, \A f \in image' : ~f.own,
           \A f \in solving' : ~f.own
    PROVE  Safe'
<1>1. Measures'
  BY DEF Measures, Frames
<1>2. Alone'
  BY DEF Alone, Own
<1>3. Counted'
  BY DEF Counted, OneCorrection
<1>4. Corrected' /\ OneStage'
  BY DEF Corrected, OneStage, Undisturbed
<1> QED
  BY <1>1, <1>2, <1>3, <1>4 DEF Safe

-----------------------------------------------------------------------------
(* Each step keeps the inductive invariant *)

LEMMA MountKept ==
    ASSUME NavTypeOK, Mount, [Next]_vars
    PROVE  Mount'
<1>1. CASE Commands
  BY <1>1 DEF Commands, Goto, Pick, Abort, Mount, mount, camera
<1>2. CASE SlewToSelection
  BY <1>2 DEF SlewToSelection, Slew, Stays, Mount, mount
<1>3. CASE OnUpdateProperty
  BY <1>3 DEF OnUpdateProperty, Mount
<1>4. CASE OnNewImage \/ SolverFailed
  BY <1>4 DEF OnNewImage, SolverFailed, Mount, mount
<1>5. CASE OnSucessSolve
  <2>1. starting' = FALSE
    BY <1>5 DEF OnSucessSolve, NavTypeOK
  <2>2. ok' = "fresh" => ~moving'
    BY <1>5 DEF OnSucessSolve, SyncMount, CorrectOffset, Slew, Stays, mount, Mount
  <2> QED
    BY <2>1, <2>2 DEF Mount
<1>6. CASE Devices
  <2>1. CASE SlewEnds
    BY <2>1 DEF SlewEnds, Mount
  <2>2. CASE Reports
    BY <2>2 DEF Reports, Mount
  <2>3. CASE ExposureEnds \/ ForeignFrame \/ ExposureIsLost
    <3>1. UNCHANGED <<mState, mCurrentIteration, starting, mount>>
      BY <2>3, Zenon DEF ExposureEnds, ForeignFrame, ExposureIsLost
    <3> QED
      BY <3>1 DEF Mount, mount
  <2> QED
    BY <1>6, <2>1, <2>2, <2>3 DEF Devices
<1>7. CASE UNCHANGED vars
  BY <1>7 DEF vars, module, mount, Mount
<1> QED
  BY <1>1, <1>2, <1>3, <1>4, <1>5, <1>6, <1>7 DEF Next, Module

LEMMA GotoSafe ==
    ASSUME IInv, NEW t \in Targets, Goto(t)
    PROVE  Safe'
<1>1. \A x \in exposing' \cup image' \cup solving' : ~x.own
  BY NotOwnIsNotOwn DEF Goto, IInv, NavTypeOK
<1>2. /\ mState' = "running" /\ mCurrentIteration' = 0 /\ starting' = TRUE
      /\ mTarget' = asked' /\ shots' = 0 /\ said' = {}
  BY DEF Goto
<1>3. Aim' /\ Measures' /\ Corrected' /\ DoneIsCentred' /\ OneCorrection'
  BY <1>1, <1>2 DEF Aim, Measures, Frames, Corrected, DoneIsCentred, OneCorrection
<1>4. Alone' /\ Counted' /\ OneStage'
  BY <1>1, <1>2 DEF Alone, Counted, OneStage, Frames, Own
<1> QED
  BY <1>3, <1>4 DEF Safe

LEMMA SlewToSelectionSafe ==
    ASSUME IInv, SlewToSelection
    PROVE  Safe'
<1>1. CASE spoiled
  BY <1>1, SpoiledIsSafe DEF SlewToSelection
<1>2. CASE ~spoiled
  <2>1. /\ starting /\ mState = "running" /\ mCurrentIteration = 0
        /\ \A e \in exposing : ~e.own
        /\ \A f \in image : ~f.own
        /\ \A f \in solving : ~f.own
    BY <1>2, NothingWhileWaiting DEF SlewToSelection, IInv, Mount
  <2>2. \A x \in exposing' \cup image' \cup solving' : ~x.own
    BY <2>1, BlurredIsNotOwn DEF SlewToSelection, Slew, Stays, IInv
  <2>3. /\ UNCHANGED <<mState, mCurrentIteration, mTarget, asked, shots, spoiled>>
        /\ starting' = FALSE /\ said' \subseteq {"slew", "devicefailed"}
        /\ mWaitingSlew' = TRUE \/ lost' = TRUE
    BY DEF SlewToSelection, Slew
  <2>4. shots = 0
    BY <1>2, <2>1 DEF IInv, Safe, Counted
  <2>5. Aim' /\ Measures' /\ Corrected' /\ DoneIsCentred' /\ OneCorrection'
    BY <2>1, <2>2, <2>3, <2>4
    DEF IInv, Safe, Aim, Measures, Frames, Corrected, DoneIsCentred, OneCorrection
  <2>6. Alone' /\ Counted' /\ OneStage'
    BY <2>1, <2>2, <2>3, <2>4 DEF Alone, Counted, OneStage, Undisturbed, Frames, Own
  <2> QED
    BY <2>5, <2>6 DEF Safe
<1> QED
  BY <1>1, <1>2

LEMMA SlewEndsSafe ==
    ASSUME IInv, SlewEnds
    PROVE  Safe'
<1>1. CASE spoiled
  BY <1>1, SpoiledIsSafe DEF SlewEnds, ghost
<1>2. CASE ~spoiled
  <2>1. /\ moving /\ ~moving'
        /\ \A e \in exposing : ~e.own
        /\ \A f \in image : ~f.own
        /\ \A f \in solving : ~f.own
    BY <1>2, NothingWhileWaiting DEF SlewEnds, IInv
  <2>2. /\ UNCHANGED <<mState, mCurrentIteration, mWaitingSlew, mTarget, starting,
                       offset, goal, exposing, image, solving, asked, shots,
                       spoiled, lost>>
        /\ said' = {}
    BY DEF SlewEnds, camera, ghost
  <2>3. Corrected'
    <3> SUFFICES ASSUME mState = "running", mCurrentIteration > 0
                 PROVE  checkCentering(Sky', mTarget)
      BY <1>2, <2>1, <2>2 DEF Corrected
    <3>1. Normal(goal + offset) = mTarget
      BY <1>2, <2>1 DEF IInv, Safe, Corrected
    <3>2. PICK s \in -Slop .. Slop : reading' = Normal(goal + s)
      BY DEF SlewEnds
    <3>3. Sky' = Normal(Normal(goal + s) + offset)
      BY <2>2, <3>2 DEF Sky
    <3> QED
      BY <3>1, <3>3, SlewCentres DEF IInv, NavTypeOK
  <2>4. Aim' /\ Measures' /\ DoneIsCentred' /\ OneCorrection'
    BY <1>2, <2>1, <2>2
    DEF IInv, Safe, Aim, Measures, Frames, DoneIsCentred, OneCorrection
  <2>5. Alone' /\ Counted'
    BY <2>2 DEF IInv, Safe, Alone, Counted, Frames, Own
  <2>6. OneStage'
    BY <2>1, <2>2 DEF IInv, Safe, OneStage, Undisturbed, Own
  <2> QED
    BY <2>3, <2>4, <2>5, <2>6 DEF Safe
<1> QED
  BY <1>1, <1>2

LEMMA QuietSafe ==
    ASSUME IInv, said' = {},
           UNCHANGED <<mState, mCurrentIteration, mWaitingSlew, mTarget, starting,
                       reading, offset, goal, moving, camera, solving, asked,
                       shots, spoiled, lost>>
    PROVE  Safe'
<1>1. Aim' /\ Measures' /\ Corrected' /\ DoneIsCentred' /\ OneCorrection'
  BY DEF IInv, Safe, Aim, Measures, Frames, Corrected, DoneIsCentred, OneCorrection,
         Sky, camera
<1>2. Alone' /\ Counted' /\ OneStage'
  BY DEF IInv, Safe, Alone, Counted, OneStage, Undisturbed, Frames, Own, camera
<1> QED
  BY <1>1, <1>2 DEF Safe
LEMMA OnUpdatePropertySafe ==
    ASSUME IInv, OnUpdateProperty
    PROVE  Safe'
<1>1. CASE ~Waits
  BY <1>1, QuietSafe DEF OnUpdateProperty, camera
<1>2. CASE Waits
  <2> SUFFICES ASSUME ~spoiled' PROVE Safe'
    BY SpoiledIsSafe
  <2>1. ~spoiled /\ ~starting /\ ok = "fresh"
    BY <1>2 DEF OnUpdateProperty, SlewIsOver, IInv, NavTypeOK
  <2>2. /\ \A e \in exposing : ~e.own
        /\ \A f \in image : ~f.own
        /\ \A f \in solving : ~f.own
    BY <1>2, <2>1, NothingWhileWaiting DEF Waits, IInv
  <2>3. /\ mState = "running" /\ mWaitingSlew' = FALSE /\ said' = {} /\ Shoot
        /\ UNCHANGED <<mState, mCurrentIteration, mTarget, starting, reading,
                       offset, goal, moving, image, solving, asked>>
    BY <1>2, Zenon DEF OnUpdateProperty, Waits
  <2>4. ~moving
    BY <2>1 DEF IInv, Mount
  <2>5. /\ mCurrentIteration \in 0 .. 1 /\ shots = mCurrentIteration
    BY <1>2, <2>1 DEF IInv, NavTypeOK, Safe, Counted, Waits
  <2>6. Aim' /\ Corrected' /\ DoneIsCentred'
    BY <2>1, <2>3 DEF IInv, Safe, Aim, Corrected, DoneIsCentred, Sky
  <2>7. CASE exposing' = {[own |-> TRUE, steady |-> ~moving]} /\ shots' = shots + 1
    <3>0. \A e \in exposing' : e.own /\ e.steady
      <4>1. exposing' = {[own |-> TRUE, steady |-> TRUE]}
        <5>1. (~moving) = TRUE
          BY <2>4
        <5> QED
          BY <2>7, <5>1, Zenon
      <4> QED
        BY <4>1
    <3>1. Measures'
      BY <2>1, <2>2, <2>3, <2>4, <3>0 DEF Measures, Frames
    <3>2. Alone' /\ OneStage'
      BY <2>1, <2>2, <2>3, <2>4, <2>5, <2>7 DEF Alone, OneStage, Own
    <3>3. Counted' /\ OneCorrection'
      BY <2>1, <2>3, <2>5, <2>7 DEF Counted, OneCorrection
    <3> QED
      BY <2>6, <3>1, <3>2, <3>3 DEF Safe
  <2>8. CASE exposing # {} /\ exposing' = exposing /\ shots' = shots + 1
    <3>1. Measures'
      BY <2>2, <2>3, <2>8 DEF Measures, Frames
    <3>2. Alone' /\ OneStage'
      BY <2>1, <2>2, <2>3, <2>4, <2>5, <2>8 DEF Alone, OneStage, Own
    <3>3. Counted' /\ OneCorrection'
      BY <2>1, <2>3, <2>5, <2>8 DEF Counted, OneCorrection
    <3> QED
      BY <2>6, <3>1, <3>2, <3>3 DEF Safe
  <2>9. CASE lost' = TRUE /\ UNCHANGED <<exposing, shots>>
    <3>1. Measures'
      BY <2>2, <2>3, <2>9 DEF Measures, Frames
    <3>2. Alone' /\ OneStage'
      BY <2>2, <2>3, <2>9 DEF Alone, OneStage, Undisturbed, Own
    <3>3. Counted' /\ OneCorrection'
      BY <2>1, <2>2, <2>3, <2>5, <2>9 DEF Counted, OneCorrection, Own, Frames
    <3> QED
      BY <2>6, <3>1, <3>2, <3>3 DEF Safe
  <2> QED
    BY <2>3, <2>7, <2>8, <2>9 DEF Shoot
<1> QED
  BY <1>1, <1>2

LEMMA ExposureEndsSafe ==
    ASSUME IInv, ExposureEnds
    PROVE  Safe'
<1> SUFFICES ASSUME ~spoiled' PROVE Safe'
  BY SpoiledIsSafe
<1>1. PICK e \in exposing : Blob(e.own, e.steady)
  BY DEF ExposureEnds
<1>2. /\ exposing' = {} /\ said' = {}
      /\ UNCHANGED <<mState, mCurrentIteration, mWaitingSlew, mTarget, starting,
                     reading, offset, goal, moving, solving, asked, shots, lost>>
  BY DEF ExposureEnds, mount
<1>3. ~spoiled
  BY <1>1 DEF Blob
<1>4. Aim' /\ Corrected' /\ DoneIsCentred' /\ OneCorrection'
  BY <1>2, <1>3 DEF IInv, Safe, Aim, Corrected, DoneIsCentred, OneCorrection, Sky
<1>5. CASE mState = "idle"
  <2>1. /\ \A x \in exposing' : ~x.own
        /\ \A f \in image' : ~f.own
        /\ \A f \in solving' : ~f.own
    BY <1>1, <1>2, <1>3, <1>5, NothingWhileWaiting DEF IInv, Blob
  <2> QED
    BY <1>2, <1>4, <1>5, <2>1, IdleIsSafe
<1>6. CASE mState = "running"
  <2>1. e.own
    BY <1>1, <1>6 DEF Blob
  <2>2. e.steady /\ ~moving /\ ~starting /\ ~mWaitingSlew
    BY <1>3, <2>1 DEF IInv, Safe, Measures
  <2>3. image' = {[own |-> TRUE, seen |-> Sky]}
    BY <1>1, <1>6, <2>1, <2>2 DEF Blob, IInv, NavTypeOK, Exposure
  <2>4. \A f \in solving : ~f.own
    BY <1>3, <2>1 DEF IInv, Safe, Alone, Own
  <2>5. shots = mCurrentIteration + 1
    BY <1>3, <1>6, <2>1 DEF IInv, Safe, Counted, Own
  <2>6. Measures'
    BY <1>2, <1>6, <2>2, <2>3, <2>4 DEF Measures, Frames, Sky
  <2>7. \E f \in image' : f.own
    BY <2>3
  <2>8. Alone' /\ OneStage'
    BY <1>2, <2>2, <2>4, <2>5, <2>7 DEF Alone, OneStage, Own
  <2>9. Counted'
    BY <1>2, <1>3, <1>6, <2>2, <2>5 DEF IInv, Safe, NavTypeOK, Counted
  <2> QED
    BY <1>4, <2>6, <2>8, <2>9 DEF Safe
<1> QED
  BY <1>5, <1>6 DEF IInv, NavTypeOK

LEMMA ExposureIsLostSafe ==
    ASSUME IInv, ExposureIsLost
    PROVE  Safe'
<1>1. /\ exposing' = {} /\ lost' = TRUE /\ said' = {}
      /\ UNCHANGED <<mState, mCurrentIteration, mWaitingSlew, mTarget, starting,
                     reading, offset, goal, moving, image, solving, asked, shots,
                     spoiled>>
  BY DEF ExposureIsLost, mount
<1>2. Aim' /\ Measures' /\ Corrected' /\ DoneIsCentred' /\ OneCorrection'
  BY <1>1 DEF IInv, Safe, Aim, Measures, Frames, Corrected, DoneIsCentred,
              OneCorrection, Sky
<1>3. Alone' /\ Counted' /\ OneStage'
  BY <1>1 DEF IInv, Safe, Alone, Counted, OneStage, Undisturbed, Frames, Own
<1> QED
  BY <1>2, <1>3 DEF Safe

LEMMA ForeignFrameSafe ==
    ASSUME IInv, ForeignFrame
    PROVE  Safe'
<1>1. CASE spoiled'
  BY <1>1, SpoiledIsSafe
<1>2. CASE ~spoiled'
  BY <1>2, QuietSafe DEF ForeignFrame, Blob, mount, camera
<1> QED
  BY <1>1, <1>2

LEMMA OnNewImageSafe ==
    ASSUME IInv, OnNewImage
    PROVE  Safe'
<1> SUFFICES ASSUME ~spoiled' PROVE Safe'
  BY SpoiledIsSafe
<1>1. ~spoiled /\ ~Foreign(image)
  BY DEF OnNewImage
<1>2. PICK f \in image : f.own
  BY <1>1 DEF OnNewImage, Foreign
<1>3. /\ ~moving /\ ~starting /\ ~mWaitingSlew /\ mState = "running"
  BY <1>1, <1>2 DEF IInv, Safe, Measures, Frames
<1>4. /\ \A e \in exposing : ~e.own
      /\ \A g \in solving : ~g.own
  BY <1>1, <1>2 DEF IInv, Safe, Alone, Own
<1>5. shots = mCurrentIteration + 1
  BY <1>1, <1>2, <1>3 DEF IInv, Safe, Counted, Own, Frames
<1>6. /\ image' = {} /\ said' = {}
      /\ \/ solving' = image /\ UNCHANGED lost
         \/ lost' = TRUE /\ UNCHANGED solving
      /\ UNCHANGED <<mState, mCurrentIteration, mWaitingSlew, mTarget, starting,
                     reading, offset, goal, moving, exposing, asked, shots>>
  BY DEF OnNewImage, mount
<1>7. Aim' /\ Corrected' /\ DoneIsCentred' /\ OneCorrection'
  BY <1>1, <1>6 DEF IInv, Safe, Aim, Corrected, DoneIsCentred, OneCorrection, Sky
<1>8. Measures'
  BY <1>1, <1>6 DEF IInv, Safe, Measures, Frames, Sky
<1>9. Alone' /\ OneStage'
  BY <1>2, <1>3, <1>4, <1>5, <1>6 DEF Alone, OneStage, Undisturbed, Own
<1>10. Counted'
  BY <1>1, <1>3, <1>5, <1>6 DEF IInv, Safe, Counted
<1> QED
  BY <1>7, <1>8, <1>9, <1>10 DEF Safe

LEMMA SolverFailedSafe ==
    ASSUME IInv, SolverFailed
    PROVE  Safe'
<1> SUFFICES ASSUME ~spoiled' PROVE Safe'
  BY SpoiledIsSafe
<1>1. ~spoiled /\ ~Foreign(solving)
  BY DEF SolverFailed
<1>2. PICK f \in solving : f.own
  BY <1>1 DEF SolverFailed, Foreign
<1>3. /\ \A e \in exposing : ~e.own
      /\ \A g \in image : ~g.own
  BY <1>1, <1>2 DEF IInv, Safe, Alone, Own
<1>4. /\ mState' = "idle" /\ solving' = {} /\ said' = {"solverfailed"}
      /\ UNCHANGED <<mTarget, exposing, image, asked, shots>>
  BY DEF SolverFailed, Ends, camera
<1>5. Aim' /\ DoneIsCentred' /\ OneCorrection'
  BY <1>1, <1>4 DEF IInv, Safe, Aim, DoneIsCentred, OneCorrection
<1> QED
  BY <1>3, <1>4, <1>5, IdleIsSafe

LEMMA OnSucessSolveSafe ==
    ASSUME IInv, OnSucessSolve
    PROVE  Safe'
<1> SUFFICES ASSUME ~spoiled' PROVE Safe'
  BY SpoiledIsSafe
<1>1. ~spoiled /\ ~Foreign(solving)
  BY DEF OnSucessSolve
<1>2. PICK s \in solving :
        \/ /\ checkCentering(s.seen, mTarget)
           /\ SyncMount(s.seen)
           /\ Ends
           /\ UNCHANGED <<exposing, mWaitingSlew>>
        \/ /\ ~checkCentering(s.seen, mTarget)
           /\ mCurrentIteration + 1 >= MaxIterations
           /\ said' = {"navigatorfailed"}
           /\ Ends
           /\ UNCHANGED <<mount, exposing, mWaitingSlew>>
        \/ /\ ~checkCentering(s.seen, mTarget)
           /\ mCurrentIteration' = mCurrentIteration + 1
           /\ CorrectOffset(s.seen)
  BY DEF OnSucessSolve
<1>3. s.own
  BY <1>1 DEF Foreign
<1>4. /\ s.seen = Sky /\ ~moving /\ ~starting /\ ~mWaitingSlew /\ mState = "running"
  BY <1>1, <1>3 DEF IInv, Safe, Measures, Frames
<1>5. /\ \A e \in exposing : ~e.own
      /\ \A g \in image : ~g.own
  BY <1>1, <1>3 DEF IInv, Safe, Alone, Own
<1>6. shots = mCurrentIteration + 1 /\ mCurrentIteration \in 0 .. 1
  BY <1>1, <1>3, <1>4 DEF IInv, NavTypeOK, Safe, Counted, Own, Frames
<1>7. solving' = {} /\ UNCHANGED <<mTarget, starting, image, asked, shots, lost>>
  BY DEF OnSucessSolve
<1>8. mTarget = asked
  BY <1>1 DEF IInv, Safe, Aim
<1>9. mCurrentIteration = 1 => checkCentering(Sky, mTarget)
  BY <1>1, <1>4 DEF IInv, Safe, Corrected
<1>10. Sky \in Positions /\ mTarget \in Positions
  BY SkyIsPosition, TargetIsPosition DEF Sky, IInv, NavTypeOK
<1>11. Aim'
  BY <1>7, <1>8 DEF Aim
<1>12. CASE /\ checkCentering(s.seen, mTarget)
            /\ SyncMount(s.seen)
            /\ Ends
            /\ UNCHANGED <<exposing, mWaitingSlew>>
  <2>1. Sky' = Sky
    <3>1. CASE reading' = Observed(s.seen) /\ offset' = Normal(Sky - reading')
      <4>1. reading' \in Positions
        BY <1>4, <1>10, <3>1, ObservedIsPosition
      <4> QED
        BY <1>10, <3>1, <4>1, SyncKeepsSky DEF Sky
    <3>2. CASE UNCHANGED mount
      BY <3>2 DEF mount, Sky
    <3> QED
      BY <1>12, <3>1, <3>2 DEF SyncMount
  <2>2. DoneIsCentred'
    BY <1>4, <1>7, <1>8, <1>10, <1>12, <2>1, CenteringIsNear DEF DoneIsCentred
  <2>3. OneCorrection'
    <3>1. "navigatorfailed" \notin said'
      <4>1. \/ said' = {"navigatordone", "syncrequest", "syncdone"}
            \/ said' = {"navigatordone", "syncrequest", "devicefailed"}
            \/ said' = {"navigatordone"}
        BY <1>12, Zenon DEF SyncMount
      <4> QED
        BY <4>1
    <3> QED
      BY <1>6, <1>7, <3>1 DEF OneCorrection
  <2> QED
    BY <1>5, <1>7, <1>11, <1>12, <2>2, <2>3, IdleIsSafe DEF Ends
<1>13. CASE /\ ~checkCentering(s.seen, mTarget)
            /\ mCurrentIteration + 1 >= MaxIterations
            /\ said' = {"navigatorfailed"}
            /\ Ends
            /\ UNCHANGED <<mount, exposing, mWaitingSlew>>
  <2>1. mCurrentIteration = 0
    BY <1>4, <1>6, <1>9, <1>13
  <2>2. MaxIterations = 1
    BY <1>13, <2>1, NavigatorAssumption
  <2>3. DoneIsCentred' /\ OneCorrection'
    BY <1>6, <1>7, <1>13, <2>2 DEF DoneIsCentred, OneCorrection
  <2> QED
    BY <1>5, <1>7, <1>11, <1>13, <2>3, IdleIsSafe DEF Ends
<1>14. CASE /\ ~checkCentering(s.seen, mTarget)
            /\ mCurrentIteration' = mCurrentIteration + 1
            /\ CorrectOffset(s.seen)
  <2>1. mCurrentIteration = 0 /\ mCurrentIteration' = 1 /\ shots' = 1
    BY <1>4, <1>6, <1>7, <1>9, <1>14
  <2>2. DoneIsCentred' /\ OneCorrection'
    BY <1>14, <2>1 DEF CorrectOffset, DoneIsCentred, OneCorrection
  <2>3. CASE /\ Slew(Normal(reading - wrapRaHoursDelta(s.seen - mTarget)))
             /\ UNCHANGED mState
    <3>1. /\ goal' = Normal(reading - wrapRaHoursDelta(s.seen - mTarget))
          /\ moving' = TRUE /\ mWaitingSlew' = TRUE /\ offset' = offset
          /\ exposing' = {[e EXCEPT !.steady = FALSE] : e \in exposing}
      BY <2>3 DEF Slew
    <3>2. Normal(goal' + offset') = mTarget
      BY <1>4, <1>10, <3>1, CorrectionAims DEF Sky, IInv, NavTypeOK
    <3>3. \A x \in exposing' \cup image' \cup solving' : ~x.own
      BY <1>5, <1>7, <3>1, BlurredIsNotOwn DEF IInv
    <3>4. Corrected'
      BY <1>7, <3>1, <3>2 DEF Corrected
    <3>5. Measures' /\ Alone'
      BY <3>3 DEF Measures, Alone, Frames, Own
    <3>6. Counted' /\ OneStage'
      BY <2>1, <3>1, <3>3 DEF Counted, OneStage, Frames, Own
    <3> QED
      BY <1>11, <2>2, <3>4, <3>5, <3>6 DEF Safe
  <2>4. CASE Stays /\ mState' = "idle"
    BY <1>5, <1>7, <1>11, <2>2, <2>4, IdleIsSafe DEF Stays
  <2> QED
    BY <1>14, <2>3, <2>4 DEF CorrectOffset
<1> QED
  BY <1>2, <1>12, <1>13, <1>14

LEMMA SafeKept ==
    ASSUME IInv, [Next]_vars
    PROVE  Safe'
<1>1. CASE Commands
  <2>1. CASE Abort
    BY <2>1, SpoiledIsSafe DEF Abort
  <2>2. ASSUME NEW t \in Targets, Goto(t) PROVE Safe'
    BY <2>2, GotoSafe
  <2>3. ASSUME NEW t \in Targets, Pick(t) PROVE Safe'
    BY <2>3, SpoiledIsSafe DEF Pick
  <2> QED
    BY <1>1, <2>1, <2>2, <2>3 DEF Commands
<1>2. CASE Module
  BY <1>2, SlewToSelectionSafe, OnUpdatePropertySafe, OnNewImageSafe,
     OnSucessSolveSafe, SolverFailedSafe DEF Module
<1>3. CASE Devices
  <2>1. CASE Reports
    BY <2>1, QuietSafe DEF Reports, ghost
  <2> QED
    BY <1>3, <2>1, SlewEndsSafe, ExposureEndsSafe, ForeignFrameSafe,
       ExposureIsLostSafe DEF Devices
<1>4. CASE UNCHANGED vars
  <2>1. /\ UNCHANGED <<mState, mCurrentIteration, mWaitingSlew, mTarget, starting,
                       reading, offset, goal, moving, exposing, image, solving,
                       asked, shots, spoiled, lost, said>>
    BY <1>4 DEF vars, module, mount, camera, ghost
  <2>2. Aim' /\ Measures' /\ Corrected' /\ DoneIsCentred' /\ OneCorrection'
    BY <2>1 DEF IInv, Safe, Aim, Measures, Frames, Corrected, DoneIsCentred,
                OneCorrection, Sky
  <2>3. Alone' /\ Counted' /\ OneStage'
    BY <2>1 DEF IInv, Safe, Alone, Counted, OneStage, Undisturbed, Frames, Own
  <2> QED
    BY <2>2, <2>3 DEF Safe
<1> QED
  BY <1>1, <1>2, <1>3, <1>4 DEF Next

LEMMA IInvKept ==
    ASSUME IInv, [Next]_vars
    PROVE  IInv'
  BY TypesKept, MountKept, SafeKept DEF IInv

LEMMA IInvHolds == Spec => []IInv
<1>1. Init => IInv
  <2> SUFFICES ASSUME Init PROVE IInv
    OBVIOUS
  <2>1. NavTypeOK
    BY InitTypes
  <2>2. Mount /\ Aim /\ Measures /\ Corrected /\ DoneIsCentred /\ OneCorrection
    BY DEF Init, Mount, Aim, Measures, Frames, Corrected, DoneIsCentred, OneCorrection
  <2>3. Alone /\ Counted /\ OneStage
    BY DEF Init, Alone, Counted, OneStage, Undisturbed, Own
  <2> QED
    BY <2>1, <2>2, <2>3 DEF IInv, Safe
<1>2. IInv /\ [Next]_vars => IInv'
  BY IInvKept
<1> QED
  BY <1>1, <1>2, PTL DEF Spec

\* The two threads of a goto that nobody disturbs share its state in turns:
\* it waits for the mount, exposes, has a frame or is being solved.
THEOREM GotoIsInOneStage == Spec => []OneStage
<1>1. IInv => OneStage
  BY DEF IInv, Safe
<1> QED
  BY <1>1, IInvHolds, PTL

\* The arrival the planner waits for is one: when "navigatordone" is announced
\* for such a goto, the telescope shows the target, whatever the circle, the
\* mount's error, the tolerance and the slews' inexactness within it.
THEOREM ArrivalIsCentred == Spec => []DoneIsCentred
<1>1. IInv => DoneIsCentred
  BY DEF IInv, Safe
<1> QED
  BY <1>1, IInvHolds, PTL

\* The measure and the correction agree on the way round: one correction is
\* enough, through 0h as elsewhere.
THEOREM OneCorrectionIsEnough == Spec => []OneCorrection
<1>1. IInv => OneCorrection
  BY DEF IInv, Safe
<1> QED
  BY <1>1, IInvHolds, PTL

=============================================================================
