------------------------------ MODULE Navigator ------------------------------
(***************************************************************************)
(* The goto of the Navigator module (src/src/modules/navigator): slew,     *)
(* expose, solve, correct, until the field is centred.  Right ascensions   *)
(* are the points 0 .. Turn - 1 of a circle; the declination is the same   *)
(* computation without the wrap and is left out.                           *)
(*                                                                         *)
(* Two threads run the module: its own (the client's and the planner's     *)
(* commands, OnNewImage, OnSucessSolve) and INDI's (onUpdateProperty,      *)
(* newBLOB).  A handler is one action, except gototarget, whose initIndi() *)
(* talks to the devices for a while before slewToSelection().              *)
(***************************************************************************)
EXTENDS Integers

CONSTANTS
    Half,           \* half a turn: twelve hours
    Precession,     \* from J2000 coordinates to those of the mount, today
    Targets,        \* what can be selected, J2000
    Offsets,        \* how far the mount may point from what it reads, at first
    Slop,           \* how far from its goal a slew may end
    Tolerance,      \* centeringparams.tolerance
    MaxIterations,  \* centeringparams.maxiterations
    SyncAfter,      \* the values centeringparams.syncafter may have when read
    Faults,         \* what else may happen, among Hitches
    MaxGotos,       \* bound: gotos of a behaviour
    MaxHitches      \* bound: hitches of a behaviour

Turn == 2 * Half
Positions == 0 .. Turn - 1

Hitches == {"unset",     \* mWaitingSlew, which nothing initialises, is true
            "abort",     \* the user aborts
            "pick",      \* the user picks another row of the search results
            "again",     \* gototarget while a goto runs (user and planner)
            "late",      \* an update of the mount is still on its way when it
                         \* is sent elsewhere
            "foreign",   \* another module exposes with the same camera
            "unsolved",  \* the solver fails
            "refused"}   \* a device is missing or refuses, an exposure is lost

ASSUME NavigatorAssumption ==
    /\ Half \in Nat \ {0}
    /\ Precession \in Positions
    /\ Targets \subseteq Positions /\ Targets # {}
    /\ Offsets \subseteq Positions /\ Offsets # {}
    /\ Tolerance \in Nat /\ Tolerance < Half
    /\ Slop \in 0 .. Tolerance
    /\ MaxIterations \in Nat \ {0}
    /\ SyncAfter \subseteq BOOLEAN /\ SyncAfter # {}
    /\ Faults \subseteq Hitches
    /\ MaxGotos \in Nat /\ MaxHitches \in Nat

VARIABLES
    mState, mCurrentIteration, mWaitingSlew,
    mTarget,    \* mTargetRA; mTargetRAnow is its conversion
    starting,   \* gototarget is in initIndi()
    reading,    \* what the mount believes: EQUATORIAL_EOD_COORD
    offset,     \* what it shows is reading + offset, J2000
    goal, moving,
    ok,         \* the update with state Ok on its way, if any
    exposing,   \* the exposure of the camera: {} or one
    image,      \* pImage, its newImage signal queued: {} or one
    solving,    \* what the solver is at: {} or one
    said,       \* the events announced by the last step
    asked,      \* the target the last goto was started for
    shots,      \* its exposures
    spoiled,    \* it met what it cannot tell from its own work
    lost,       \* a device left it without an answer
    gotos, hitches

module == <<mState, mCurrentIteration, mWaitingSlew, mTarget, starting, said>>
mount == <<reading, offset, goal, moving, ok>>
camera == <<exposing, image>>
ghost == <<asked, shots, spoiled, lost, gotos, hitches>>
vars == <<module, mount, camera, solving, ghost>>

Exposure == [own: BOOLEAN, steady: BOOLEAN]
Frame == [own: BOOLEAN, seen: Positions]

Events == {"slew", "correction", "navigatordone", "navigatorfailed",
           "solverfailed", "devicefailed", "syncrequest", "syncdone"}

-----------------------------------------------------------------------------
(* Right ascensions *)

(* A sum or a difference of positions, brought back into the turn. *)
Normal(p) == IF p < 0 THEN p + Turn ELSE IF p >= Turn THEN p - Turn ELSE p

NoWrap(d) == d                                        \* mutant: not wrapped

(* The shortest way round, in (-Half, Half]. *)
wrapRaHoursDelta(d) ==
    IF d > Half THEN d - Turn ELSE IF d <= -Half THEN d + Turn ELSE d

checkCentering(solved, target) ==
    wrapRaHoursDelta(solved - target) \in -Tolerance .. Tolerance

(* J2000toObserved *)
Observed(p) == Normal(p + Precession)

(* What the telescope shows. *)
Sky == Normal(reading + offset)

-----------------------------------------------------------------------------
(* The mount's side of a command, and the module's that goes with it *)

Hitch(h) == h \in Faults /\ hitches < MaxHitches /\ hitches' = hitches + 1

NoHitch == UNCHANGED hitches

(* Mutant: the end of the slew is not waited for. *)
SlewUnawaited(p) ==
    /\ goal' = p /\ moving' = TRUE /\ ok' = "none" /\ NoHitch
    /\ exposing' = {[e EXCEPT !.steady = FALSE] : e \in exposing}
    /\ UNCHANGED <<mWaitingSlew, reading, offset>>

Slew(p) ==
    /\ goal' = p
    /\ moving' = TRUE
    /\ \/ ok' = "none" /\ NoHitch
       \/ ok # "none" /\ ok' = "stale" /\ Hitch("late")
    /\ exposing' = {[e EXCEPT !.steady = FALSE] : e \in exposing}
    /\ mWaitingSlew' = TRUE
    /\ UNCHANGED <<reading, offset>>

(* The command is not sent: the device or its property is missing. *)
Stays == UNCHANGED <<mount, exposing, mWaitingSlew>>

NotOwn(S) == {[x EXCEPT !.own = FALSE] : x \in S}

Foreign(S) == \E x \in S : ~x.own

-----------------------------------------------------------------------------
Init ==
    /\ mState = "idle" /\ mCurrentIteration = 0
    /\ mTarget \in Targets /\ starting = FALSE /\ said = {}
    /\ reading = 0 /\ goal = 0 /\ offset \in Offsets
    /\ moving = FALSE /\ ok = "none"
    /\ exposing = {} /\ image = {} /\ solving = {}
    /\ asked = mTarget /\ shots = 0 /\ spoiled = FALSE /\ lost = FALSE
    /\ gotos = 0
    /\ \/ mWaitingSlew = FALSE /\ hitches = 0
       \/ mWaitingSlew = TRUE /\ "unset" \in Faults /\ hitches = 1 /\ MaxHitches > 0

(* SV actions.gototarget, from a client or from the planner, which has set *)
(* the target before: up to initIndi().                                    *)
Goto(t) ==
    /\ ~starting
    /\ gotos < MaxGotos
    /\ IF mState = "running" THEN Hitch("again") ELSE NoHitch
    /\ mState' = "running"
    /\ mCurrentIteration' = 0
    /\ mTarget' = t
    /\ starting' = TRUE
    /\ said' = {}
    /\ exposing' = NotOwn(exposing) /\ image' = NotOwn(image)
    /\ solving' = NotOwn(solving)
    /\ asked' = t /\ shots' = 0 /\ spoiled' = FALSE /\ lost' = FALSE
    /\ gotos' = gotos + 1
    /\ UNCHANGED <<mWaitingSlew, mount>>

(* Without the mount nothing is sent and the module stays "running". *)
SlewToSelection ==
    /\ starting
    /\ starting' = FALSE
    /\ \/ /\ Slew(Observed(mTarget))
          /\ said' = {"slew"}
          /\ UNCHANGED lost
       \/ /\ Hitch("refused")
          /\ Stays
          /\ said' = {"devicefailed"}
          /\ lost' = TRUE
    /\ UNCHANGED <<mState, mCurrentIteration, mTarget, image, solving,
                   asked, shots, spoiled, gotos>>

(* SV actions.abortnavigator: the solver is told, neither the mount nor the *)
(* camera is, and mWaitingSlew stays.                                       *)
Abort ==
    /\ Hitch("abort")
    /\ ~starting
    /\ mState' = "idle"
    /\ mCurrentIteration' = 0
    /\ solving' = NotOwn(solving)
    /\ spoiled' = TRUE
    /\ said' = {}
    /\ UNCHANGED <<mWaitingSlew, mTarget, starting, mount, camera, asked, shots,
                   lost, gotos>>

(* GF results: a row of the search results is selected, goto or not. *)
Pick(t) ==
    /\ ~starting
    /\ t # mTarget
    /\ Hitch("pick")
    /\ mTarget' = t
    /\ spoiled' = TRUE
    /\ said' = {}
    /\ UNCHANGED <<mState, mCurrentIteration, mWaitingSlew, starting, mount,
                   camera, solving, asked, shots, lost, gotos>>

-----------------------------------------------------------------------------
(* The mount *)

SlewEnds ==
    /\ moving
    /\ moving' = FALSE
    /\ \E s \in -Slop .. Slop : reading' = Normal(goal + s)
    /\ said' = {}
    /\ UNCHANGED <<mState, mCurrentIteration, mWaitingSlew, mTarget, starting,
                   offset, goal, ok, camera, solving, ghost>>

(* At rest the driver repeats its coordinates with state Ok. *)
Reports ==
    /\ ~moving /\ ok = "none"
    /\ ok' = "fresh"
    /\ said' = {}
    /\ UNCHANGED <<mState, mCurrentIteration, mWaitingSlew, mTarget, starting,
                   reading, offset, goal, moving, camera, solving, ghost>>

-----------------------------------------------------------------------------
(* onUpdateProperty(): INDI's thread *)

(* A camera busy with another exposure goes on with it. *)
Shoot ==
    \/ /\ \/ exposing' = {[own |-> TRUE, steady |-> ~moving]}
          \/ exposing # {} /\ exposing' = exposing
       /\ shots' = shots + 1
       /\ UNCHANGED <<lost, hitches>>
    \/ /\ Hitch("refused")
       /\ lost' = TRUE
       /\ UNCHANGED <<exposing, shots>>

SlewIsOverBusy == ok # "none" \/ moving        \* mutant: Busy updates count too
SlewIsOver == ok # "none"

WaitsForAny == mState = "running"              \* mutant: the flag is not asked
Waits == mState = "running" /\ mWaitingSlew

(* Any update with state Ok ends the slew waited for. *)
OnUpdateProperty ==
    /\ SlewIsOver
    /\ ok' = "none"
    /\ said' = {}
    /\ IF Waits
       THEN /\ mWaitingSlew' = FALSE
            /\ spoiled' = (spoiled \/ starting \/ ok = "stale")
            /\ Shoot
       ELSE UNCHANGED <<mWaitingSlew, exposing, shots, spoiled, lost, hitches>>
    /\ UNCHANGED <<mState, mCurrentIteration, mTarget, starting, reading, offset,
                   goal, moving, image, solving, asked, gotos>>

(* newBLOB(): the camera's frames are taken whoever asked for them. *)
Blob(own, steady) ==
    IF mState = "idle"
    THEN UNCHANGED <<image, spoiled>>
    ELSE /\ \E p \in IF steady /\ ~moving THEN {Sky} ELSE Positions :
               image' = {[own |-> own, seen |-> p]}
         /\ spoiled' = (spoiled \/ ~own)

ExposureEnds ==
    /\ \E e \in exposing : Blob(e.own, e.steady)
    /\ exposing' = {}
    /\ said' = {}
    /\ UNCHANGED <<mState, mCurrentIteration, mWaitingSlew, mTarget, starting,
                   mount, solving, asked, shots, lost, gotos, hitches>>

ForeignFrame ==
    /\ image = {}
    /\ Hitch("foreign")
    /\ Blob(FALSE, ~moving)
    /\ said' = {}
    /\ UNCHANGED <<mState, mCurrentIteration, mWaitingSlew, mTarget, starting,
                   mount, exposing, solving, asked, shots, lost, gotos>>

ExposureIsLost ==
    /\ exposing # {}
    /\ Hitch("refused")
    /\ exposing' = {}
    /\ lost' = TRUE
    /\ said' = {}
    /\ UNCHANGED <<mState, mCurrentIteration, mWaitingSlew, mTarget, starting,
                   mount, image, solving, asked, shots, spoiled, gotos>>

-----------------------------------------------------------------------------
(* The module's own thread *)

(* Neither this nor OnSucessSolve looks at mState. *)
OnNewImage ==
    /\ ~starting
    /\ image # {}
    /\ image' = {}
    /\ said' = {}
    /\ \/ solving' = image /\ UNCHANGED <<lost, hitches>>
       \/ Hitch("refused") /\ lost' = TRUE /\ UNCHANGED solving
    /\ spoiled' = (spoiled \/ Foreign(image))
    /\ UNCHANGED <<mState, mCurrentIteration, mWaitingSlew, mTarget, starting,
                   mount, exposing, asked, shots, gotos>>

(* The mount takes the solved field for its own coordinates. *)
SyncMount(solved) ==
    \/ /\ TRUE \in SyncAfter
       /\ ~moving
       /\ reading' = Observed(solved)
       /\ offset' = Normal(Sky - reading')
       /\ said' = {"navigatordone", "syncrequest", "syncdone"}
       /\ UNCHANGED <<goal, moving, ok, hitches>>
    \/ /\ TRUE \in SyncAfter
       /\ IF moving THEN NoHitch ELSE Hitch("refused")
       /\ said' = {"navigatordone", "syncrequest", "devicefailed"}
       /\ UNCHANGED mount
    \/ /\ FALSE \in SyncAfter
       /\ said' = {"navigatordone"}
       /\ UNCHANGED <<mount, hitches>>

Ends ==
    /\ mState' = "idle"
    /\ mCurrentIteration' = 0

(* Closer by what the solution is off. *)
CorrectOffset(solved) ==
    \/ /\ Slew(Normal(reading - wrapRaHoursDelta(solved - mTarget)))
       /\ said' = {"correction"}
       /\ UNCHANGED mState
    \/ /\ Hitch("refused")
       /\ Stays
       /\ said' = {"correction", "devicefailed"}
       /\ mState' = "idle"

OnSucessSolve ==
    /\ ~starting
    /\ \E s \in solving :
        LET iteration == mCurrentIteration + 1
        IN  \/ /\ checkCentering(s.seen, mTarget)
               /\ SyncMount(s.seen)
               /\ Ends
               /\ UNCHANGED <<exposing, mWaitingSlew>>
            \/ /\ ~checkCentering(s.seen, mTarget)
               /\ iteration >= MaxIterations
               /\ said' = {"navigatorfailed"}
               /\ Ends
               /\ UNCHANGED <<mount, exposing, mWaitingSlew, hitches>>
            \/ /\ ~checkCentering(s.seen, mTarget)
               /\ iteration < MaxIterations
               /\ mCurrentIteration' = iteration
               /\ CorrectOffset(s.seen)
    /\ solving' = {}
    /\ spoiled' = (spoiled \/ Foreign(solving))
    /\ UNCHANGED <<mTarget, starting, image, asked, shots, lost, gotos>>

(* OnSucessSolve() again, when the solver failed or was aborted. *)
SolverFailed ==
    /\ ~starting
    /\ solving # {}
    /\ IF Foreign(solving) THEN NoHitch ELSE Hitch("unsolved")
    /\ Ends
    /\ solving' = {}
    /\ said' = {"solverfailed"}
    /\ spoiled' = (spoiled \/ Foreign(solving))
    /\ UNCHANGED <<mWaitingSlew, mTarget, starting, mount, camera, asked, shots,
                   lost, gotos>>

Commands == Abort \/ \E t \in Targets : Goto(t) \/ Pick(t)
Module == SlewToSelection \/ OnUpdateProperty \/ OnNewImage \/ OnSucessSolve
              \/ SolverFailed
Devices == SlewEnds \/ Reports \/ ExposureEnds \/ ForeignFrame \/ ExposureIsLost

Next == Commands \/ Module \/ Devices

Spec == Init /\ [][Next]_vars

(* The threads run, the mount arrives and reports, the camera and the solver *)
(* answer.                                                                   *)
FairSpec ==
    /\ Spec
    /\ WF_vars(SlewToSelection) /\ WF_vars(OnUpdateProperty)
    /\ WF_vars(OnNewImage) /\ WF_vars(OnSucessSolve \/ SolverFailed)
    /\ WF_vars(SlewEnds) /\ WF_vars(Reports)
    /\ WF_vars(ExposureEnds \/ ExposureIsLost)

-----------------------------------------------------------------------------
\* The members have the types the code gives them.
NavTypeOK ==
    /\ mState \in {"idle", "running"} /\ mCurrentIteration \in 0 .. MaxIterations
    /\ mWaitingSlew \in BOOLEAN /\ mTarget \in Targets /\ starting \in BOOLEAN
    /\ said \subseteq Events
    /\ reading \in Positions /\ offset \in Positions /\ goal \in Positions
    /\ moving \in BOOLEAN /\ ok \in {"none", "fresh", "stale"}
    /\ exposing \subseteq Exposure /\ image \subseteq Frame /\ solving \subseteq Frame
    /\ asked \in Targets /\ shots \in Nat /\ spoiled \in BOOLEAN
    /\ lost \in BOOLEAN /\ gotos \in 0 .. MaxGotos /\ hitches \in 0 .. MaxHitches

(* A goto that met nobody else's work and lost no device. *)
Undisturbed == mState = "running" /\ ~spoiled /\ ~lost

Own(S) == {x \in S : x.own}

(* Two threads, three callbacks and a flag make one loop: such a goto is in   *)
(* exactly one stage, the mount is at rest from the exposure to the solution, *)
(* and every exposure but the one under way has been counted (:488).          *)
OneStage ==
    Undisturbed =>
        \/ /\ starting \/ mWaitingSlew
           /\ Own(exposing \cup image \cup solving) = {}
           /\ shots = mCurrentIteration
        \/ /\ ~starting /\ ~mWaitingSlew /\ ~moving
           /\ shots = mCurrentIteration + 1
           /\ \/ exposing # {} /\ Own(image \cup solving) = {}
              \/ Own(image) # {} /\ Own(exposing \cup solving) = {}
              \/ Own(solving) # {} /\ Own(exposing \cup image) = {}

(* "navigatordone" (:496) is what the planner takes for the arrival: the     *)
(* telescope shows the target asked for, within the tolerance, unless the    *)
(* goto met what it cannot tell from its own: another row picked, an update  *)
(* older than its slew, a frame or a solution it did not ask for.            *)
DoneIsCentred ==
    "navigatordone" \in said /\ ~spoiled =>
        \E d \in -Tolerance .. Tolerance : Normal(asked + d) = Sky

(* One correction is enough: checkCentering() and correctOffset() measure the *)
(* same way round, through 0h too, so such a goto exposes twice at most and   *)
(* never gives up (:511) when a second exposure is allowed.                   *)
OneCorrection ==
    /\ ~spoiled => shots <= 2
    /\ "navigatorfailed" \in said /\ MaxIterations > 1 => spoiled

(* A goto ends, unless a device left it without an answer: a refused slew or *)
(* exposure, a mount gone before the solver, a frame that never comes (these *)
(* leave the module "running" for ever).                                     *)
GotoEnds == mState = "running" ~> mState = "idle" \/ lost

=============================================================================
