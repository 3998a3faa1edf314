------------------------------ MODULE Planner ------------------------------
(***************************************************************************)
(* The planner module of OST (src/modules/planner/planner.cpp): it takes   *)
(* the lines of the "planning" grid in turn, checks that the target is     *)
(* visible, sends the navigator to it and has the sequencer shoot it.      *)
(*                                                                         *)
(* Requests between modules are direct calls on the main thread            *)
(* (Controller::onInterModuleRequest and onModuleEvent).  The question for *)
(* the duration of a profile is answered before it returns, and the answer *)
(* is handled before that: while "asking", nothing else happens there.     *)
(*                                                                         *)
(* The sequencer and the navigator are modelled by what they report; for   *)
(* the sequencer that is the promise of module SequenceRun, whose "cut"    *)
(* is an abort, an error or a refused camera.                              *)
(***************************************************************************)
EXTENDS Integers

CONSTANTS
    NLines,           \* number of lines of the "planning" grid
    MaxRetries,       \* "maxretries"
    SlavesMayFail,    \* sequencer and navigator may report an error
    Operated,         \* the slaves that users may also operate themselves
    ModulesMayGo      \* the slaves may be unloaded and loaded again

ASSUME PlannerAssumption ==
    /\ NLines \in Nat \ {0}
    /\ MaxRetries \in Int
    /\ SlavesMayFail \in BOOLEAN /\ ModulesMayGo \in BOOLEAN
    /\ Operated \subseteq {"sequencer", "navigator"}

Lines == 1..NLines
Slaves == {"sequencer", "navigator"}

VARIABLES
  (* members of Planner *)
    running,      \* mIsRunning
    current,      \* mCurrentLine + 1
    waiting,      \* mWaitingDuration, mWaitingNavigator, mWaitingSequence
    skips,        \* mSkipCounts
  (* its properties *)
    label,        \* label[l]: the text of liveplanning's "progress"
    light,        \* light[l]: liveplanning's "status"
    started,      \* the "start" button shows a running planning
    devices,      \* the "devices" property is enabled
  (* the main thread and the other modules *)
    asking,       \* otherModuleQuery() is on the stack of the main thread
    sequencer,    \* "idle", "busy", or "aborting": an abort is in its queue
    navigator,    \* "idle" or "busy"
    loaded,       \* the slaves that are loaded
    operated      \* history: the slaves that a user did operate

own == <<running, current, waiting, skips, label, light, started, devices, asking>>
slaves == <<sequencer, navigator>>
modules == <<loaded, operated>>
vars == <<running, current, waiting, skips, label, light, started, devices,
          asking, sequencer, navigator, modules>>

For(what) == [w \in {"duration", "navigator", "sequence"} |-> w = what]
Nothing == For("nothing")

Final == {"Finished", "Cancelled", "Failed"}
Labels == Final \cup {"Queued", "Checking visibility", "Slewing", "Shooting", "Skipped"}

(***************************************************************************)
(* The slaves, as the planner's requests find them.                        *)
(***************************************************************************)
AbortSequenceForgotten == UNCHANGED sequencer    \* mutant: stopping does not reach it

\* "abortsequence" puts an abort into the queue of a chart that runs.
AbortSequence ==
    sequencer' = IF sequencer = "busy" THEN "aborting" ELSE sequencer

\* "abortnavigator" forgets the goto and says nothing.
AbortNavigator == navigator' = "idle"

\* "startsequence": ignored if the module is not there, and refused with
\* Error/"deviceerror" if the camera is not.
StartsSequence ==
    \/ /\ "sequencer" \in loaded
       /\ sequencer' = IF sequencer = "idle" THEN "busy" ELSE sequencer
    \/ /\ SlavesMayFail \/ "sequencer" \notin loaded
       /\ UNCHANGED sequencer

\* "gototarget": ignored if the module is not there; Error/"devicefailed" if
\* the mount is not, and then no slew begins.
GoesToTarget ==
    \/ "navigator" \in loaded /\ navigator' = "busy"
    \/ (SlavesMayFail \/ "navigator" \notin loaded) /\ UNCHANGED navigator

(***************************************************************************)
(* The lines.                                                              *)
(***************************************************************************)
\* startLine(): announce the line and ask how long its profile takes.
StartLine(l, labels, lights) ==
    /\ current' = l
    /\ label' = [labels EXCEPT ![l] = "Checking visibility"]
    /\ light' = [lights EXCEPT ![l] = "Busy"]
    /\ waiting' = For("duration")
    /\ asking' = ("sequencer" \in loaded)

\* onOperationComplete()
OnOperationComplete ==
    /\ running' = FALSE
    /\ started' = FALSE
    /\ devices' = TRUE

\* advanceToNextLine(): the scan begins behind the current line, wraps around
\* and ends with the current line itself.
AheadFromTop(i) == i                             \* mutant: the scan begins at the top
Ahead(i) == IF current + i <= NLines THEN current + i ELSE current + i - NLines
WorkableCancelled(labels) ==                     \* mutant: cancelled lines are tried again
    {i \in Lines : labels[Ahead(i)] \notin {"Finished", "Failed"}}
Workable(labels) == {i \in Lines : labels[Ahead(i)] \notin Final}

AdvanceToNextLine(labels, lights) ==
    \/ \E i \in Workable(labels) :
           /\ \A j \in Workable(labels) : i <= j
           /\ StartLine(Ahead(i), labels, lights)
           /\ UNCHANGED <<running, started, devices>>
    \/ /\ Workable(labels) = {}
       /\ OnOperationComplete
       /\ label' = labels /\ light' = lights
       /\ waiting' = Nothing /\ asking' = FALSE
       /\ UNCHANGED current

\* mutant: the attempts are not counted
SkipLineUncounted ==
    /\ AdvanceToNextLine([label EXCEPT ![current] = "Skipped"],
                         [light EXCEPT ![current] = "Idle"])
    /\ UNCHANGED skips

\* skipLine()
SkipLine ==
    LET attempts == skips[current] + 1
        givesUp  == attempts >= MaxRetries
    IN  /\ skips' = [skips EXCEPT ![current] = attempts]
        /\ AdvanceToNextLine(
               [label EXCEPT ![current] = IF givesUp THEN "Failed" ELSE "Skipped"],
               [light EXCEPT ![current] = IF givesUp THEN "Error" ELSE "Idle"])

\* mutant: the answer does not clear mWaitingDuration
ProceedToSlewStillAsking ==
    /\ label' = [label EXCEPT ![current] = "Slewing"]
    /\ waiting' = [For("navigator") EXCEPT !["duration"] = TRUE]
    /\ asking' = FALSE
    /\ GoesToTarget
    /\ UNCHANGED <<running, current, skips, light, started, devices, sequencer>>

\* proceedToSlew()
ProceedToSlew ==
    /\ label' = [label EXCEPT ![current] = "Slewing"]
    /\ waiting' = For("navigator")
    /\ asking' = FALSE
    /\ GoesToTarget
    /\ UNCHANGED <<running, current, skips, light, started, devices, sequencer>>

\* navigatorComplete()
NavigatorComplete ==
    /\ label' = [label EXCEPT ![current] = "Shooting"]
    /\ StartsSequence
    /\ waiting' = For("sequence")
    /\ UNCHANGED <<running, current, skips, light, started, devices, asking>>

\* sequenceComplete()
SequenceComplete ==
    /\ AdvanceToNextLine([label EXCEPT ![current] = "Finished"],
                         [light EXCEPT ![current] = "Ok"])
    /\ UNCHANGED skips

\* sequenceCancelled()
SequenceCancelled ==
    /\ AdvanceToNextLine([label EXCEPT ![current] = "Cancelled"],
                         [light EXCEPT ![current] = "Error"])
    /\ UNCHANGED skips

(***************************************************************************)
(* Start and stop.                                                         *)
(***************************************************************************)
FirstLine == 1

\* startPlanner() with everything in place
StartPlanner ==
    /\ ~asking /\ ~running
    /\ running' = TRUE
    /\ started' = TRUE
    /\ devices' = FALSE
    /\ skips' = [l \in Lines |-> 0]
    /\ StartLine(FirstLine, [l \in Lines |-> "Queued"], [l \in Lines |-> "Idle"])
    /\ UNCHANGED <<slaves, modules>>

\* abortPlanner(): the slaves are aborted even if no planning runs.
AbortPlanner ==
    /\ AbortSequence /\ AbortNavigator
    /\ started' = FALSE
    /\ IF running
       THEN /\ running' = FALSE
            /\ waiting' = Nothing
            /\ light' = [light EXCEPT ![current] = "Error"]
            /\ devices' = TRUE
       ELSE UNCHANGED <<running, waiting, light, devices>>
    /\ UNCHANGED <<current, skips, label, asking, modules>>

\* startPlanner() without INDI server, GPS, slaves or lines
StartRefused == ~asking /\ ~running /\ AbortPlanner

StopPlanner == ~asking /\ AbortPlanner

(***************************************************************************)
(* onOtherModuleEvent().                                                   *)
(***************************************************************************)
\* The sequencer's answer, and checkVisibility().
Answer(visible) ==
    /\ asking /\ waiting["duration"]
    /\ IF visible THEN ProceedToSlew ELSE SkipLine /\ UNCHANGED slaves
    /\ UNCHANGED modules

\* Ok/"ready"/"navigatordone".  The second "ready", "syncdone", follows at
\* once and finds nobody waiting.
NavigatorReady ==
    /\ ~asking /\ navigator = "busy"
    /\ navigator' = "idle"
    /\ IF waiting["navigator"] THEN NavigatorComplete ELSE UNCHANGED <<own, sequencer>>
    /\ UNCHANGED modules

\* Error/"solverfailed", "navigatorfailed", "devicefailed": not looked at.
NavigatorFails ==
    /\ ~asking /\ SlavesMayFail /\ navigator = "busy"
    /\ navigator' = "idle"
    /\ UNCHANGED <<own, sequencer, modules>>

\* Ok/"ready"/"sequencedone"
SequenceDone ==
    /\ ~asking /\ sequencer # "idle"
    /\ sequencer' = "idle"
    /\ IF waiting["sequence"] THEN SequenceComplete ELSE UNCHANGED own
    /\ UNCHANGED <<navigator, modules>>

\* Ok/"ready"/"abortdone"
SequenceAborted ==
    /\ ~asking /\ sequencer = "aborting"
    /\ sequencer' = "idle"
    /\ IF waiting["sequence"] THEN SequenceCancelled ELSE UNCHANGED own
    /\ UNCHANGED <<navigator, modules>>

\* Error/"sequenceerror": not looked at.
SequenceFails ==
    /\ ~asking /\ SlavesMayFail /\ sequencer # "idle"
    /\ sequencer' = "idle"
    /\ UNCHANGED <<own, navigator, modules>>

(***************************************************************************)
(* Users of the other modules.                                             *)
(***************************************************************************)
UserOfSequencer ==
    /\ ~asking /\ "sequencer" \in Operated \cap loaded
    /\ StartsSequence \/ AbortSequence
    /\ operated' = operated \cup {"sequencer"}
    /\ UNCHANGED <<own, navigator, loaded>>

UserOfNavigator ==
    /\ ~asking /\ "navigator" \in Operated \cap loaded
    /\ GoesToTarget \/ AbortNavigator
    /\ operated' = operated \cup {"navigator"}
    /\ UNCHANGED <<own, sequencer, loaded>>

\* Controller: MK and ML
Unload(m) ==
    /\ ~asking /\ ModulesMayGo /\ m \in loaded
    /\ loaded' = loaded \ {m}
    /\ sequencer' = IF m = "sequencer" THEN "idle" ELSE sequencer
    /\ navigator' = IF m = "navigator" THEN "idle" ELSE navigator
    /\ UNCHANGED <<own, operated>>

Load(m) ==
    /\ ~asking /\ m \notin loaded
    /\ loaded' = loaded \cup {m}
    /\ UNCHANGED <<own, slaves, operated>>

-----------------------------------------------------------------------------
Init ==
    /\ running = FALSE /\ current = 1 /\ waiting = Nothing
    /\ skips = [l \in Lines |-> 0]
    /\ label = [l \in Lines |-> "Queued"] /\ light = [l \in Lines |-> "Idle"]
    /\ started = FALSE /\ devices = TRUE /\ asking = FALSE
    /\ sequencer = "idle" /\ navigator = "idle"
    /\ loaded = Slaves /\ operated = {}

Commands == StartPlanner \/ StartRefused \/ StopPlanner

Reports ==
    \/ \E visible \in BOOLEAN : Answer(visible)
    \/ NavigatorReady \/ NavigatorFails
    \/ SequenceDone \/ SequenceAborted \/ SequenceFails

Others ==
    \/ UserOfSequencer \/ UserOfNavigator
    \/ \E m \in Slaves : Unload(m) \/ Load(m)

Next == Commands \/ Reports \/ Others

Spec == Init /\ [][Next]_vars

\* The query returns; a navigator that was sent ends its goto, and a sequence
\* that was started ends.
FairSpec ==
    /\ Spec
    /\ WF_vars(\E visible \in BOOLEAN : Answer(visible))
    /\ WF_vars(NavigatorReady \/ NavigatorFails)
    /\ WF_vars(SequenceDone \/ SequenceAborted \/ SequenceFails)

-----------------------------------------------------------------------------
\* Every variable has its type.
PlannerTypeOK ==
    /\ running \in BOOLEAN /\ started \in BOOLEAN /\ devices \in BOOLEAN
    /\ asking \in BOOLEAN
    /\ current \in Lines
    /\ waiting \in [{"duration", "navigator", "sequence"} -> BOOLEAN]
    /\ skips \in [Lines -> Nat]
    /\ label \in [Lines -> Labels]
    /\ light \in [Lines -> {"Idle", "Busy", "Ok", "Error"}]
    /\ sequencer \in {"idle", "busy", "aborting"}
    /\ navigator \in {"idle", "busy"}
    /\ loaded \subseteq Slaves /\ operated \subseteq Operated

\* While a planning runs it waits for one answer, the one its current line
\* shows, and no other line is in progress; once it has stopped, for none, and
\* no line, button or property is left as if it still ran: an answer can only
\* move the line it was asked for (the waiting flags of onOtherModuleEvent).
OneAtATime ==
    /\ IF running
       THEN /\ <<label[current], waiting>> \in
                  {<<"Checking visibility", For("duration")>>,
                   <<"Slewing", For("navigator")>>, <<"Shooting", For("sequence")>>}
            /\ \A l \in Lines \ {current} : label[l] \in Final \cup {"Queued", "Skipped"}
       ELSE waiting = Nothing
    /\ \A l \in Lines : light[l] = "Busy" <=> running /\ l = current
    /\ started = running /\ devices = ~running

\* A skipped line is tried again only after every other line that is still
\* open had its turn: the lines before the current one are one attempt ahead
\* of those from it on, whatever was finished or given up between them
\* (advanceToNextLine and mSkipCounts).
TakesTurns ==
    running =>
        \A i, j \in {l \in Lines : label[l] \notin Final} :
            i < j => skips[i] = skips[j] + IF i < current /\ current <= j THEN 1 ELSE 0

\* Nothing the planner set in motion goes on without it: a navigator or a sequencer
\* that nobody else operated works only while the planner waits for it, whether
\* planning was stopped, refused, finished, or a slave failed or was loaded afresh
\* (abortPlanner aborts both slaves), and whatever is done to the other one.
NothingUnattended ==
    /\ "navigator" \notin operated /\ navigator = "busy" => waiting["navigator"]
    /\ "sequencer" \notin operated /\ sequencer = "busy" => waiting["sequence"]

\* The planner keeps the promise of a planning: targets are shot one at a time
\* and once, verdicts stay, and it stops by itself exactly when all are in
\* (advanceToNextLine, sequenceComplete, sequenceCancelled, skipLine).
Fate(text) ==
    IF text \in Final THEN text ELSE IF text = "Shooting" THEN "shooting" ELSE "open"

Promise == INSTANCE Planning WITH
    Targets <- Lines,
    phase <- IF running THEN "running" ELSE "stopped",
    fate <- [l \in Lines |-> Fate(label[l])]

KeepsPlan == Promise!Spec

\* A planning ends (advanceToNextLine keeps cycling only while something is
\* left to try).
PlanningEnds == running ~> ~running

\* The slave whose answer is awaited does not work: it failed, refused, was
\* aborted by its own user, or is not loaded.
Deserted ==
    \/ waiting["duration"] /\ ~asking
    \/ waiting["navigator"] /\ navigator = "idle"
    \/ waiting["sequence"] /\ sequencer = "idle"

\* A planning ends unless the slave it waits for gave up without an answer it
\* listens to: that is the only way to hang, however slaves fail, are unloaded
\* and are operated by others.
PlanningGoesOn == running ~> ~running \/ Deserted
=============================================================================
