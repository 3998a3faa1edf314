--------------------------- MODULE PlannerProofs ---------------------------
(***************************************************************************)
(* Proofs about the planner, for every number of lines and of retries, for *)
(* slaves that may fail or be unloaded and whoever operates them.          *)
(***************************************************************************)
EXTENDS Planner, TLAPS

(* The planner's own invariant: its types, and one line in progress. *)
PlannerInv == PlannerTypeOK /\ OneAtATime

Resting == Final \cup {"Queued", "Skipped"}
Lights == {"Idle", "Busy", "Ok", "Error"}

(* What a handler passes to advanceToNextLine(): no line is in progress. *)
Settled(labels, lights) ==
    /\ labels \in [Lines -> Labels] /\ lights \in [Lines -> Lights]
    /\ \A l \in Lines : labels[l] \in Resting /\ lights[l] # "Busy"

(* The members that the planner's own invariant is about, in their types. *)
OwnType ==
    /\ running \in BOOLEAN /\ started \in BOOLEAN /\ devices \in BOOLEAN
    /\ asking \in BOOLEAN
    /\ current \in Lines
    /\ waiting \in [{"duration", "navigator", "sequence"} -> BOOLEAN]
    /\ label \in [Lines -> Labels]
    /\ light \in [Lines -> Lights]

(* startLine() puts one line in progress. *)
LEMMA StartLineWaits ==
    ASSUME NEW l \in Lines, NEW labels, NEW lights, Settled(labels, lights),
           StartLine(l, labels, lights),
           running' = TRUE, started' = TRUE, devices' = FALSE
    PROVE  OwnType' /\ OneAtATime'
  <1>1. /\ label'[l] = "Checking visibility" /\ light'[l] = "Busy"
        /\ \A k \in Lines \ {l} : label'[k] = labels[k] /\ light'[k] = lights[k]
        /\ label' \in [Lines -> Labels] /\ light' \in [Lines -> Lights]
    BY DEF StartLine, Settled, Labels, Lights
  <1>2. current' = l /\ waiting' = For("duration")
    BY DEF StartLine
  <1>3. waiting' \in [{"duration", "navigator", "sequence"} -> BOOLEAN]
    BY <1>2 DEF For
  <1>4. asking' \in BOOLEAN
    <2>1. asking' = ("sequencer" \in loaded)
      BY DEF StartLine
    <2>2. ("sequencer" \in loaded) \in BOOLEAN
      OBVIOUS
    <2> QED BY <2>1, <2>2, Zenon
  <1>5. OwnType'
    BY <1>1, <1>2, <1>3, <1>4 DEF OwnType
  <1>6. OneAtATime'
    BY <1>1, <1>2 DEF OneAtATime, Settled, Resting
  <1> QED BY <1>5, <1>6

(* The scan of advanceToNextLine() stays within the grid. *)
LEMMA AheadInLines ==
    ASSUME current \in Lines, NEW i \in Lines
    PROVE  Ahead(i) \in Lines
  BY PlannerAssumption DEF Ahead, Lines

(* The scan of advanceToNextLine() meets every line of the grid. *)
LEMMA AheadMeetsAll ==
    ASSUME current \in Lines, NEW l \in Lines
    PROVE  \E i \in Lines : Ahead(i) = l
  <1> DEFINE i == IF l > current THEN l - current ELSE l - current + NLines
  <1>1. i \in Lines /\ Ahead(i) = l
    BY PlannerAssumption DEF Ahead, Lines
  <1> QED BY <1>1

(* If the scan finds nothing to do, every line has its verdict. *)
LEMMA NothingWorkable ==
    ASSUME current \in Lines, NEW labels, Workable(labels) = {}
    PROVE  \A l \in Lines : labels[l] \in Final
  BY AheadMeetsAll DEF Workable

(* advanceToNextLine() puts one line in progress, or none and stops. *)
LEMMA AdvanceWaits ==
    ASSUME PlannerInv, running,
           NEW labels, NEW lights, Settled(labels, lights),
           AdvanceToNextLine(labels, lights)
    PROVE  OwnType' /\ OneAtATime'
  <1>0. current \in Lines /\ running = TRUE /\ started = TRUE /\ devices = FALSE
    BY DEF PlannerInv, PlannerTypeOK, OneAtATime
  <1>1. ASSUME NEW i \in Workable(labels),
               StartLine(Ahead(i), labels, lights),
               UNCHANGED <<running, started, devices>>
        PROVE  OwnType' /\ OneAtATime'
    <2>1. Ahead(i) \in Lines
      BY <1>0, AheadInLines DEF Workable
    <2> QED BY <1>0, <1>1, <2>1, StartLineWaits
  <1>2. ASSUME OnOperationComplete, label' = labels, light' = lights,
               waiting' = Nothing, asking' = FALSE, UNCHANGED current
        PROVE  OwnType' /\ OneAtATime'
    <2>1. OwnType'
      BY <1>0, <1>2 DEF OwnType, OnOperationComplete, Settled, Nothing, For
    <2>2. OneAtATime'
      BY <1>2 DEF OneAtATime, OnOperationComplete, Settled
    <2> QED BY <2>1, <2>2
  <1> QED BY <1>1, <1>2 DEF AdvanceToNextLine

(* The three verdicts and a skip leave no line in progress. *)
LEMMA VerdictSettles ==
    ASSUME PlannerInv, running, NEW v \in Resting, NEW c \in Lights \ {"Busy"}
    PROVE  Settled([label EXCEPT ![current] = v], [light EXCEPT ![current] = c])
  BY DEF PlannerInv, PlannerTypeOK, OneAtATime, Settled, Resting, Lights, Labels, Final

(* While it waits for something the planner runs, and its line shows it. *)
LEMMA WaitingShows ==
    ASSUME PlannerInv
    PROVE  /\ waiting["duration"] => running /\ label[current] = "Checking visibility"
           /\ waiting["navigator"] => running /\ label[current] = "Slewing"
           /\ waiting["sequence"] => running /\ label[current] = "Shooting"
  BY DEF PlannerInv, OneAtATime, For, Nothing

-----------------------------------------------------------------------------
(***************************************************************************)
(* The step.                                                               *)
(***************************************************************************)

(* A step in which the planner does nothing keeps its invariant. *)
LEMMA OwnUnchanged ==
    ASSUME PlannerInv, UNCHANGED own
    PROVE  OwnType' /\ OneAtATime' /\ skips' \in [Lines -> Nat]
  <1>1. OwnType'
    BY DEF PlannerInv, PlannerTypeOK, own, OwnType, Lights
  <1>2. OneAtATime'
    BY DEF PlannerInv, OneAtATime, own
  <1> QED BY <1>1, <1>2 DEF PlannerInv, PlannerTypeOK, own

(* The answer of the sequencer to the question for the duration. *)
LEMMA AnswerKeeps ==
    ASSUME PlannerInv, NEW visible \in BOOLEAN, Answer(visible)
    PROVE  OwnType' /\ OneAtATime' /\ skips' \in [Lines -> Nat]
  <1>1. running /\ label[current] = "Checking visibility" /\ current \in Lines
    BY WaitingShows DEF Answer, PlannerInv, PlannerTypeOK
  <1>2. CASE visible
    <2>1. ProceedToSlew
      BY <1>2 DEF Answer
    <2>2. /\ label'[current] = "Slewing" /\ waiting' = For("navigator")
          /\ \A k \in Lines \ {current} : label'[k] = label[k]
          /\ label' \in [Lines -> Labels] /\ asking' = FALSE
          /\ waiting' \in [{"duration", "navigator", "sequence"} -> BOOLEAN]
          /\ UNCHANGED <<running, current, skips, light, started, devices>>
      BY <2>1, <1>1 DEF ProceedToSlew, PlannerInv, PlannerTypeOK, Labels, For
    <2>3. OneAtATime'
      BY <1>1, <2>2 DEF OneAtATime, PlannerInv
    <2>4. OwnType'
      BY <2>2 DEF OwnType, PlannerInv, PlannerTypeOK, Lights
    <2> QED BY <2>2, <2>3, <2>4 DEF PlannerInv, PlannerTypeOK
  <1>3. CASE ~visible
    <2> DEFINE attempts == skips[current] + 1
               v == IF attempts >= MaxRetries THEN "Failed" ELSE "Skipped"
               c == IF attempts >= MaxRetries THEN "Error" ELSE "Idle"
    <2>1. /\ skips' = [skips EXCEPT ![current] = attempts]
          /\ AdvanceToNextLine([label EXCEPT ![current] = v], [light EXCEPT ![current] = c])
      BY <1>3 DEF Answer, SkipLine
    <2>2. v \in Resting /\ c \in Lights \ {"Busy"}
      BY DEF Resting, Lights, Final
    <2>3. Settled([label EXCEPT ![current] = v], [light EXCEPT ![current] = c])
      BY <1>1, <2>2, VerdictSettles
    <2>4. skips' \in [Lines -> Nat]
      <3>1. skips \in [Lines -> Nat] /\ current \in Lines
        BY DEF PlannerInv, PlannerTypeOK
      <3>2. attempts \in Nat
        BY <3>1
      <3>3. skips' = [skips EXCEPT ![current] = attempts]
        BY <2>1
      <3> HIDE DEF v, c, attempts
      <3> QED BY <3>1, <3>2, <3>3
    <2> HIDE DEF v, c
    <2> QED BY <1>1, <2>1, <2>3, <2>4, AdvanceWaits
  <1> QED BY <1>2, <1>3

(* The navigator's "ready". *)
LEMMA NavigatorReadyKeeps ==
    ASSUME PlannerInv, NavigatorReady
    PROVE  OwnType' /\ OneAtATime' /\ skips' \in [Lines -> Nat]
  <1>1. CASE waiting["navigator"]
    <2>1. running /\ current \in Lines
      BY <1>1, WaitingShows DEF PlannerInv, PlannerTypeOK
    <2>2. NavigatorComplete
      BY <1>1 DEF NavigatorReady
    <2>3. /\ label'[current] = "Shooting" /\ waiting' = For("sequence")
          /\ \A k \in Lines \ {current} : label'[k] = label[k]
          /\ label' \in [Lines -> Labels]
          /\ waiting' \in [{"duration", "navigator", "sequence"} -> BOOLEAN]
          /\ UNCHANGED <<running, current, skips, light, started, devices, asking>>
      BY <2>1, <2>2 DEF NavigatorComplete, PlannerInv, PlannerTypeOK, Labels, For
    <2>4. OneAtATime'
      BY <2>1, <2>3 DEF OneAtATime, PlannerInv
    <2>5. OwnType'
      BY <2>3 DEF OwnType, PlannerInv, PlannerTypeOK, Lights
    <2> QED BY <2>3, <2>4, <2>5 DEF PlannerInv, PlannerTypeOK
  <1>2. CASE ~waiting["navigator"]
    BY <1>2, OwnUnchanged DEF NavigatorReady
  <1> QED BY <1>1, <1>2

(* The sequencer's two "ready"s. *)
LEMMA SequenceEndKeeps ==
    ASSUME PlannerInv, SequenceDone \/ SequenceAborted
    PROVE  OwnType' /\ OneAtATime' /\ skips' \in [Lines -> Nat]
  <1>1. CASE waiting["sequence"]
    <2>1. running
      BY <1>1, WaitingShows
    <2>2. /\ Settled([label EXCEPT ![current] = "Finished"], [light EXCEPT ![current] = "Ok"])
          /\ Settled([label EXCEPT ![current] = "Cancelled"], [light EXCEPT ![current] = "Error"])
      BY <2>1, VerdictSettles DEF Resting, Final, Lights
    <2>3. SequenceComplete \/ SequenceCancelled
      BY <1>1 DEF SequenceDone, SequenceAborted
    <2>4. UNCHANGED skips
      BY <2>3 DEF SequenceComplete, SequenceCancelled
    <2>5. CASE SequenceComplete
      BY <2>1, <2>2, <2>4, <2>5, AdvanceWaits
      DEF SequenceComplete, PlannerInv, PlannerTypeOK
    <2>6. CASE SequenceCancelled
      BY <2>1, <2>2, <2>4, <2>6, AdvanceWaits
      DEF SequenceCancelled, PlannerInv, PlannerTypeOK
    <2> QED BY <2>3, <2>5, <2>6
  <1>2. CASE ~waiting["sequence"]
    BY <1>2, OwnUnchanged DEF SequenceDone, SequenceAborted
  <1> QED BY <1>1, <1>2

(* Start and stop. *)
LEMMA CommandKeeps ==
    ASSUME PlannerInv, Commands
    PROVE  OwnType' /\ OneAtATime' /\ skips' \in [Lines -> Nat]
  <1>1. CASE StartPlanner
    <2>1. Settled([l \in Lines |-> "Queued"], [l \in Lines |-> "Idle"])
      BY DEF Settled, Labels, Lights, Resting
    <2>2. 1 \in Lines
      BY PlannerAssumption DEF Lines
    <2>3. skips' \in [Lines -> Nat]
      BY <1>1 DEF StartPlanner
    <2> QED BY <1>1, <2>1, <2>2, <2>3, StartLineWaits DEF StartPlanner, FirstLine
  <1>2. CASE AbortPlanner
    <2>1. UNCHANGED <<current, skips, label, asking>> /\ started' = FALSE
      BY <1>2 DEF AbortPlanner
    <2>2. CASE running
      <3>1. /\ running' = FALSE /\ waiting' = Nothing /\ devices' = TRUE
            /\ light' = [light EXCEPT ![current] = "Error"]
        BY <1>2, <2>2 DEF AbortPlanner
      <3>2. /\ light' \in [Lines -> Lights] /\ \A l \in Lines : light'[l] # "Busy"
            /\ waiting' \in [{"duration", "navigator", "sequence"} -> BOOLEAN]
        BY <3>1, <2>2 DEF PlannerInv, PlannerTypeOK, OneAtATime, Lights, Nothing, For
      <3>3. OwnType'
        BY <2>1, <3>1, <3>2 DEF OwnType, PlannerInv, PlannerTypeOK
      <3>4. OneAtATime'
        BY <2>1, <3>1, <3>2 DEF OneAtATime
      <3> QED BY <2>1, <3>3, <3>4 DEF PlannerInv, PlannerTypeOK
    <2>3. CASE ~running
      <3>1. UNCHANGED <<running, waiting, light, devices>>
        BY <1>2, <2>3 DEF AbortPlanner
      <3>2. UNCHANGED own
        BY <2>1, <2>3, <3>1 DEF own, PlannerInv, PlannerTypeOK, OneAtATime
      <3> QED BY <3>2, OwnUnchanged
    <2> QED BY <2>2, <2>3
  <1> QED BY <1>1, <1>2 DEF Commands, StartRefused, StopPlanner

(* Every step keeps the types of what the planner talks to. *)
LEMMA SlavesStep ==
    ASSUME PlannerInv, [Next]_vars
    PROVE  /\ sequencer' \in {"idle", "busy", "aborting"}
           /\ navigator' \in {"idle", "busy"}
           /\ loaded' \subseteq Slaves /\ operated' \subseteq Operated
  <1> USE DEF PlannerInv, PlannerTypeOK, modules
  <1>1. CASE Commands
    BY <1>1 DEF Commands, StartPlanner, StartRefused, StopPlanner, AbortPlanner,
       AbortSequence, AbortNavigator, slaves
  <1>2. ASSUME NEW visible \in BOOLEAN, Answer(visible)
        PROVE  /\ UNCHANGED <<sequencer, loaded, operated>>
               /\ navigator' \in {"idle", "busy"}
    BY <1>2 DEF Answer, ProceedToSlew, GoesToTarget, slaves
  <1>3. CASE NavigatorReady \/ NavigatorFails
    BY <1>3 DEF NavigatorReady, NavigatorFails, NavigatorComplete, StartsSequence
  <1>4. CASE SequenceDone \/ SequenceAborted \/ SequenceFails
    BY <1>4 DEF SequenceDone, SequenceAborted, SequenceFails
  <1>5. CASE UserOfSequencer \/ UserOfNavigator
    BY <1>5 DEF UserOfSequencer, UserOfNavigator, StartsSequence, AbortSequence,
       GoesToTarget, AbortNavigator
  <1>6. ASSUME NEW m \in Slaves, Unload(m) \/ Load(m)
        PROVE  /\ sequencer' \in {"idle", "busy", "aborting"}
               /\ navigator' \in {"idle", "busy"}
               /\ loaded' \subseteq Slaves /\ operated' \subseteq Operated
    BY <1>6 DEF Unload, Load, slaves
  <1>7. CASE UNCHANGED vars
    BY <1>7 DEF vars
  <1> QED BY <1>1, <1>2, <1>3, <1>4, <1>5, <1>6, <1>7 DEF Next, Reports, Others

(* Every step keeps the planner's own invariant. *)
LEMMA PlannerStep == PlannerInv /\ [Next]_vars => PlannerInv'
  <1> SUFFICES ASSUME PlannerInv, [Next]_vars PROVE PlannerInv'
    OBVIOUS
  <1>1. CASE UNCHANGED own
    BY <1>1, OwnUnchanged, SlavesStep DEF PlannerInv, PlannerTypeOK, OwnType, Lights
  <1>2. CASE Commands
    BY <1>2, CommandKeeps, SlavesStep DEF PlannerInv, PlannerTypeOK, OwnType, Lights
  <1>3. ASSUME NEW visible \in BOOLEAN, Answer(visible) PROVE PlannerInv'
    BY <1>3, AnswerKeeps, SlavesStep DEF PlannerInv, PlannerTypeOK, OwnType, Lights
  <1>4. CASE NavigatorReady
    BY <1>4, NavigatorReadyKeeps, SlavesStep DEF PlannerInv, PlannerTypeOK, OwnType, Lights
  <1>5. CASE SequenceDone \/ SequenceAborted
    BY <1>5, SequenceEndKeeps, SlavesStep DEF PlannerInv, PlannerTypeOK, OwnType, Lights
  <1>6. NavigatorFails \/ SequenceFails \/ Others \/ UNCHANGED vars => UNCHANGED own
    BY DEF NavigatorFails, SequenceFails, Others, UserOfSequencer, UserOfNavigator,
       Unload, Load, vars, own
  <1> QED BY <1>1, <1>2, <1>3, <1>4, <1>5, <1>6 DEF Next, Reports

(* The planner is built with nothing to do. *)
LEMMA PlannerInit == Init => PlannerInv
  <1> SUFFICES ASSUME Init PROVE PlannerInv
    OBVIOUS
  <1>1. 1 \in Lines
    BY PlannerAssumption DEF Lines
  <1>2. PlannerTypeOK
    BY <1>1 DEF Init, PlannerTypeOK, Labels, Nothing, For, Slaves
  <1>3. OneAtATime
    BY DEF Init, OneAtATime
  <1> QED BY <1>2, <1>3 DEF PlannerInv

(* In every run one line is in progress, the planner waits for the answer   *)
(* that this line needs and for no other, and a planner that has stopped    *)
(* leaves no line, button or property behind (the waiting flags and the     *)
(* lights of planner.cpp); and every variable has its type.                 *)
THEOREM WaitsForItsLine == Spec => [](PlannerTypeOK /\ OneAtATime)
  <1>1. Init => PlannerInv
    BY PlannerInit
  <1>2. PlannerInv /\ [Next]_vars => PlannerInv'
    BY PlannerStep
  <1> QED BY <1>1, <1>2, PTL DEF Spec, PlannerInv

(* Its types alone: indices stay within the grid and the labels are those of
   liveplanning, whatever the slaves report. *)
THEOREM PlannerTypes == Spec => []PlannerTypeOK
  BY WaitsForItsLine, PTL

-----------------------------------------------------------------------------
(***************************************************************************)
(* Nothing goes on unattended.                                             *)
(***************************************************************************)

(* A slave that others operate is not spoken of.  *)
LEMMA Attends ==
    ASSUME NothingUnattended
    PROVE  /\ ~waiting["navigator"] /\ "navigator" \notin operated => navigator # "busy"
           /\ ~waiting["sequence"] /\ "sequencer" \notin operated => sequencer # "busy"
  BY DEF NothingUnattended

(* The step: whoever operates one slave does not touch the other. *)
LEMMA AttendedStep ==
    ASSUME PlannerInv, NothingUnattended, [Next]_vars
    PROVE  NothingUnattended'
  <1> USE DEF modules
  <1> DEFINE Idle == /\ "navigator" \notin operated => navigator # "busy"
                     /\ "sequencer" \notin operated => sequencer # "busy"
  <1>1. CASE Commands
    <2>1. CASE StartPlanner
      <3>1. waiting = Nothing
        BY <2>1 DEF StartPlanner, PlannerInv, OneAtATime
      <3>2. Idle
        BY <3>1, Attends DEF Nothing, For
      <3> QED BY <2>1, <3>2 DEF StartPlanner, slaves, NothingUnattended
    <2>2. CASE AbortPlanner
      BY <2>2 DEF AbortPlanner, AbortSequence, AbortNavigator, NothingUnattended
    <2> QED BY <1>1, <2>1, <2>2 DEF Commands, StartRefused, StopPlanner
  <1>2. ASSUME NEW visible \in BOOLEAN, Answer(visible) PROVE NothingUnattended'
    <2>1. waiting = For("duration")
      BY <1>2, WaitingShows DEF Answer, PlannerInv, OneAtATime
    <2>2. Idle
      BY <2>1, Attends DEF For
    <2>3. UNCHANGED operated
      BY <1>2 DEF Answer
    <2>4. CASE ProceedToSlew
      BY <2>2, <2>3, <2>4 DEF ProceedToSlew, For, NothingUnattended
    <2>5. CASE UNCHANGED slaves
      BY <2>2, <2>3, <2>5 DEF slaves, NothingUnattended
    <2> QED BY <1>2, <2>4, <2>5 DEF Answer
  <1>3. CASE NavigatorReady
    <2>1. CASE waiting["navigator"]
      BY <1>3, <2>1 DEF NavigatorReady, NavigatorComplete, For, NothingUnattended
    <2>2. CASE ~waiting["navigator"]
      BY <1>3, <2>2 DEF NavigatorReady, own, NothingUnattended
    <2> QED BY <2>1, <2>2
  <1>4. CASE NavigatorFails
    BY <1>4 DEF NavigatorFails, own, NothingUnattended
  <1>5. CASE SequenceDone \/ SequenceAborted
    <2>1. sequencer' = "idle" /\ UNCHANGED <<navigator, operated>>
      BY <1>5 DEF SequenceDone, SequenceAborted
    <2>2. CASE waiting["sequence"]
      <3>1. waiting = For("sequence")
        BY <2>2, WaitingShows DEF PlannerInv, OneAtATime
      <3>2. "navigator" \notin operated => navigator # "busy"
        BY <3>1, Attends DEF For
      <3> QED BY <2>1, <3>2 DEF NothingUnattended
    <2>3. CASE ~waiting["sequence"]
      BY <1>5, <2>1, <2>3 DEF SequenceDone, SequenceAborted, own, NothingUnattended
    <2> QED BY <2>2, <2>3
  <1>6. CASE SequenceFails
    BY <1>6 DEF SequenceFails, own, NothingUnattended
  <1>7. CASE Others
    <2>1. CASE UserOfSequencer
      BY <2>1 DEF UserOfSequencer, own, NothingUnattended
    <2>2. CASE UserOfNavigator
      BY <2>2 DEF UserOfNavigator, own, NothingUnattended
    <2>3. ASSUME NEW m \in Slaves, Unload(m) \/ Load(m) PROVE NothingUnattended'
      BY <2>3 DEF Unload, Load, own, slaves, NothingUnattended
    <2> QED BY <1>7, <2>1, <2>2, <2>3 DEF Others
  <1>8. CASE UNCHANGED vars
    BY <1>8 DEF vars, own, slaves, NothingUnattended
  <1> QED BY <1>1, <1>2, <1>3, <1>4, <1>5, <1>6, <1>7, <1>8 DEF Next, Reports

(* A slave that no user operated never works while the planner does not wait *)
(* for it, in particular not after abortPlanner() and onOperationComplete(), *)
(* whatever the other slave does and whoever operated that one.              *)
THEOREM SlavesAreAttended == Spec => []NothingUnattended
  <1>1. Init => PlannerInv /\ NothingUnattended
    BY PlannerInit DEF Init, NothingUnattended
  <1>2. PlannerInv /\ NothingUnattended /\ [Next]_vars => PlannerInv' /\ NothingUnattended'
    BY PlannerStep, AttendedStep
  <1> QED BY <1>1, <1>2, PTL DEF Spec

-----------------------------------------------------------------------------
(***************************************************************************)
(* The planner implements Planning.                                        *)
(***************************************************************************)

(* What the next line shows does not touch a verdict. *)
LEMMA AdvanceFates ==
    ASSUME PlannerInv, running,
           NEW labels, NEW lights, Settled(labels, lights),
           AdvanceToNextLine(labels, lights)
    PROVE  /\ \A l \in Lines : Fate(label'[l]) = Fate(labels[l])
           /\ running' = ~ \A l \in Lines : labels[l] \in Final
  <1>0. current \in Lines /\ running = TRUE
    BY DEF PlannerInv, PlannerTypeOK
  <1>1. ASSUME NEW i \in Workable(labels),
               StartLine(Ahead(i), labels, lights), UNCHANGED running
        PROVE  /\ \A l \in Lines : Fate(label'[l]) = Fate(labels[l])
               /\ running' = TRUE /\ ~ \A l \in Lines : labels[l] \in Final
    <2>1. Ahead(i) \in Lines /\ labels[Ahead(i)] \notin Final
      BY <1>0, AheadInLines DEF Workable
    <2>2. label' = [labels EXCEPT ![Ahead(i)] = "Checking visibility"]
      BY <1>1 DEF StartLine
    <2>3. labels[Ahead(i)] # "Shooting" /\ labels \in [Lines -> Labels]
      BY <2>1 DEF Settled, Resting, Final
    <2>4. ASSUME NEW l \in Lines PROVE Fate(label'[l]) = Fate(labels[l])
      BY <2>1, <2>2, <2>3 DEF Fate, Final
    <2> QED BY <1>0, <1>1, <2>1, <2>4
  <1>2. CASE Workable(labels) = {} /\ OnOperationComplete /\ label' = labels
    BY <1>0, <1>2, NothingWorkable DEF OnOperationComplete
  <1>3. CASE \E i \in Workable(labels) :
                 StartLine(Ahead(i), labels, lights) /\ UNCHANGED running
    BY <1>1, <1>3
  <1>4. \/ Workable(labels) = {} /\ OnOperationComplete /\ label' = labels
        \/ \E i \in Workable(labels) :
               StartLine(Ahead(i), labels, lights) /\ UNCHANGED running
    BY DEF AdvanceToNextLine
  <1> QED BY <1>2, <1>3, <1>4

(* A verdict on the line in progress is a verdict of the planning. *)
LEMMA VerdictJudges ==
    ASSUME PlannerInv, running, NEW v \in Final, NEW c \in Lights \ {"Busy"},
           v = "Failed" => label[current] = "Checking visibility",
           v # "Failed" => label[current] = "Shooting",
           AdvanceToNextLine([label EXCEPT ![current] = v], [light EXCEPT ![current] = c])
    PROVE  Promise!Judge(current)
  <1> DEFINE labels == [label EXCEPT ![current] = v]
             fate == [l \in Lines |-> Fate(label[l])]
  <1>0. current \in Lines /\ label \in [Lines -> Labels]
    BY DEF PlannerInv, PlannerTypeOK
  <1>1. Settled(labels, [light EXCEPT ![current] = c])
    BY VerdictSettles DEF Resting
  <1>2. /\ \A l \in Lines : Fate(label'[l]) = Fate(labels[l])
        /\ running' = ~ \A l \in Lines : labels[l] \in Final
    <2> HIDE DEF labels
    <2> QED BY <1>1, AdvanceFates DEF labels
  <1>3. fate' = [fate EXCEPT ![current] = v]
    BY <1>0, <1>2 DEF Fate, Final
  <1>4. \A l \in Lines : fate'[l] \in Promise!Verdicts <=> labels[l] \in Final
    BY <1>2 DEF Fate, Final, Promise!Verdicts
  <1>5. \/ fate[current] = "shooting" /\ v \in {"Finished", "Cancelled"}
        \/ fate[current] = "open" /\ v = "Failed"
    BY <1>0 DEF Fate, Final
  <1> HIDE DEF labels, fate
  <1>6. (IF running' THEN "running" ELSE "stopped") =
            IF \A l \in Lines : fate'[l] \in Promise!Verdicts THEN "stopped" ELSE "running"
    BY <1>2, <1>4
  <1>7. (IF running THEN "running" ELSE "stopped") = "running"
    OBVIOUS
  <1>8. CASE fate[current] = "shooting" /\ v \in {"Finished", "Cancelled"}
    BY <1>3, <1>6, <1>7, <1>8 DEF Promise!Judge, fate
  <1>9. CASE fate[current] = "open" /\ v = "Failed"
    BY <1>3, <1>6, <1>7, <1>9 DEF Promise!Judge, fate
  <1> QED BY <1>5, <1>8, <1>9

(* A target that is skipped stays open. *)
LEMMA SkipStutters ==
    ASSUME PlannerInv, running, label[current] = "Checking visibility",
           NEW c \in Lights \ {"Busy"},
           AdvanceToNextLine([label EXCEPT ![current] = "Skipped"],
                             [light EXCEPT ![current] = c])
    PROVE  UNCHANGED Promise!vars
  <1> DEFINE labels == [label EXCEPT ![current] = "Skipped"]
  <1>0. current \in Lines /\ label \in [Lines -> Labels]
    BY DEF PlannerInv, PlannerTypeOK
  <1>1. Settled(labels, [light EXCEPT ![current] = c])
    BY VerdictSettles DEF Resting
  <1>2. /\ \A l \in Lines : Fate(label'[l]) = Fate(labels[l])
        /\ running' = ~ \A l \in Lines : labels[l] \in Final
    <2> HIDE DEF labels
    <2> QED BY <1>1, AdvanceFates DEF labels
  <1>3. \A l \in Lines : Fate(labels[l]) = Fate(label[l])
    BY <1>0 DEF Fate, Final
  <1>4. labels[current] \notin Final
    BY <1>0 DEF Final
  <1> QED BY <1>0, <1>2, <1>3, <1>4 DEF Promise!vars

(* Every step of the planner is one of a planning, or none. *)
LEMMA PlanningStep ==
    ASSUME PlannerInv, [Next]_vars
    PROVE  [Promise!Next]_Promise!vars
  <1> USE DEF PlannerInv, PlannerTypeOK
  <1>1. CASE UNCHANGED own
    BY <1>1 DEF own, Promise!vars
  <1>2. CASE StartPlanner
    <2>1. \A l \in Lines : Fate(label'[l]) = "open"
      BY <1>2 DEF StartPlanner, FirstLine, StartLine, Fate, Final
    <2>2. ~running /\ running' = TRUE
      BY <1>2 DEF StartPlanner
    <2>3. Promise!Begin
      BY <2>1, <2>2 DEF Promise!Begin
    <2> QED BY <2>3 DEF Promise!Next
  <1>3. CASE AbortPlanner
    <2>1. CASE running
      <3>1. Promise!Stop
        BY <1>3, <2>1 DEF AbortPlanner, Promise!Stop
      <3> QED BY <3>1 DEF Promise!Next
    <2>2. CASE ~running
      BY <1>3, <2>2 DEF AbortPlanner, Promise!vars
    <2> QED BY <2>1, <2>2
  <1>4. ASSUME NEW visible \in BOOLEAN, Answer(visible)
        PROVE  [Promise!Next]_Promise!vars
    <2>1. running /\ label[current] = "Checking visibility"
      BY <1>4, WaitingShows DEF Answer
    <2>2. CASE ProceedToSlew
      <3>1. \A l \in Lines : Fate(label'[l]) = Fate(label[l])
        BY <2>1, <2>2 DEF ProceedToSlew, Fate, Final
      <3>2. UNCHANGED running
        BY <2>2 DEF ProceedToSlew
      <3> QED BY <3>1, <3>2 DEF Promise!vars
    <2>3. CASE SkipLine
      <3>1. CASE skips[current] + 1 >= MaxRetries
        <4>1. AdvanceToNextLine([label EXCEPT ![current] = "Failed"],
                                [light EXCEPT ![current] = "Error"])
          BY <2>3, <3>1 DEF SkipLine
        <4>2. Promise!Judge(current)
          BY <2>1, <4>1, VerdictJudges DEF Final, Lights
        <4> QED BY <4>2 DEF Promise!Next
      <3>2. CASE ~(skips[current] + 1 >= MaxRetries)
        <4>1. AdvanceToNextLine([label EXCEPT ![current] = "Skipped"],
                                [light EXCEPT ![current] = "Idle"])
          BY <2>3, <3>2 DEF SkipLine
        <4> QED BY <2>1, <4>1, SkipStutters DEF Lights
      <3> QED BY <3>1, <3>2
    <2> QED BY <1>4, <2>2, <2>3 DEF Answer
  <1>5. CASE NavigatorReady /\ waiting["navigator"]
    <2>1. running /\ label[current] = "Slewing" /\ NavigatorComplete
      BY <1>5, WaitingShows DEF NavigatorReady
    <2>2. \A l \in Lines : Fate(label[l]) # "shooting"
      BY <2>1 DEF OneAtATime, Fate, Final
    <2>3. Fate(label[current]) = "open"
      BY <2>1 DEF Fate, Final
    <2>4. /\ [l \in Lines |-> Fate(label'[l])] =
               [[l \in Lines |-> Fate(label[l])] EXCEPT ![current] = "shooting"]
          /\ UNCHANGED running
      BY <2>1 DEF NavigatorComplete, Fate, Final
    <2>5. Promise!Shoot(current)
      BY <2>1, <2>2, <2>3, <2>4 DEF Promise!Shoot
    <2> QED BY <2>5 DEF Promise!Next
  <1>6. CASE (SequenceDone \/ SequenceAborted) /\ waiting["sequence"]
    <2>1. running /\ label[current] = "Shooting"
      BY <1>6, WaitingShows
    <2>2. CASE SequenceComplete
      <3>1. Promise!Judge(current)
        BY <2>1, <2>2, VerdictJudges DEF SequenceComplete, Final, Lights
      <3> QED BY <3>1 DEF Promise!Next
    <2>3. CASE SequenceCancelled
      <3>1. Promise!Judge(current)
        BY <2>1, <2>3, VerdictJudges DEF SequenceCancelled, Final, Lights
      <3> QED BY <3>1 DEF Promise!Next
    <2> QED BY <1>6, <2>2, <2>3 DEF SequenceDone, SequenceAborted
  <1>7. \/ NavigatorReady /\ ~waiting["navigator"]
        \/ (SequenceDone \/ SequenceAborted) /\ ~waiting["sequence"]
        \/ NavigatorFails \/ SequenceFails \/ Others \/ UNCHANGED vars
        => UNCHANGED own
    BY DEF NavigatorReady, SequenceDone, SequenceAborted, NavigatorFails, SequenceFails,
       Others, UserOfSequencer, UserOfNavigator, Unload, Load, vars, own
  <1> QED BY <1>1, <1>2, <1>3, <1>4, <1>5, <1>6, <1>7
      DEF Next, Reports, Commands, StartRefused, StopPlanner

(* The planner implements Planning for every grid: each target is shot at   *)
(* most once and gets one verdict, and the planning stops by itself exactly *)
(* when the last verdict is in.                                             *)
THEOREM ImplementsPlanning == Spec => KeepsPlan
  <1>1. Init => Promise!Init
    BY DEF Init, Promise!Init, Fate, Final
  <1>2. PlannerInv /\ [Next]_vars => [Promise!Next]_Promise!vars
    BY PlanningStep
  <1>3. Spec => []PlannerInv
    <2>1. Init => PlannerInv
      BY PlannerInit
    <2>2. PlannerInv /\ [Next]_vars => PlannerInv'
      BY PlannerStep
    <2> QED BY <2>1, <2>2, PTL DEF Spec
  <1> QED BY <1>1, <1>2, <1>3, PTL DEF Spec, KeepsPlan, Promise!Spec

-----------------------------------------------------------------------------
(***************************************************************************)
(* Turns.                                                                  *)
(***************************************************************************)

(* A line that is still open is not passed over by the scan: it lies beyond *)
(* the next line, or, in the order of the scan, before the current one.     *)
LEMMA ScanPassesOverNone ==
    ASSUME current \in Lines, NEW labels, NEW i \in Workable(labels),
           \A j \in Workable(labels) : i <= j,
           NEW k \in Lines, labels[k] \notin Final
    PROVE  IF Ahead(i) > current THEN k <= current \/ Ahead(i) <= k
                                 ELSE Ahead(i) <= k /\ k <= current
  <1> DEFINE d == IF k > current THEN k - current ELSE k - current + NLines
  <1>1. d \in Lines /\ Ahead(d) = k
    BY PlannerAssumption DEF Ahead, Lines
  <1>2. i \in Lines /\ i <= d
    BY <1>1 DEF Workable
  <1> QED BY <1>2, PlannerAssumption DEF Ahead, Lines

(* The lines up to the current one had their turn in this round. *)
HadTheirTurn(labels, counts) ==
    \A i, j \in {l \in Lines : labels[l] \notin Final} :
        i < j => counts[i] = counts[j] + IF i <= current /\ current < j THEN 1 ELSE 0

(* advanceToNextLine() goes on in turn. *)
LEMMA AdvanceTakesTurns ==
    ASSUME PlannerInv, running,
           NEW labels, NEW lights, Settled(labels, lights),
           AdvanceToNextLine(labels, lights),
           HadTheirTurn(labels, skips')
    PROVE  TakesTurns'
  <1>0. current \in Lines
    BY DEF PlannerInv, PlannerTypeOK
  <1>1. ASSUME NEW n \in Workable(labels), \A j \in Workable(labels) : n <= j,
               StartLine(Ahead(n), labels, lights)
        PROVE  TakesTurns'
    <2> DEFINE next == Ahead(n)
    <2>1. next \in Lines /\ labels[next] \notin Final
      BY <1>0, AheadInLines DEF Workable
    <2>2. current' = next /\ label' = [labels EXCEPT ![next] = "Checking visibility"]
      BY <1>1 DEF StartLine
    <2>3. \A l \in Lines : label'[l] \notin Final => labels[l] \notin Final
      BY <2>1, <2>2 DEF Settled, Final
    <2>4. ASSUME NEW k \in Lines, labels[k] \notin Final
          PROVE  IF next > current THEN k <= current \/ next <= k
                                   ELSE next <= k /\ k <= current
      BY <1>0, <1>1, <2>4, ScanPassesOverNone
    <2> HIDE DEF next
    <2>5. ASSUME NEW i \in Lines, NEW j \in Lines, i < j,
                 labels[i] \notin Final, labels[j] \notin Final
          PROVE  skips'[i] = skips'[j] + IF i < next /\ next <= j THEN 1 ELSE 0
      <3>1. skips'[i] = skips'[j] + IF i <= current /\ current < j THEN 1 ELSE 0
        BY <2>5 DEF HadTheirTurn
      <3>2. (i < next /\ next <= j) <=> (i <= current /\ current < j)
        BY <1>0, <2>1, <2>4, <2>5 DEF Lines
      <3> QED BY <3>1, <3>2
    <2> QED BY <2>2, <2>3, <2>5 DEF TakesTurns
  <1>2. CASE OnOperationComplete
    BY <1>2 DEF OnOperationComplete, TakesTurns
  <1> QED BY <1>1, <1>2 DEF AdvanceToNextLine

(* A step in which the planner does nothing keeps the turns. *)
LEMMA TurnsUnchanged ==
    ASSUME TakesTurns, UNCHANGED <<running, current, skips>>,
           \A l \in Lines : label'[l] \in Final <=> label[l] \in Final
    PROVE  TakesTurns'
  BY DEF TakesTurns

(* A verdict on the current line ends its turn. *)
LEMMA VerdictEndsTurn ==
    ASSUME PlannerInv, running, TakesTurns, NEW v \in Final,
           \A l \in Lines \ {current} : skips'[l] = skips[l]
    PROVE  HadTheirTurn([label EXCEPT ![current] = v], skips')
  <1>0. current \in Lines /\ label \in [Lines -> Labels]
    BY DEF PlannerInv, PlannerTypeOK
  <1>1. ASSUME NEW i \in Lines, NEW j \in Lines, i < j,
               [label EXCEPT ![current] = v][i] \notin Final,
               [label EXCEPT ![current] = v][j] \notin Final
        PROVE  skips'[i] = skips'[j] + IF i <= current /\ current < j THEN 1 ELSE 0
    <2>1. /\ i # current /\ j # current
          /\ label[i] \notin Final /\ label[j] \notin Final
      BY <1>0, <1>1
    <2>2. skips[i] = skips[j] + IF i < current /\ current <= j THEN 1 ELSE 0
      BY <1>1, <2>1 DEF TakesTurns
    <2>3. (i < current /\ current <= j) <=> (i <= current /\ current < j)
      BY <1>0, <2>1 DEF Lines
    <2> QED BY <2>1, <2>2, <2>3
  <1> QED BY <1>1 DEF HadTheirTurn

(* So does a skip, which counts. *)
LEMMA SkipEndsTurn ==
    ASSUME PlannerInv, running, TakesTurns, label[current] \notin Final,
           NEW s \in Nat, s = skips[current], skips'[current] = s + 1,
           \A l \in Lines \ {current} : skips'[l] = skips[l]
    PROVE  HadTheirTurn([label EXCEPT ![current] = "Skipped"], skips')
  <1>0. current \in Lines /\ label \in [Lines -> Labels] /\ skips \in [Lines -> Nat]
    BY DEF PlannerInv, PlannerTypeOK
  <1>1. ASSUME NEW i \in Lines, NEW j \in Lines, i < j,
               [label EXCEPT ![current] = "Skipped"][i] \notin Final,
               [label EXCEPT ![current] = "Skipped"][j] \notin Final
        PROVE  skips'[i] = skips'[j] + IF i <= current /\ current < j THEN 1 ELSE 0
    <2>1. label[i] \notin Final /\ label[j] \notin Final
      BY <1>0, <1>1 DEF Final
    <2>2. skips[i] = skips[j] + IF i < current /\ current <= j THEN 1 ELSE 0
      BY <1>1, <2>1 DEF TakesTurns
    <2>3. i \in Int /\ j \in Int /\ current \in Int /\ skips[i] \in Nat /\ skips[j] \in Nat
      BY <1>0 DEF Lines
    <2>4. CASE i = current
      <3>1. skips[i] = skips[j] /\ skips'[j] = skips[j] /\ skips'[i] = s + 1 /\ skips[i] = s
        BY <1>1, <2>2, <2>3, <2>4
      <3> QED BY <1>1, <2>3, <2>4, <3>1
    <2>5. CASE j = current
      <3>1. skips[i] = skips[j] + 1 /\ skips'[j] = s + 1 /\ skips[j] = s /\ skips'[i] = skips[i]
        BY <1>1, <2>2, <2>3, <2>5
      <3> QED BY <1>1, <2>3, <2>5, <3>1
    <2>6. CASE i # current /\ j # current
      <3>1. skips'[j] = skips[j] /\ skips'[i] = skips[i]
        BY <2>6
      <3> QED BY <1>1, <2>2, <2>3, <2>6, <3>1
    <2> QED BY <2>4, <2>5, <2>6
  <1> QED BY <1>1 DEF HadTheirTurn

(* The step. *)
LEMMA TurnsStep ==
    ASSUME PlannerInv, TakesTurns, [Next]_vars
    PROVE  TakesTurns'
  <1>0. current \in Lines /\ label \in [Lines -> Labels]
    BY DEF PlannerInv, PlannerTypeOK
  <1>1. CASE UNCHANGED own
    BY <1>1, TurnsUnchanged DEF own
  <1>2. CASE StartPlanner
    <2>1. current' = 1 /\ skips' = [l \in Lines |-> 0]
      BY <1>2 DEF StartPlanner, FirstLine, StartLine
    <2>2. ASSUME NEW i \in Lines, NEW j \in Lines, i < j
          PROVE  skips'[i] = skips'[j] + IF i < current' /\ current' <= j THEN 1 ELSE 0
      BY <2>1, <2>2 DEF Lines
    <2> QED BY <2>2 DEF TakesTurns
  <1>3. CASE AbortPlanner
    BY <1>3 DEF AbortPlanner, TakesTurns
  <1>4. ASSUME NEW visible \in BOOLEAN, Answer(visible) PROVE TakesTurns'
    <2>1. running /\ label[current] = "Checking visibility"
      BY <1>4, WaitingShows DEF Answer
    <2>2. CASE ProceedToSlew
      BY <1>0, <2>1, <2>2, TurnsUnchanged DEF ProceedToSlew, Final
    <2>3. CASE SkipLine
      <3>0. skips[current] \in Nat
        BY <1>0 DEF PlannerInv, PlannerTypeOK
      <3>1. /\ skips'[current] = skips[current] + 1
            /\ \A l \in Lines \ {current} : skips'[l] = skips[l]
        <4> DEFINE attempts == skips[current] + 1
        <4>1. skips' = [skips EXCEPT ![current] = attempts]
          BY <2>3 DEF SkipLine
        <4> HIDE DEF attempts
        <4>2. skips'[current] = attempts /\ \A l \in Lines \ {current} : skips'[l] = skips[l]
          BY <1>0, <4>1 DEF PlannerInv, PlannerTypeOK
        <4> QED BY <4>2 DEF attempts
      <3>2. CASE skips[current] + 1 >= MaxRetries
        <4>1. AdvanceToNextLine([label EXCEPT ![current] = "Failed"],
                                [light EXCEPT ![current] = "Error"])
          BY <2>3, <3>2 DEF SkipLine
        <4>2. HadTheirTurn([label EXCEPT ![current] = "Failed"], skips')
          BY <2>1, <3>1, VerdictEndsTurn DEF Final
        <4>3. Settled([label EXCEPT ![current] = "Failed"], [light EXCEPT ![current] = "Error"])
          BY <2>1, VerdictSettles DEF Resting, Final, Lights
        <4> QED BY <2>1, <4>1, <4>2, <4>3, AdvanceTakesTurns
      <3>3. CASE ~(skips[current] + 1 >= MaxRetries)
        <4>1. AdvanceToNextLine([label EXCEPT ![current] = "Skipped"],
                                [light EXCEPT ![current] = "Idle"])
          BY <2>3, <3>3 DEF SkipLine
        <4>2. HadTheirTurn([label EXCEPT ![current] = "Skipped"], skips')
          BY <2>1, <3>0, <3>1, SkipEndsTurn DEF Final
        <4>3. Settled([label EXCEPT ![current] = "Skipped"], [light EXCEPT ![current] = "Idle"])
          BY <2>1, VerdictSettles DEF Resting, Lights
        <4> QED BY <2>1, <4>1, <4>2, <4>3, AdvanceTakesTurns
      <3> QED BY <3>2, <3>3
    <2> QED BY <1>4, <2>2, <2>3 DEF Answer
  <1>5. CASE NavigatorReady /\ waiting["navigator"]
    <2>1. running /\ label[current] = "Slewing" /\ NavigatorComplete
      BY <1>5, WaitingShows DEF NavigatorReady
    <2> QED BY <1>0, <2>1, TurnsUnchanged DEF NavigatorComplete, Final
  <1>6. CASE (SequenceDone \/ SequenceAborted) /\ waiting["sequence"]
    <2>1. running
      BY <1>6, WaitingShows
    <2>2. SequenceComplete \/ SequenceCancelled
      BY <1>6 DEF SequenceDone, SequenceAborted
    <2>3. \A l \in Lines \ {current} : skips'[l] = skips[l]
      BY <2>2 DEF SequenceComplete, SequenceCancelled
    <2>4. CASE SequenceComplete
      <3>1. HadTheirTurn([label EXCEPT ![current] = "Finished"], skips')
        BY <2>1, <2>3, VerdictEndsTurn DEF Final
      <3>2. Settled([label EXCEPT ![current] = "Finished"], [light EXCEPT ![current] = "Ok"])
        BY <2>1, VerdictSettles DEF Resting, Final, Lights
      <3> QED BY <2>1, <2>4, <3>1, <3>2, AdvanceTakesTurns DEF SequenceComplete
    <2>5. CASE SequenceCancelled
      <3>1. HadTheirTurn([label EXCEPT ![current] = "Cancelled"], skips')
        BY <2>1, <2>3, VerdictEndsTurn DEF Final
      <3>2. Settled([label EXCEPT ![current] = "Cancelled"], [light EXCEPT ![current] = "Error"])
        BY <2>1, VerdictSettles DEF Resting, Final, Lights
      <3> QED BY <2>1, <2>5, <3>1, <3>2, AdvanceTakesTurns DEF SequenceCancelled
    <2> QED BY <2>2, <2>4, <2>5
  <1>7. \/ NavigatorReady /\ ~waiting["navigator"]
        \/ (SequenceDone \/ SequenceAborted) /\ ~waiting["sequence"]
        \/ NavigatorFails \/ SequenceFails \/ Others \/ UNCHANGED vars
        => UNCHANGED own
    BY DEF NavigatorReady, SequenceDone, SequenceAborted, NavigatorFails, SequenceFails,
       Others, UserOfSequencer, UserOfNavigator, Unload, Load, vars, own
  <1> QED BY <1>1, <1>2, <1>3, <1>4, <1>5, <1>6, <1>7
      DEF Next, Reports, Commands, StartRefused, StopPlanner

(* A skipped line is tried again only when every other open line had its    *)
(* turn, for every grid and number of retries (advanceToNextLine, skipLine).*)
THEOREM LinesTakeTurns == Spec => []TakesTurns
  <1>1. Init => PlannerInv /\ TakesTurns
    BY PlannerInit DEF Init, TakesTurns
  <1>2. PlannerInv /\ TakesTurns /\ [Next]_vars => PlannerInv' /\ TakesTurns'
    BY PlannerStep, TurnsStep
  <1> QED BY <1>1, <1>2, PTL DEF Spec
=============================================================================
