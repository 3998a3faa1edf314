---------------------------- MODULE GuiderProofs ----------------------------
(***************************************************************************)
(* Six properties of the guider, for all values of its constants: a        *)
(* machine that waits is watched, a session that nothing crosses runs one  *)
(* machine at a time, of those it was asked for, an abort is the last      *)
(* thing its devices hear, a calibration computes the rates from passes of *)
(* CalSteps samples, each across one pulse of its direction, the watchdog  *)
(* ends no session whose answers all come in time, and a correction is     *)
(* measured on a frame taken at rest against a reference that still holds. *)
(*                                                                         *)
(* The proof sorts the steps by what they do to the machines, the queue of *)
(* starts and the wires: a step Keeps them, Moves one machine to its next  *)
(* wait, Stops all, Ends one machine and starts those wired to it, or      *)
(* Begins a session.  Each sort preserves the inductive invariant, each    *)
(* action is of one sort.  Three more invariants stand on it: what is read *)
(* and measured (CInv), what the machines wait for (DInv), and what the    *)
(* guiding machine corrects (EInv).                                        *)
(***************************************************************************)
EXTENDS Guider, SequenceTheorems, TLAPS

Starting == {m \in Machines : <<"start", m>> \in posted}

Placed == at \in [Machines -> {"off", "starting", "doomed"} \cup Waits]

(* What is to start has not begun, *)
Queued == \A m \in Starting : at[m] \in {"starting", "doomed"}

(* and the wires are those of one session. *)
Wired ==
    /\ wire \in {{}, {<<"Init", "Cal">>}, {<<"Init", "Guide">>},
                 {<<"Init", "Cal">>, <<"Cal", "Guide">>}}
    /\ asked = "calibrate" => wire \subseteq {<<"Init", "Cal">>}

IInv == Placed /\ Queued /\ Wired /\ WaitsAreWatched /\ OneSession

core == <<at, armed, wire, asked, spoiled>>

Keeps == UNCHANGED core /\ Starting' = Starting

Moves(m, w) ==
    /\ at[m] \in Waits \/ m \in Starting
    /\ at' = [at EXCEPT ![m] = w]
    /\ w \in Waits /\ armed'
    /\ Starting' \subseteq Starting \ {m}
    /\ UNCHANGED <<wire, asked, spoiled>>

Drops(m) ==
    /\ at' = [at EXCEPT ![m] = "off"]
    /\ armed => armed'
    /\ Starting' \subseteq Starting \ {m}
    /\ UNCHANGED <<wire, asked, spoiled>>

Stops(ms) == Disconnects(ms) /\ UNCHANGED <<asked, spoiled>>

Ends(m, rest) ==
    /\ at[m] \in Waits /\ rest \subseteq posted
    /\ Finishes(m, rest)
    /\ UNCHANGED <<asked, spoiled>>

-----------------------------------------------------------------------------
LEMMA KeepsIsSafe == IInv /\ Keeps => IInv'
BY DEF IInv, Keeps, core, Placed, Queued, Wired, WaitsAreWatched, OneSession, Runs

LEMMA MovesIsSafe ==
    ASSUME IInv, NEW m \in Machines, NEW w, Moves(m, w) PROVE IInv'
<1> USE DEF Moves
<1>1. Placed' /\ Queued' /\ WaitsAreWatched'
  BY DEF IInv, Placed, Queued, WaitsAreWatched, Runs
<1>2. Wired'
  BY DEF IInv, Wired
<1>3. at[m] # "off"
  BY DEF IInv, Queued, Waits, Hears
<1>4. \A x \in Machines : at'[x] # "off" => at[x] # "off"
  BY <1>3 DEF IInv, Placed
<1>5. OneSession'
  <2>1. SUFFICES ASSUME ~spoiled
                 PROVE  /\ \A x, y \in Machines : at'[x] # "off" /\ at'[y] # "off" => x = y
                        /\ asked = "calibrate" => at'["Guide"] = "off"
    BY DEF OneSession
  <2>2. QED
    BY <1>4, <2>1 DEF IInv, OneSession, Machines
<1>6. QED
  BY <1>1, <1>2, <1>5 DEF IInv

LEMMA DropsIsSafe ==
    ASSUME IInv, NEW m \in Machines, Drops(m) PROVE IInv'
<1> USE DEF Drops
<1>1. Placed' /\ Queued' /\ WaitsAreWatched'
  BY DEF IInv, Placed, Queued, WaitsAreWatched, Runs, Waits, Hears
<1>2. Wired'
  BY DEF IInv, Wired
<1>4. \A x \in Machines : at'[x] # "off" => at[x] # "off"
  BY DEF IInv, Placed
<1>5. OneSession'
  <2>1. SUFFICES ASSUME ~spoiled
                 PROVE  /\ \A x, y \in Machines : at'[x] # "off" /\ at'[y] # "off" => x = y
                        /\ asked = "calibrate" => at'["Guide"] = "off"
    BY DEF OneSession
  <2>2. QED
    BY <1>4, <2>1 DEF IInv, OneSession, Machines
<1>6. QED
  BY <1>1, <1>2, <1>5 DEF IInv

LEMMA StopsIsSafe ==
    ASSUME IInv, NEW ms, Stops(ms) PROVE IInv'
<1> USE DEF Stops, Disconnects, StopsAll
<1>1. \A x \in Machines : \/ at'[x] = "off"
                          \/ at'[x] = "doomed" /\ at[x] \in {"starting", "doomed"}
  BY DEF IInv, Placed
<1>2. Placed' /\ WaitsAreWatched'
  BY <1>1 DEF Placed, WaitsAreWatched, Runs, Waits, Hears
<1>3. Queued'
  <2>1. SUFFICES ASSUME NEW x \in Machines, <<"start", x>> \in posted'
                 PROVE  at'[x] \in {"starting", "doomed"}
    BY DEF Queued, Starting
  <2>2. x \in {y \in Machines \ ms : at[y] \in {"starting", "doomed"}}
    BY <2>1
  <2>3. QED
    BY <2>2
<1>4. Wired'
  BY DEF Wired
<1>5. OneSession'
  <2>1. SUFFICES ASSUME ~spoiled
                 PROVE  /\ \A x, y \in Machines : at'[x] # "off" /\ at'[y] # "off" => x = y
                        /\ asked = "calibrate" => at'["Guide"] = "off"
    BY DEF OneSession
  <2>2. QED
    BY <1>1, <2>1 DEF IInv, OneSession, Machines
<1>6. QED
  BY <1>2, <1>3, <1>4, <1>5 DEF IInv

LEMMA EndsIsSafe ==
    ASSUME IInv, NEW m \in Machines, NEW rest, Ends(m, rest) PROVE IInv'
<1> USE DEF Ends, Finishes
<1> DEFINE next == {x \in Machines : <<m, x>> \in wire /\ at[x] = "off"}
<1>1. at' = [x \in Machines |-> IF x = m THEN "off"
                                ELSE IF x \in next THEN "starting" ELSE at[x]]
  OBVIOUS
<1>2. Placed' /\ WaitsAreWatched'
  BY <1>1 DEF IInv, Placed, WaitsAreWatched, Runs, Waits, Hears
<1>3. Queued'
  <2>1. SUFFICES ASSUME NEW x \in Machines, <<"start", x>> \in posted'
                 PROVE  at'[x] \in {"starting", "doomed"}
    BY DEF Queued, Starting
  <2>2. m \notin next /\ at[m] \in Waits
    BY DEF Waits, Hears
  <2>3. CASE x \in next
    BY <2>2, <2>3
  <2>4. CASE <<"start", x>> \in {p \in rest : p[2] # m}
    <3>1. x # m /\ x \in Starting
      BY <2>4 DEF Starting
    <3>2. QED
      BY <3>1 DEF IInv, Queued
  <2>5. QED
    BY <2>1, <2>3, <2>4
<1>4. Wired'
  BY DEF IInv, Wired
<1>5. OneSession'
  <2>1. SUFFICES ASSUME ~spoiled
                 PROVE  /\ \A x, y \in Machines : at'[x] # "off" /\ at'[y] # "off" => x = y
                        /\ asked = "calibrate" => at'["Guide"] = "off"
    BY DEF OneSession
  <2>2. \A x \in Machines : x # m => at[x] = "off"
    BY <2>1 DEF IInv, OneSession, Waits, Hears
  <2>3. \A x, y \in next : x = y
    BY DEF IInv, Wired, Machines
  <2>4. \A x \in Machines : at'[x] # "off" => x \in next
    BY <1>1, <2>2
  <2>5. asked = "calibrate" => "Guide" \notin next
    BY DEF IInv, Wired
  <2>6. QED
    BY <2>3, <2>4, <2>5 DEF Machines
<1>6. QED
  BY <1>2, <1>3, <1>4, <1>5 DEF IInv

LEMMA BeginsIsSafe ==
    ASSUME IInv, NEW key \in {"guide", "calibrate"}, Begins(key) PROVE IInv'
<1> USE DEF Begins
<1>1. Placed' /\ WaitsAreWatched'
  BY DEF IInv, Placed, WaitsAreWatched, Runs, Waits, Hears, Machines
<1>2. Queued'
  BY DEF IInv, Queued, Placed, Starting, Machines
<1>3. Wired'
  BY DEF Wired, Wiring
<1>4. OneSession'
  BY DEF IInv, Placed, OneSession, Off, Machines
<1>5. QED
  BY <1>1, <1>2, <1>3, <1>4 DEF IInv

-----------------------------------------------------------------------------
(* What the handlers are made of.  rest fits a step of m when no start of m  *)
(* is left in it, nor one that was not there.                                *)
Fits(rest, m) == \A x \in Machines : <<"start", x>> \in rest => x \in Starting /\ x # m

LEMMA RestsIsSafe ==
    ASSUME IInv, NEW m \in Machines, at[m] \in Waits \/ m \in Starting,
           NEW state \in Waits, NEW rest, Fits(rest, m), Rests(m, state, rest),
           armed', UNCHANGED session
    PROVE  IInv'
<1>1. Moves(m, state)
  BY DEF Moves, Rests, Fits, Starting, session
<1>2. QED
  BY <1>1, MovesIsSafe

LEMMA AbortIsSafe ==
    ASSUME IInv, NEW ms, SMAbort(ms), UNCHANGED session PROVE IInv'
<1>1. Stops(ms)
  BY DEF Stops, SMAbort, session
<1>2. QED
  BY <1>1, StopsIsSafe

LEMMA ExposureIsSafe ==
    ASSUME IInv, NEW m \in Machines, at[m] \in Waits \/ m \in Starting,
           NEW state \in Waits, NEW rest, Fits(rest, m), NEW event,
           SMRequestExposure(m, state, rest, event), UNCHANGED session
    PROVE  IInv'
<1>1. CASE Rests(m, state, rest) /\ armed' = TRUE
  BY <1>1, RestsIsSafe
<1>2. CASE SMAbort({m})
  BY <1>2, AbortIsSafe
<1>3. QED
  BY <1>1, <1>2 DEF SMRequestExposure, Fails

LEMMA FindStarsIsSafe ==
    ASSUME IInv, NEW m \in Machines, at[m] \in Waits,
           NEW state \in Waits, NEW rest, Fits(rest, m),
           SMFindStars(m, state, rest), UNCHANGED session
    PROVE  IInv'
BY RestsIsSafe DEF SMFindStars

LEMMA PulsesIsSafe ==
    ASSUME IInv, NEW m \in Machines, at[m] \in Waits \/ m \in Starting,
           NEW state \in Waits, NEW rest, Fits(rest, m), NEW axes, NEW flags, NEW event,
           SMRequestPulses(m, state, rest, axes, flags, event), UNCHANGED session
    PROVE  IInv'
BY RestsIsSafe DEF SMRequestPulses

LEMMA GuidePulsesIsSafe ==
    ASSUME IInv, at["Guide"] \in Waits,
           NEW state \in Waits, NEW rest, Fits(rest, "Guide"), NEW axes, NEW event,
           SMRequestGuidePulses(state, rest, axes, event), UNCHANGED session
    PROVE  IInv'
<1>1. CASE SMRequestPulses("Guide", state, rest, axes, finished, event)
  BY <1>1, PulsesIsSafe DEF Machines
<1>2. CASE armed' = TRUE /\ Rests("Guide", state, rest \cup {<<"PulsesDone", "Guide">>})
  <2>1. Fits(rest \cup {<<"PulsesDone", "Guide">>}, "Guide")
    BY DEF Fits
  <2>2. QED
    BY <1>2, <2>1, RestsIsSafe DEF Machines
<1>3. QED
  BY <1>1, <1>2 DEF SMRequestGuidePulses

LEMMA EmitsFits ==
    ASSUME NEW m, NEW n, NEW rest, Fits(rest, m), NEW signal, signal # "start"
    PROVE  Fits(rest \cup Emits(signal, n), m)
BY DEF Fits, Emits

-----------------------------------------------------------------------------
LEMMA StartsIsSafe == ASSUME IInv, NEW m \in Machines, Starts(m) PROVE IInv'
<1> DEFINE rest == posted \ {<<"start", m>>}
<1>1. m \in Starting /\ Fits(rest, m) /\ UNCHANGED session
  BY DEF Starts, Starting, Fits
<1>2. CASE m = "Init" /\ StartInit(rest)
  <2>1. CASE Fails("Init", "error")
    BY <1>1, <2>1, AbortIsSafe DEF Fails
  <2>2. CASE /\ at["Init"] = "doomed" /\ Rests("Init", "off", rest)
             /\ armed' = (armed \/ at["Init"] # "doomed")
    <3>1. Drops(m)
      BY <1>1, <1>2, <2>2 DEF Drops, Rests, Fits, Starting, session
    <3>2. QED
      BY <3>1, DropsIsSafe
  <2>3. CASE /\ at["Init"] # "doomed" /\ Rests("Init", "WaitFrameReset", rest)
             /\ armed' = (armed \/ at["Init"] # "doomed")
    <3>1. "WaitFrameReset" \in Waits /\ armed'
      BY <2>3 DEF Waits, Hears
    <3>2. QED
      BY <1>1, <1>2, <2>3, <3>1, RestsIsSafe
  <2>4. QED
    BY <1>2, <2>1, <2>2, <2>3 DEF StartInit
<1>3. CASE m = "Cal" /\ StartCal(rest)
  <2>1. CASE at["Cal"] = "doomed"
    <3>1. Drops(m)
      BY <1>1, <1>3, <2>1 DEF StartCal, Drops, Rests, Fits, Starting, session
    <3>2. QED
      BY <3>1, DropsIsSafe
  <2>2. CASE at["Cal"] # "doomed"
    <3>1. SMRequestPulses(m, "WaitCalPulses", rest, {"RA"}, Axes, "busy")
      BY <1>3, <2>2 DEF StartCal
    <3>2. "WaitCalPulses" \in Waits
      BY DEF Waits, Hears
    <3>3. QED
      BY <1>1, <3>1, <3>2, PulsesIsSafe
  <2>3. QED
    BY <2>1, <2>2
<1>4. CASE m = "Guide" /\ StartGuide(rest)
  <2>1. CASE at["Guide"] = "doomed"
    <3>1. Drops(m)
      BY <1>1, <1>4, <2>1 DEF StartGuide, Drops, Rests, Fits, Starting, session
    <3>2. QED
      BY <3>1, DropsIsSafe
  <2>2. CASE at["Guide"] # "doomed"
    <3>1. SMRequestExposure(m, "WaitGuideExposure", rest, "startguiding")
      BY <1>4, <2>2 DEF StartGuide
    <3>2. "WaitGuideExposure" \in Waits
      BY DEF Waits, Hears
    <3>3. QED
      BY <1>1, <3>1, <3>2, ExposureIsSafe
  <2>3. QED
    BY <2>1, <2>2
<1>5. QED
  BY <1>2, <1>3, <1>4 DEF Starts

LEMMA ComputeCalIsSafe ==
    ASSUME IInv, at["Cal"] \in Waits, NEW rest, Fits(rest, "Cal"), rest \subseteq posted,
           SMComputeCal(rest), UNCHANGED session
    PROVE  IInv'
<1>1. "WaitCalPulses" \in Waits /\ "Cal" \in Machines
  BY DEF Waits, Hears, Machines
<1>2. ASSUME NEW pulse, NEW direction, NEW event, PulsesNext(pulse, direction, rest, event)
      PROVE  IInv'
  BY <1>1, <1>2, PulsesIsSafe DEF PulsesNext
<1>3. CASE CalLost(rest)
  BY <1>3, AbortIsSafe DEF CalLost, Fails
<1>4. CASE KickTaken(rest) \/ StepTaken(rest) \/ PassTaken(rest)
  BY <1>2, <1>4 DEF KickTaken, StepTaken, PassTaken
<1>5. CASE LastPassTaken(rest)
  <2>1. CASE Finishes("Cal", rest)
    <3>1. Ends("Cal", rest)
      BY <2>1 DEF Ends, session
    <3>2. QED
      BY <1>1, <3>1, EndsIsSafe
  <2>2. CASE PulsesNext("W", "W", rest, "busy")
    BY <1>2, <2>2
  <2>3. CASE Fails("Cal", "error")
    BY <2>3, AbortIsSafe DEF Fails
  <2>4. QED
    BY <1>5, <2>1, <2>2, <2>3 DEF LastPassTaken
<1>6. QED
  BY <1>3, <1>4, <1>5 DEF SMComputeCal

LEMMA ComputeGuideIsSafe ==
    ASSUME IInv, at["Guide"] \in Waits, NEW rest, Fits(rest, "Guide"),
           SMComputeGuide(rest), UNCHANGED session
    PROVE  IInv'
<1>1. /\ "Guide" \in Machines
      /\ {"WaitGuideExposure", "WaitRefExposure", "WaitGuidePulses", "WaitDitherPulses"} \subseteq Waits
  BY DEF Waits, Hears, Machines
<1>2. Fits(rest \cup Emits("PulsesDone", "Guide"), "Guide")
  BY EmitsFits
<1>3. ASSUME NEW event, GoesOn(rest, event) PROVE IInv'
  BY <1>1, <1>2, <1>3, ExposureIsSafe DEF GoesOn
<1>4. CASE MatchLost(rest)
  BY <1>3, <1>4, AbortIsSafe DEF MatchLost
<1>5. CASE FirstFrameTaken(rest)
  BY <1>3, <1>5 DEF FirstFrameTaken
<1>6. CASE DitherNow(rest)
  <2>1. PICK axes \in SUBSET Axes :
          \/ SMRequestExposure("Guide", "WaitRefExposure",
                               rest \cup Emits("PulsesDone", "Guide"), "dithering")
          \/ SMRequestGuidePulses("WaitDitherPulses", rest, axes, "dithering")
    BY <1>6 DEF DitherNow
  <2>2. QED
    BY <1>1, <1>2, <2>1, ExposureIsSafe, GuidePulsesIsSafe
<1>7. CASE Corrects(rest)
  <2>1. PICK axes \in SUBSET Axes :
          \/ GoesOn(rest, "guideRMS")
          \/ SMRequestGuidePulses("WaitGuidePulses", rest, axes, "guideRMS")
    BY <1>7 DEF Corrects
  <2>2. QED
    BY <1>1, <1>3, <2>1, GuidePulsesIsSafe
<1>8. QED
  BY <1>4, <1>5, <1>6, <1>7 DEF SMComputeGuide

LEMMA ReactsIsSafe ==
    ASSUME IInv, NEW m \in Machines, NEW signal \in DOMAIN Hears, Reacts(signal, m)
    PROVE  IInv'
<1> DEFINE rest == posted \ {<<signal, m>>}
<1>1. at[m] \in Hears[signal] /\ at[m] \in Waits /\ UNCHANGED session
  BY DEF Reacts, Hears, Waits
<1>2. m \notin Starting
  BY <1>1 DEF IInv, Queued, Waits, Hears
<1>3. Fits(rest, m) /\ rest \subseteq posted
  BY <1>2 DEF Fits, Starting
<1>4. CASE signal = "ExposureDone" /\ OnExposureDone(m, rest)
  <2>1. Detects[at[m]] \in Waits
    BY <1>1, <1>4 DEF Detects, Waits, Hears
  <2>2. QED
    BY <1>1, <1>3, <1>4, <2>1, FindStarsIsSafe DEF OnExposureDone
<1>5. CASE signal \in {"FrameResetDone", "PulsesDone"} /\ OnReadyToExpose(m, rest)
  <2>1. Exposes[at[m]] \in Waits
    BY <1>1, <1>5 DEF Exposes, Waits, Hears
  <2>2. QED
    BY <1>1, <1>3, <1>5, <2>1, ExposureIsSafe DEF OnReadyToExpose
<1>6. CASE signal = "FindStarsDone" /\ OnFindStarsDone(m, rest)
  <2>1. CASE Finishes(m, rest)
    <3>1. Ends(m, rest)
      BY <1>1, <1>3, <2>1 DEF Ends, session
    <3>2. QED
      BY <3>1, EndsIsSafe
  <2>2. CASE m = "Cal" /\ SMComputeCal(rest)
    BY <1>1, <1>3, <2>2, ComputeCalIsSafe
  <2>3. CASE m = "Guide" /\ SMComputeGuide(rest)
    BY <1>1, <1>3, <2>3, ComputeGuideIsSafe
  <2>4. CASE SMRequestExposure(m, "WaitGuideExposure", rest, "startguiding")
    <3>1. "WaitGuideExposure" \in Waits
      BY DEF Waits, Hears
    <3>2. QED
      BY <1>1, <1>3, <2>4, <3>1, ExposureIsSafe
  <2>5. QED
    BY <1>6, <2>1, <2>2, <2>3, <2>4 DEF OnFindStarsDone
<1>7. QED
  BY <1>4, <1>5, <1>6 DEF Reacts

-----------------------------------------------------------------------------
LEMMA AnswersIsSafe == ASSUME IInv, Answers \/ NoAnswer PROVE IInv'
<1>1. CASE FrameResetDone
  <2>1. Keeps
    BY <1>1 DEF FrameResetDone, Keeps, core, machines, session, Emits, Starting
  <2>2. QED
    BY <2>1, KeepsIsSafe
<1>2. CASE ExposureEnds
  <2>1. posted' = posted \cup Emits("ExposureDone", "") \/ posted' = posted
    BY <1>2 DEF ExposureEnds
  <2>2. Starting' = Starting
    BY <2>1 DEF Emits, Starting
  <2>3. Keeps
    BY <1>2, <2>2 DEF ExposureEnds, Keeps, core, machines, session
  <2>4. QED
    BY <2>3, KeepsIsSafe
<1>3. ASSUME NEW axis, PulseEnds(axis) PROVE IInv'
  <2>1. posted' = posted \cup Emits("PulsesDone", "") \/ posted' = posted
    BY <1>3 DEF PulseEnds
  <2>2. Starting' = Starting
    BY <2>1 DEF Emits, Starting
  <2>3. Keeps
    BY <1>3, <2>2 DEF PulseEnds, Keeps, core, machines, session
  <2>4. QED
    BY <2>3, KeepsIsSafe
<1>4. CASE DetectionEnds
  <2>1. UNCHANGED session
    BY <1>4 DEF DetectionEnds
  <2>2. CASE SMAbort({})
    BY <2>1, <2>2, AbortIsSafe
  <2>3. CASE /\ posted' = posted \cup Emits("FindStarsDone", "") \/ posted' = posted
             /\ UNCHANGED <<at, armed, wire>>
    <3>1. Starting' = Starting
      BY <2>3 DEF Emits, Starting
    <3>2. Keeps
      BY <2>1, <2>3, <3>1 DEF Keeps, core, session
    <3>3. QED
      BY <3>2, KeepsIsSafe
  <2>4. QED
    BY <1>4, <2>2, <2>3 DEF DetectionEnds
<1>5. CASE NoAnswer
  <2>1. Keeps
    BY <1>5 DEF NoAnswer, Keeps, core, machines, session, Starting
  <2>2. QED
    BY <2>1, KeepsIsSafe
<1>6. QED
  BY <1>1, <1>2, <1>3, <1>4, <1>5 DEF Answers

LEMMA TimersIsSafe == ASSUME IInv, Watchdog \/ Ready PROVE IInv'
<1>1. CASE Watchdog
  <2>1. CASE \E m \in Machines : Runs(m)
    BY <1>1, <2>1, AbortIsSafe DEF Watchdog
  <2>2. CASE ~\E m \in Machines : Runs(m)
    <3>1. UNCHANGED at /\ UNCHANGED posted /\ UNCHANGED wire
          /\ UNCHANGED asked /\ UNCHANGED spoiled
      BY <1>1, <2>2 DEF Watchdog, session
    <3>2. (Placed /\ Queued /\ Wired /\ OneSession)'
      BY <3>1 DEF IInv, Placed, Queued, Starting, Wired, OneSession
    <3>3. WaitsAreWatched'
      BY <2>2, <3>1 DEF WaitsAreWatched, Runs
    <3>4. QED
      BY <3>2, <3>3 DEF IInv
  <2>3. QED
    BY <2>1, <2>2
<1>2. CASE Ready
  <2>1. Keeps
    BY <1>2 DEF Ready, Keeps, core, session, Starting
  <2>2. QED
    BY <2>1, KeepsIsSafe
<1>3. QED
  BY <1>1, <1>2

LEMMA CommandsIsSafe == ASSUME IInv, Commands PROVE IInv'
<1>1. CASE Begins("guide") \/ Begins("calibrate")
  BY <1>1, BeginsIsSafe
<1>2. CASE AbortPressed
  BY <1>2, AbortIsSafe DEF AbortPressed
<1>3. CASE Dither \/ ResetCalibration
  <2>1. Keeps
    BY <1>3 DEF Dither, ResetCalibration, Keeps, core, session, Starting
  <2>2. QED
    BY <2>1, KeepsIsSafe
<1>4. QED
  BY <1>1, <1>2, <1>3 DEF Commands

LEMMA IInvHolds == Spec => []IInv
<1>1. Init => IInv
  BY DEF Init, IInv, Placed, Queued, Starting, Wired, WaitsAreWatched, OneSession, Runs,
         Waits, Hears
<1>2. IInv /\ [Next]_vars => IInv'
  <2>1. SUFFICES ASSUME IInv, [Next]_vars PROVE IInv'
    OBVIOUS
  <2>2. CASE EventLoop
    BY <2>1, <2>2, StartsIsSafe, ReactsIsSafe DEF EventLoop
  <2>3. CASE UNCHANGED vars
    <3>1. Keeps
      BY <2>3 DEF vars, session, Keeps, core, Starting
    <3>2. QED
      BY <2>1, <3>1, KeepsIsSafe
  <2>4. QED
    BY <2>1, <2>2, <2>3, AnswersIsSafe, TimersIsSafe, CommandsIsSafe DEF Next
<1>3. QED
  BY <1>1, <1>2, PTL DEF Spec

(* Each wait on a device or on the solver is under the watchdog, whatever    *)
(* the parameters, the faults and the order of the answers.                  *)
THEOREM EachWaitIsWatched == Spec => []WaitsAreWatched
<1>1. IInv => WaitsAreWatched
  BY DEF IInv
<1>2. QED
  BY <1>1, IInvHolds, PTL

(* A session that nothing crosses runs one machine at a time, and "calibrate" *)
(* does not go on to guide.                                                   *)
THEOREM OneMachineAtATime == Spec => []OneSession
<1>1. IInv => OneSession
  BY DEF IInv
<1>2. QED
  BY <1>1, IInvHolds, PTL

-----------------------------------------------------------------------------
(* Abort.  Nothing crosses a session: the machine that stops was the only    *)
(* one, so that none is left starting, to run its first handler later.       *)
Halted == aborted /\ ~spoiled => Off

LEMMA AbortHalts ==
    ASSUME IInv, ~spoiled, NEW m \in Machines, at[m] # "off",
           NEW ms, m \in ms \/ Runs(m), SMAbort(ms)
    PROVE  Off'
<1>1. \A x \in Machines \ {m} : at[x] = "off"
  BY DEF IInv, OneSession
<1>2. {x \in Machines \ ms : at[x] \in {"starting", "doomed"}} = {}
  BY <1>1 DEF Runs, Waits, Hears
<1>3. QED
  BY <1>2 DEF SMAbort, Disconnects, StopsAll, Off

(* Halted machines do not react, so that only a machine at work aborts. *)
LEMMA HaltedDoNothing ==
    ASSUME IInv, Halted, aborted, ~spoiled PROVE ~EventLoop
<1>1. SUFFICES ASSUME EventLoop PROVE FALSE
  OBVIOUS
<1>2. PICK m \in Machines : Starts(m) \/ \E s \in DOMAIN Hears : Reacts(s, m)
  BY <1>1 DEF EventLoop
<1>3. at[m] = "off"
  BY DEF Halted, Off
<1>4. CASE Starts(m)
  BY <1>3, <1>4 DEF Starts, IInv, Queued, Starting
<1>5. CASE \E s \in DOMAIN Hears : Reacts(s, m)
  BY <1>3, <1>5 DEF Reacts, Hears
<1>6. QED
  BY <1>2, <1>4, <1>5

LEMMA ExposureAborts ==
    ASSUME NEW m, NEW state, NEW rest, NEW event, SMRequestExposure(m, state, rest, event)
    PROVE  aborted' = aborted \/ SMAbort({m})
BY DEF SMRequestExposure, Rests, Fails

LEMMA PulsesAbortNothing ==
    ASSUME NEW m, NEW state, NEW rest, NEW axes, NEW flags, NEW event,
           SMRequestPulses(m, state, rest, axes, flags, event)
    PROVE  aborted' = aborted
BY DEF SMRequestPulses, Rests

LEMMA GuidePulsesAbortNothing ==
    ASSUME NEW state, NEW rest, NEW axes, NEW event,
           SMRequestGuidePulses(state, rest, axes, event)
    PROVE  aborted' = aborted
BY PulsesAbortNothing DEF SMRequestGuidePulses, Rests

LEMMA StartsAborts ==
    ASSUME NEW m \in Machines, Starts(m) PROVE aborted' = aborted \/ SMAbort({m})
<1> DEFINE rest == posted \ {<<"start", m>>}
<1>1. CASE m = "Init" /\ StartInit(rest)
  BY <1>1 DEF StartInit, Rests, Fails
<1>2. CASE m = "Cal" /\ StartCal(rest)
  BY <1>2, PulsesAbortNothing DEF StartCal, Rests
<1>3. CASE m = "Guide" /\ StartGuide(rest)
  BY <1>3, ExposureAborts DEF StartGuide, Rests
<1>4. QED
  BY <1>1, <1>2, <1>3 DEF Starts

LEMMA ReactsAborts ==
    ASSUME NEW m \in Machines, NEW signal \in DOMAIN Hears, Reacts(signal, m)
    PROVE  aborted' = aborted \/ SMAbort({m})
<1> DEFINE rest == posted \ {<<signal, m>>}
<1>1. CASE OnExposureDone(m, rest)
  BY <1>1 DEF OnExposureDone, SMFindStars, Rests
<1>2. CASE OnReadyToExpose(m, rest)
  BY <1>2, ExposureAborts DEF OnReadyToExpose
<1>3. CASE OnFindStarsDone(m, rest)
  <2>1. CASE Finishes(m, rest)
    BY <2>1 DEF Finishes
  <2>2. CASE m = "Cal" /\ SMComputeCal(rest)
    <3>1. ASSUME NEW pulse, NEW direction, NEW event, PulsesNext(pulse, direction, rest, event)
          PROVE  aborted' = aborted
      BY <3>1, PulsesAbortNothing DEF PulsesNext
    <3>2. CASE CalLost(rest)
      BY <2>2, <3>2 DEF CalLost, Fails
    <3>3. CASE KickTaken(rest) \/ StepTaken(rest) \/ PassTaken(rest)
      BY <3>1, <3>3 DEF KickTaken, StepTaken, PassTaken
    <3>4. CASE LastPassTaken(rest)
      BY <2>2, <3>1, <3>4 DEF LastPassTaken, Finishes, Fails
    <3>5. QED
      BY <2>2, <3>2, <3>3, <3>4 DEF SMComputeCal
  <2>3. CASE m = "Guide" /\ SMComputeGuide(rest)
    <3>1. ASSUME NEW event, GoesOn(rest, event) PROVE aborted' = aborted \/ SMAbort({m})
      BY <2>3, <3>1, ExposureAborts DEF GoesOn
    <3>2. CASE MatchLost(rest)
      BY <2>3, <3>1, <3>2 DEF MatchLost
    <3>3. CASE FirstFrameTaken(rest)
      BY <3>1, <3>3 DEF FirstFrameTaken
    <3>4. CASE DitherNow(rest)
      BY <2>3, <3>4, ExposureAborts, GuidePulsesAbortNothing DEF DitherNow
    <3>5. CASE Corrects(rest)
      BY <3>1, <3>5, GuidePulsesAbortNothing DEF Corrects
    <3>6. QED
      BY <2>3, <3>2, <3>3, <3>4, <3>5 DEF SMComputeGuide
  <2>4. CASE SMRequestExposure(m, "WaitGuideExposure", rest, "startguiding")
    BY <2>4, ExposureAborts
  <2>5. QED
    BY <1>3, <2>1, <2>2, <2>3, <2>4 DEF OnFindStarsDone
<1>4. QED
  BY <1>1, <1>2, <1>3 DEF Reacts

LEMMA HaltedStays == ASSUME IInv, Halted, [Next]_vars PROVE Halted'
<1>1. SUFFICES ASSUME aborted', ~spoiled' PROVE Off'
  BY DEF Halted
<1>2. ASSUME NEW m \in Machines, Runs(m), ~spoiled, SMAbort({}) PROVE Off'
  BY <1>2, AbortHalts DEF Runs, Waits, Hears
<1>3. CASE EventLoop
  <2>1. PICK m \in Machines : Starts(m) \/ \E s \in DOMAIN Hears : Reacts(s, m)
    BY <1>3 DEF EventLoop
  <2>2. ~spoiled
    BY <1>1, <2>1 DEF Starts, Reacts, session
  <2>3. ~aborted
    BY <1>3, <2>2, HaltedDoNothing
  <2>4. SMAbort({m})
    BY <1>1, <2>1, <2>3, StartsAborts, ReactsAborts
  <2>5. at[m] # "off"
    <3>1. CASE Starts(m)
      BY <3>1 DEF Starts, IInv, Queued, Starting
    <3>2. CASE \E s \in DOMAIN Hears : Reacts(s, m)
      BY <3>2 DEF Reacts, Hears
    <3>3. QED
      BY <2>1, <3>1, <3>2
  <2>6. QED
    BY <2>2, <2>4, <2>5, AbortHalts
<1>4. CASE DetectionEnds
  <2>1. ~spoiled
    BY <1>1, <1>4 DEF DetectionEnds, session
  <2>2. CASE UNCHANGED <<at, aborted>>
    BY <1>1, <2>1, <2>2 DEF Halted, Off
  <2>3. QED
    BY <1>2, <1>4, <2>1, <2>2 DEF DetectionEnds
<1>5. CASE FrameResetDone \/ ExposureEnds \/ (\E a \in Axes : PulseEnds(a)) \/ NoAnswer
  <2>1. UNCHANGED <<at, aborted, spoiled>>
    BY <1>5 DEF FrameResetDone, ExposureEnds, PulseEnds, NoAnswer, machines, session
  <2>2. QED
    BY <1>1, <2>1 DEF Halted, Off
<1>6. CASE Watchdog
  <2>1. ~spoiled
    BY <1>1, <1>6 DEF Watchdog, session
  <2>2. CASE UNCHANGED <<at, aborted>>
    BY <1>1, <2>1, <2>2 DEF Halted, Off
  <2>3. QED
    BY <1>2, <1>6, <2>1, <2>2 DEF Watchdog
<1>7. CASE AbortPressed
  <2>1. ~spoiled
    BY <1>1, <1>7 DEF AbortPressed, session
  <2>2. QED
    BY <1>2, <1>7, <2>1 DEF AbortPressed
<1>8. CASE Begins("guide") \/ Begins("calibrate")
  BY <1>1, <1>8 DEF Begins
<1>9. CASE Ready \/ Dither \/ ResetCalibration \/ UNCHANGED vars
  <2>1. UNCHANGED <<at, aborted, spoiled>>
    BY <1>9 DEF Ready, Dither, ResetCalibration, vars, session
  <2>2. QED
    BY <1>1, <2>1 DEF Halted, Off
<1>10. QED
  BY <1>3, <1>4, <1>5, <1>6, <1>7, <1>8, <1>9 DEF Next, Answers, Commands

(* What is asked of the devices and of the solver while it stays aborted. *)
Quiet ==
    aborted /\ aborted' /\ ~spoiled
        => /\ resetting' => resetting
           /\ exposing' \subseteq exposing /\ pulsing' \subseteq pulsing
           /\ detecting' \subseteq detecting

LEMMA StepIsQuiet == ASSUME IInv, Halted, [Next]_vars PROVE Quiet
<1>1. SUFFICES ASSUME aborted, aborted', ~spoiled
               PROVE  /\ resetting' => resetting
                      /\ exposing' \subseteq exposing /\ pulsing' \subseteq pulsing
                      /\ detecting' \subseteq detecting
  BY DEF Quiet
<1>2. ~EventLoop
  BY <1>1, HaltedDoNothing
<1>3. CASE Answers
  <2>1. CASE FrameResetDone
    BY <2>1 DEF FrameResetDone, mount, solver
  <2>2. CASE ExposureEnds
    <3>1. exposing' \subseteq exposing
      BY <2>2 DEF ExposureEnds
    <3>2. resetting' = resetting /\ pulsing' = pulsing /\ detecting' = detecting
      BY <2>2 DEF ExposureEnds, mount
    <3>3. QED
      BY <3>1, <3>2
  <2>3. CASE \E a \in Axes : PulseEnds(a)
    <3>1. pulsing' \subseteq pulsing
      BY <2>3 DEF PulseEnds
    <3>2. resetting' = resetting /\ exposing' = exposing /\ detecting' = detecting
      BY <2>3 DEF PulseEnds, camera, solver
    <3>3. QED
      BY <3>1, <3>2
  <2>4. CASE DetectionEnds
    BY <2>4 DEF DetectionEnds, camera, mount
  <2>5. QED
    BY <1>3, <2>1, <2>2, <2>3, <2>4 DEF Answers
<1>4. CASE NoAnswer
  BY <1>4 DEF NoAnswer, camera
<1>5. CASE Watchdog \/ Ready
  BY <1>5 DEF Watchdog, Ready, camera, mount, solver
<1>6. CASE Commands
  BY <1>1, <1>6 DEF Commands, Begins, AbortPressed, Dither, ResetCalibration, camera, mount,
                    solver
<1>7. CASE UNCHANGED vars
  BY <1>7 DEF vars, camera, mount, solver
<1>8. QED
  BY <1>2, <1>3, <1>4, <1>5, <1>6, <1>7 DEF Next

(* An abort, of the user, of the watchdog or of the guider itself, ends      *)
(* everything that SMAbort() (guider.cpp) is to stop: no camera, no mount    *)
(* and no star detection is asked for anything until the next session.       *)
THEOREM AbortIsQuiet == Spec => QuietAfterAbort
<1>1. Init => Halted
  BY DEF Init, Halted
<1>2. IInv /\ Halted /\ [Next]_vars => Halted'
  BY HaltedStays
<1>3. IInv /\ Halted /\ [Next]_vars
        => [aborted /\ aborted' /\ ~spoiled
              => /\ resetting' => resetting
                 /\ exposing' \subseteq exposing /\ pulsing' \subseteq pulsing
                 /\ detecting' \subseteq detecting]_vars
  BY StepIsQuiet DEF Quiet
<1>4. QED
  BY <1>1, <1>2, <1>3, IInvHolds, PTL DEF Spec, QuietAfterAbort

-----------------------------------------------------------------------------
(* What a calibration measures: the proof follows a frame from the pulse     *)
(* before it: exposed, kept as the image, looked at for stars, measured      *)
(* (Flow).  That it is not some other frame is because nothing is posted to  *)
(* a machine but what it waits for (PostFits), and no other machine uses the *)
(* devices (OneSession).                                                     *)

(* Where each machine may be, *)
Idle == {"off", "starting", "doomed"}
Places == [Init  |-> {"WaitFrameReset", "WaitFirstExposure", "FindStarsFirst"},
           Cal   |-> {"WaitCalPulses", "WaitCalExposure", "FindStarsCal"},
           Guide |-> {"WaitGuideExposure", "FindStarsGuide", "WaitGuidePulses",
                      "WaitDitherPulses", "WaitRefExposure", "FindStarsRef"}]
Kinds == \A m \in Machines : at[m] \in Idle \cup Places[m]

(* what is posted to a machine is what it waits for, *)
PostFits == \A s \in DOMAIN Hears, m \in Machines : <<s, m>> \in posted => at[m] \in Hears[s]

(* the books of a calibration, *)
Good(d) == {<<Directions[d]>>, <<"foreign">>}
Calibrating == at["Cal"] \in Waits
Books ==
    /\ DOMAIN passes = 1..4
    /\ \A d \in 1..4 : passes[d] \in Seq(Good(d))
    /\ calibrated => \/ \A d \in 1..4 : passes[d] = <<>>
                     \/ \A d \in 1..4 : Len(passes[d]) = CalSteps
    /\ Calibrating =>
          /\ calState \in 0..3 /\ calStep \in 0..CalSteps - 1
          /\ samples \in Seq(Good(calState + 1)) /\ Len(samples) = calStep
          /\ \A d \in 1..calState : Len(passes[d]) = CalSteps
          /\ ~calibrated

(* and which pulse lies before which frame. *)
Pulse == IF awaitingKick THEN <<"kick">> ELSE <<Directions[calState + 1]>>
After(frames) == \A f \in frames : f.trail = Pulse

FirstFlow ==
    /\ at["Init"] = "WaitFirstExposure" /\ <<"ExposureDone", "Init">> \in posted => exposing = {}
    /\ at["Init"] = "FindStarsFirst" =>
          exposing = {} /\ (<<"FindStarsDone", "Init">> \in posted => detecting = {})

CalFlow ==
    /\ at["Cal"] = "starting" => exposing = {} /\ detecting = {} /\ trail = <<>>
    /\ Calibrating => trail = Pulse
    /\ at["Cal"] = "WaitCalPulses" => exposing = {} /\ detecting = {}
    /\ at["Cal"] = "WaitCalExposure" =>
          /\ detecting = {} /\ After(exposing)
          /\ <<"ExposureDone", "Cal">> \in posted => exposing = {} /\ image # {} /\ After(image)
    /\ at["Cal"] = "FindStarsCal" =>
          /\ exposing = {} /\ After(detecting)
          /\ <<"FindStarsDone", "Cal">> \in posted => detecting = {} /\ seen # {} /\ After(seen)

Flow == ~spoiled => FirstFlow /\ CalFlow

CInv == Kinds /\ PostFits /\ Books /\ Flow

pages == <<calState, calStep, samples, passes, calibrated>>

-----------------------------------------------------------------------------
(* The shapes of a step. *)

(* Books are kept by those who do not write them. *)
LEMMA BooksKept ==
    ASSUME Books, UNCHANGED pages, Calibrating' => Calibrating PROVE Books'
BY DEF Books, pages, Calibrating, Good

LEMMA AbortIsPure ==
    ASSUME IInv, CInv, NEW ms, SMAbort(ms), UNCHANGED pages PROVE CInv'
<1>1. \A x \in Machines : at'[x] \in {"off", "doomed"}
  BY DEF SMAbort, Disconnects, StopsAll
<1>2. Kinds'
  BY <1>1 DEF Kinds, Idle
<1>3. PostFits'
  BY DEF PostFits, SMAbort, Disconnects, StopsAll, Hears
<1>4. at'["Cal"] \in {"off", "doomed"} /\ at'["Init"] \in {"off", "doomed"}
  BY <1>1 DEF Machines
<1>5. ~Calibrating'
  BY <1>4 DEF Calibrating, Waits, Hears
<1>6. Books'
  BY <1>5, BooksKept DEF CInv
<1>7. Flow'
  BY <1>4, <1>5 DEF Flow, FirstFlow, CalFlow
<1>8. QED
  BY <1>2, <1>3, <1>6, <1>7 DEF CInv

(* A machine goes to another place, with nothing posted to it but news. *)
LEMMA RestsFits ==
    ASSUME CInv, IInv, NEW m \in Machines, NEW w \in Idle \cup Places[m],
           at' = [at EXCEPT ![m] = w],
           \A s \in DOMAIN Hears, x \in Machines : <<s, x>> \in posted' =>
              \/ <<s, x>> \in posted /\ x # m
              \/ at'[x] \in Hears[s]
    PROVE  Kinds' /\ PostFits'
<1>1. Kinds'
  BY DEF CInv, IInv, Placed, Kinds
<1>2. PostFits'
  BY DEF CInv, IInv, Placed, PostFits
<1>3. QED
  BY <1>1, <1>2

(* Nothing else is posted to a machine that leaves its wait. *)
Alone(m, rest) ==
    \A s \in DOMAIN Hears, x \in Machines : <<s, x>> \in rest => <<s, x>> \in posted /\ x # m

LEMMA StartIsAlone ==
    ASSUME CInv, IInv, NEW m \in Machines, m \in Starting
    PROVE  Alone(m, posted \ {<<"start", m>>})
<1>1. at[m] \in {"starting", "doomed"}
  BY DEF IInv, Queued
<1>2. \A s \in DOMAIN Hears : at[m] \notin Hears[s]
  BY <1>1 DEF Hears
<1>3. QED
  BY <1>2 DEF CInv, PostFits, Alone

LEMMA ReactionIsAlone ==
    ASSUME CInv, NEW m \in Machines, NEW signal \in DOMAIN Hears, at[m] \in Hears[signal]
    PROVE  Alone(m, posted \ {<<signal, m>>})
<1>1. \A s \in DOMAIN Hears : at[m] \in Hears[s] => s = signal
  BY DEF Hears
<1>2. QED
  BY <1>1 DEF CInv, PostFits, Alone

LEMMA EmitsAreHeard ==
    ASSUME NEW signal \in DOMAIN Hears, NEW n, NEW s \in DOMAIN Hears, NEW x \in Machines,
           <<s, x>> \in Emits(signal, n)
    PROVE  x # n /\ at[x] \in Hears[s]
BY DEF Emits

(* A machine that is on is the only one, unless sessions cross. *)
LEMMA OnlyOne ==
    ASSUME IInv, ~spoiled, NEW m \in Machines, at[m] # "off"
    PROVE  \A x \in Machines \ {m} : at[x] = "off"
BY DEF IInv, OneSession

-----------------------------------------------------------------------------
(* What the handlers are made of, for the first two of CInv. *)

LEMMA RestsIsFit ==
    ASSUME IInv, CInv, NEW m \in Machines, NEW w \in Idle \cup Places[m],
           NEW rest, Alone(m, rest), Rests(m, w, rest)
    PROVE  Kinds' /\ PostFits'
<1>1. at' = [at EXCEPT ![m] = w] /\ posted' = rest
  BY DEF Rests
<1>2. \A s \in DOMAIN Hears, x \in Machines : <<s, x>> \in posted' => <<s, x>> \in posted /\ x # m
  BY <1>1 DEF Alone
<1>3. QED
  BY <1>1, <1>2, RestsFits

LEMMA RestsWithNewsIsFit ==
    ASSUME IInv, CInv, NEW m \in Machines, NEW w \in Idle \cup Places[m],
           NEW rest, Alone(m, rest), NEW signal \in DOMAIN Hears,
           Rests(m, w, rest \cup Emits(signal, m))
    PROVE  Kinds' /\ PostFits'
<1>1. at' = [at EXCEPT ![m] = w] /\ posted' = rest \cup Emits(signal, m)
  BY DEF Rests
<1>2. ASSUME NEW s \in DOMAIN Hears, NEW x \in Machines, <<s, x>> \in posted'
      PROVE  \/ <<s, x>> \in posted /\ x # m
             \/ at'[x] \in Hears[s]
  <2>1. CASE <<s, x>> \in rest
    BY <2>1 DEF Alone
  <2>2. CASE <<s, x>> \in Emits(signal, m)
    <3>1. x # m /\ at[x] \in Hears[s]
      BY <2>2, EmitsAreHeard
    <3>2. at'[x] = at[x]
      BY <1>1, <3>1 DEF IInv, Placed
    <3>3. QED
      BY <3>1, <3>2
  <2>3. QED
    BY <1>1, <1>2, <2>1, <2>2
<1>3. QED
  BY <1>1, <1>2, RestsFits

LEMMA FinishesIsFit ==
    ASSUME IInv, CInv, NEW m \in Machines, NEW rest, Alone(m, rest), Finishes(m, rest)
    PROVE  Kinds' /\ PostFits'
<1> DEFINE next == {x \in Machines : <<m, x>> \in wire /\ at[x] = "off"}
<1>1. /\ at' = [x \in Machines |-> IF x = m THEN "off"
                                   ELSE IF x \in next THEN "starting" ELSE at[x]]
      /\ posted' = {p \in rest : p[2] # m} \cup {<<"start", x>> : x \in next}
  BY DEF Finishes
<1>2. Kinds'
  BY <1>1 DEF CInv, Kinds, Idle
<1>3. ASSUME NEW s \in DOMAIN Hears, NEW x \in Machines, <<s, x>> \in posted'
      PROVE  at'[x] \in Hears[s]
  <2>1. s # "start"
    BY DEF Hears
  <2>2. <<s, x>> \in posted /\ x # m
    BY <1>1, <1>3, <2>1 DEF Alone
  <2>3. at[x] \in Hears[s]
    BY <2>2 DEF CInv, PostFits
  <2>4. x \notin next
    BY <2>3 DEF Hears
  <2>5. QED
    BY <1>1, <2>2, <2>3, <2>4
<1>4. QED
  BY <1>2, <1>3 DEF PostFits

(* The guiding machine leaves the books alone; while it is on, no other is. *)
LEMMA GuideIsPure ==
    ASSUME IInv, CInv, at["Guide"] # "off", UNCHANGED pages, UNCHANGED spoiled,
           \A x \in Machines : x # "Guide" => at'[x] = at[x]
    PROVE  Books' /\ Flow'
<1>1. at'["Cal"] = at["Cal"] /\ at'["Init"] = at["Init"]
  BY DEF Machines
<1>2. Books'
  BY <1>1, BooksKept DEF CInv, Calibrating
<1>3. CASE ~spoiled
  <2>1. at["Cal"] = "off" /\ at["Init"] = "off"
    BY <1>3, OnlyOne DEF Machines
  <2>2. QED
    BY <1>1, <1>2, <2>1 DEF Flow, FirstFlow, CalFlow, Calibrating, Waits, Hears
<1>4. CASE spoiled
  BY <1>2, <1>4 DEF Flow
<1>5. QED
  BY <1>3, <1>4

LEMMA GuideExposesPurely ==
    ASSUME IInv, CInv, at["Guide"] # "off", UNCHANGED pages, UNCHANGED spoiled,
           NEW w \in Places.Guide, NEW rest, Alone("Guide", rest), NEW event,
           \/ SMRequestExposure("Guide", w, rest, event)
           \/ SMRequestExposure("Guide", w, rest \cup Emits("PulsesDone", "Guide"), event)
    PROVE  CInv'
<1>1. "Guide" \in Machines /\ w \in Idle \cup Places["Guide"] /\ "PulsesDone" \in DOMAIN Hears
  BY DEF Machines, Places, Hears
<1>2. CASE SMAbort({"Guide"})
  BY <1>2, AbortIsPure
<1>3. ASSUME Rests("Guide", w, rest) \/ Rests("Guide", w, rest \cup Emits("PulsesDone", "Guide"))
      PROVE  CInv'
  <2>1. Kinds' /\ PostFits'
    BY <1>1, <1>3, RestsIsFit, RestsWithNewsIsFit
  <2>2. \A x \in Machines : x # "Guide" => at'[x] = at[x]
    BY <1>3 DEF Rests, IInv, Placed
  <2>3. QED
    BY <2>1, <2>2, GuideIsPure DEF CInv
<1>4. QED
  BY <1>2, <1>3 DEF SMRequestExposure, Fails

LEMMA GuidePulsesPurely ==
    ASSUME IInv, CInv, at["Guide"] # "off", UNCHANGED pages, UNCHANGED spoiled,
           NEW w \in Hears.PulsesDone \cap Places.Guide, NEW rest, Alone("Guide", rest),
           NEW axes, NEW event, SMRequestGuidePulses(w, rest, axes, event)
    PROVE  CInv'
<1>1. "Guide" \in Machines /\ w \in Idle \cup Places["Guide"] /\ "PulsesDone" \in DOMAIN Hears
  BY DEF Machines, Places, Hears
<1>2. CASE Rests("Guide", w, rest)
  <2>1. Kinds' /\ PostFits'
    BY <1>1, <1>2, RestsIsFit
  <2>2. \A x \in Machines : x # "Guide" => at'[x] = at[x]
    BY <1>2 DEF Rests, IInv, Placed
  <2>3. QED
    BY <2>1, <2>2, GuideIsPure DEF CInv
<1>3. CASE Rests("Guide", w, rest \cup {<<"PulsesDone", "Guide">>})
  <2>1. at' = [at EXCEPT !["Guide"] = w] /\ posted' = rest \cup {<<"PulsesDone", "Guide">>}
    BY <1>3 DEF Rests
  <2>2. at'["Guide"] = w /\ \A x \in Machines : x # "Guide" => at'[x] = at[x]
    BY <1>1, <2>1 DEF IInv, Placed
  <2>3. \A s \in DOMAIN Hears, x \in Machines : <<s, x>> \in posted' =>
              \/ <<s, x>> \in posted /\ x # "Guide"
              \/ at'[x] \in Hears[s]
    BY <2>1, <2>2 DEF Alone
  <2>4. Kinds' /\ PostFits'
    BY <1>1, <2>1, <2>3, RestsFits
  <2>5. QED
    BY <2>2, <2>4, GuideIsPure DEF CInv
<1>4. QED
  BY <1>2, <1>3 DEF SMRequestGuidePulses, SMRequestPulses

-----------------------------------------------------------------------------
(* The machine that guides *)

LEMMA GuideStartsPurely ==
    ASSUME IInv, CInv, "Guide" \in Starting, UNCHANGED session,
           StartGuide(posted \ {<<"start", "Guide">>})
    PROVE  CInv'
<1> DEFINE rest == posted \ {<<"start", "Guide">>}
<1>1. /\ "Guide" \in Machines /\ Alone("Guide", rest)
      /\ "off" \in Idle \cup Places["Guide"] /\ "WaitGuideExposure" \in Places.Guide
  BY StartIsAlone DEF Machines, Idle, Places
<1>2. at["Guide"] # "off" /\ UNCHANGED pages /\ UNCHANGED spoiled
  BY <1>1 DEF IInv, Queued, StartGuide, cal, pages, session
<1>3. CASE Rests("Guide", "off", rest)
  <2>1. Kinds' /\ PostFits'
    BY <1>1, <1>3, RestsIsFit
  <2>2. \A x \in Machines : x # "Guide" => at'[x] = at[x]
    BY <1>3 DEF Rests, IInv, Placed
  <2>3. QED
    BY <1>2, <2>1, <2>2, GuideIsPure DEF CInv
<1>4. CASE SMRequestExposure("Guide", "WaitGuideExposure", rest, "startguiding")
  BY <1>1, <1>2, <1>4, GuideExposesPurely
<1>5. QED
  BY <1>3, <1>4 DEF StartGuide

LEMMA GuideComputesPurely ==
    ASSUME IInv, CInv, at["Guide"] # "off", NEW rest, Alone("Guide", rest),
           UNCHANGED session, SMComputeGuide(rest)
    PROVE  CInv'
<1>1. /\ {"WaitGuideExposure", "WaitRefExposure"} \subseteq Places.Guide
      /\ {"WaitGuidePulses", "WaitDitherPulses"} \subseteq Hears.PulsesDone \cap Places.Guide
  BY DEF Places, Hears
<1>2. UNCHANGED pages /\ UNCHANGED spoiled
  BY DEF SMComputeGuide, cal, pages, session
<1>3. ASSUME NEW event, GoesOn(rest, event) PROVE CInv'
  BY <1>1, <1>2, <1>3, GuideExposesPurely DEF GoesOn
<1>4. CASE MatchLost(rest)
  BY <1>2, <1>3, <1>4, AbortIsPure DEF MatchLost
<1>5. CASE FirstFrameTaken(rest)
  BY <1>3, <1>5 DEF FirstFrameTaken
<1>6. CASE DitherNow(rest)
  <2>1. PICK axes \in SUBSET Axes :
          \/ SMRequestExposure("Guide", "WaitRefExposure",
                               rest \cup Emits("PulsesDone", "Guide"), "dithering")
          \/ SMRequestGuidePulses("WaitDitherPulses", rest, axes, "dithering")
    BY <1>6 DEF DitherNow
  <2>2. QED
    BY <1>1, <1>2, <2>1, GuideExposesPurely, GuidePulsesPurely
<1>7. CASE Corrects(rest)
  <2>1. PICK axes \in SUBSET Axes :
          \/ GoesOn(rest, "guideRMS")
          \/ SMRequestGuidePulses("WaitGuidePulses", rest, axes, "guideRMS")
    BY <1>7 DEF Corrects
  <2>2. QED
    BY <1>1, <1>2, <1>3, <2>1, GuidePulsesPurely
<1>8. QED
  BY <1>4, <1>5, <1>6, <1>7 DEF SMComputeGuide

-----------------------------------------------------------------------------
(* The machine that takes the first frame *)

LEMMA InitStartsPurely ==
    ASSUME IInv, CInv, "Init" \in Starting, UNCHANGED session,
           StartInit(posted \ {<<"start", "Init">>})
    PROVE  CInv'
<1> DEFINE rest == posted \ {<<"start", "Init">>}
<1>1. /\ "Init" \in Machines /\ Alone("Init", rest)
      /\ {"off", "WaitFrameReset"} \subseteq Idle \cup Places["Init"]
  BY StartIsAlone DEF Machines, Idle, Places
<1>2. UNCHANGED pages /\ UNCHANGED spoiled
  BY DEF StartInit, cal, pages, session
<1>3. CASE SMAbort({"Init"})
  BY <1>2, <1>3, AbortIsPure
<1>4. ASSUME NEW w \in {"off", "WaitFrameReset"}, Rests("Init", w, rest),
             UNCHANGED <<exposing, mount, solver, cal>>
      PROVE  CInv'
  <2>1. Kinds' /\ PostFits'
    BY <1>1, <1>4, RestsIsFit
  <2>2. at'["Cal"] = at["Cal"] /\ at'["Init"] = w
    BY <1>4 DEF Rests, IInv, Placed, Machines
  <2>3. Books'
    BY <1>2, <2>2, BooksKept DEF CInv, Calibrating
  <2>4. Flow'
    <3>1. SUFFICES ASSUME ~spoiled PROVE FirstFlow' /\ CalFlow'
      BY <1>2 DEF Flow
    <3>2. at["Init"] # "off"
      BY <1>1 DEF IInv, Queued
    <3>3. at["Cal"] = "off"
      BY <1>1, <3>1, <3>2, OnlyOne DEF Machines
    <3>4. QED
      BY <2>2, <3>3 DEF FirstFlow, CalFlow, Calibrating, Waits, Hears
  <2>5. QED
    BY <2>1, <2>3, <2>4 DEF CInv
<1>5. QED
  BY <1>3, <1>4 DEF StartInit, Fails

(* It goes on to w, and keeps the camera and the solver to itself. *)
LEMMA InitGoesOnPurely ==
    ASSUME IInv, CInv, at["Init"] # "off", UNCHANGED cal, UNCHANGED session,
           NEW w \in Places.Init, NEW rest, Alone("Init", rest), Rests("Init", w, rest),
           w = "FindStarsFirst" /\ ~spoiled => exposing' = {}
    PROVE  CInv'
<1>1. "Init" \in Machines /\ w \in Idle \cup Places["Init"]
  BY DEF Machines
<1>2. Kinds' /\ PostFits'
  BY <1>1, RestsIsFit
<1>3. at'["Cal"] = at["Cal"] /\ at'["Init"] = w /\ posted' = rest
  BY DEF Rests, IInv, Placed, Machines
<1>4. Books'
  BY <1>3, BooksKept DEF CInv, Calibrating, cal, pages
<1>5. Flow'
  <2>1. SUFFICES ASSUME ~spoiled PROVE FirstFlow' /\ CalFlow'
    BY DEF Flow, session
  <2>2. at["Cal"] = "off"
    BY <1>1, <2>1, OnlyOne DEF Machines
  <2>3. \A s \in DOMAIN Hears : <<s, "Init">> \notin posted'
    BY <1>1, <1>3 DEF Alone
  <2>4. {"ExposureDone", "FindStarsDone"} \subseteq DOMAIN Hears
    BY DEF Hears
  <2>5. QED
    BY <1>3, <2>1, <2>2, <2>3, <2>4 DEF FirstFlow, CalFlow, Calibrating, Waits, Hears
<1>6. QED
  BY <1>2, <1>4, <1>5 DEF CInv

(* It ends with the stars of the first frame, and nothing under way. *)
LEMMA InitEndsPurely ==
    ASSUME IInv, CInv, at["Init"] = "FindStarsFirst", <<"FindStarsDone", "Init">> \in posted,
           UNCHANGED <<cal, exposing, detecting>>, UNCHANGED session,
           NEW rest, Alone("Init", rest), Finishes("Init", rest), Compares(<<>>)
    PROVE  CInv'
<1>1. "Init" \in Machines /\ "FindStarsFirst" # "off"
  BY DEF Machines
<1>2. Kinds' /\ PostFits'
  BY <1>1, FinishesIsFit
<1>3. /\ at'["Cal"] = at["Cal"] \/ at'["Cal"] = "starting"
      /\ at'["Init"] = "off"
  BY DEF Finishes, Machines
<1>4. Books'
  BY <1>3, BooksKept DEF CInv, Calibrating, cal, pages, Waits, Hears
<1>5. Flow'
  <2>1. SUFFICES ASSUME ~spoiled PROVE FirstFlow' /\ CalFlow'
    BY DEF Flow, session
  <2>2. at["Cal"] = "off"
    BY <1>1, <2>1, OnlyOne DEF Machines
  <2>3. exposing' = {} /\ detecting' = {} /\ trail' = <<>>
    BY <2>1 DEF CInv, Flow, FirstFlow, Compares, Noted
  <2>4. QED
    BY <1>3, <2>2, <2>3 DEF FirstFlow, CalFlow, Calibrating, Waits, Hears
<1>6. QED
  BY <1>2, <1>4, <1>5 DEF CInv

-----------------------------------------------------------------------------
(* The machine that calibrates: it goes on to its next wait. *)
LEMMA CalGoesOnFits ==
    ASSUME IInv, CInv, NEW w \in Idle \cup Places.Cal, NEW rest, Alone("Cal", rest),
           Rests("Cal", w, rest)
    PROVE  /\ Kinds' /\ PostFits'
           /\ at'["Cal"] = w /\ at'["Init"] = at["Init"]
           /\ \A s \in DOMAIN Hears : <<s, "Cal">> \notin posted'
<1>1. "Cal" \in Machines /\ w \in Idle \cup Places["Cal"]
  BY DEF Machines
<1>2. Kinds' /\ PostFits'
  BY <1>1, RestsIsFit
<1>3. at'["Cal"] = w /\ at'["Init"] = at["Init"] /\ posted' = rest
  BY DEF Rests, IInv, Placed, Machines
<1>4. QED
  BY <1>1, <1>2, <1>3 DEF Alone

(* A pulse is sent, and it is the one of the books. *)
LEMMA CalPulsesPurely ==
    ASSUME IInv, CInv, at["Cal"] # "off", UNCHANGED session, Books',
           NEW rest, Alone("Cal", rest), Rests("Cal", "WaitCalPulses", rest),
           UNCHANGED <<exposing, detecting>>,
           ~spoiled => exposing = {} /\ detecting = {} /\ trail' = Pulse'
    PROVE  CInv'
<1>1. "Cal" \in Machines /\ "WaitCalPulses" \in Idle \cup Places.Cal
  BY DEF Machines, Places
<1>2. Kinds' /\ PostFits' /\ at'["Cal"] = "WaitCalPulses" /\ at'["Init"] = at["Init"]
  BY <1>1, CalGoesOnFits
<1>3. Flow'
  <2>1. SUFFICES ASSUME ~spoiled PROVE FirstFlow' /\ CalFlow'
    BY DEF Flow, session
  <2>2. at["Init"] = "off"
    BY <1>1, <2>1, OnlyOne DEF Machines
  <2>3. exposing' = {} /\ detecting' = {} /\ trail' = Pulse'
    BY <2>1
  <2>4. QED
    BY <1>2, <2>2, <2>3 DEF FirstFlow, CalFlow
<1>4. QED
  BY <1>2, <1>3 DEF CInv

LEMMA CalStartsPurely ==
    ASSUME IInv, CInv, "Cal" \in Starting, UNCHANGED session,
           StartCal(posted \ {<<"start", "Cal">>})
    PROVE  CInv'
<1> DEFINE rest == posted \ {<<"start", "Cal">>}
<1>1. /\ "Cal" \in Machines /\ Alone("Cal", rest)
      /\ at["Cal"] \in {"starting", "doomed"}
  BY StartIsAlone DEF Machines, IInv, Queued
<1>2. /\ calState' = 0 /\ calStep' = 0 /\ awaitingKick' = FALSE /\ samples' = <<>>
      /\ passes' = [d \in 1..4 |-> <<>>] /\ ~calibrated'
  BY DEF StartCal, FromWest
<1>3. Books'
  <2>1. DOMAIN passes' = 1..4 /\ \A d \in 1..4 : passes'[d] = <<>>
    BY <1>2
  <2>2. \A d \in 1..4 : passes'[d] \in Seq(Good(d))
    BY <2>1, EmptySeq
  <2>3. calState' \in 0..3 /\ calStep' \in 0..CalSteps - 1
    BY <1>2, GuiderAssumption
  <2>4. samples' \in Seq(Good(calState' + 1)) /\ Len(samples') = calStep'
    BY <1>2
  <2>5. \A d \in 1..calState' : Len(passes'[d]) = CalSteps
    BY <1>2
  <2>6. QED
    BY <1>2, <2>1, <2>2, <2>3, <2>4, <2>5 DEF Books, Good
<1>4. CASE at["Cal"] = "doomed"
  <2>1. Rests("Cal", "off", rest) /\ "off" \in Idle \cup Places.Cal
    BY <1>4 DEF StartCal, Idle
  <2>2. Kinds' /\ PostFits' /\ at'["Cal"] = "off" /\ at'["Init"] = at["Init"]
    BY <1>1, <2>1, CalGoesOnFits
  <2>3. Flow'
    <3>1. SUFFICES ASSUME ~spoiled PROVE FirstFlow' /\ CalFlow'
      BY DEF Flow, session
    <3>2. at["Init"] = "off"
      BY <1>1, <3>1, OnlyOne DEF Machines
    <3>3. QED
      BY <2>2, <3>2 DEF FirstFlow, CalFlow, Calibrating, Waits, Hears
  <2>4. QED
    BY <1>3, <2>2, <2>3 DEF CInv
<1>5. CASE at["Cal"] = "starting"
  <2>1. Rests("Cal", "WaitCalPulses", rest) /\ trail' = Noted(Append(trail, "W"))
    BY <1>5 DEF StartCal, SMRequestPulses
  <2>2. ASSUME ~spoiled PROVE exposing = {} /\ detecting = {} /\ trail' = Pulse'
    <3>1. exposing = {} /\ detecting = {} /\ trail = <<>>
      BY <1>5, <2>2 DEF CInv, Flow, CalFlow
    <3>2. trail' = <<"W">>
      BY <2>1, <2>2, <3>1 DEF Noted
    <3>3. Pulse' = <<"W">>
      BY <1>2 DEF Pulse, Directions
    <3>4. QED
      BY <3>1, <3>2, <3>3
  <2>3. UNCHANGED <<exposing, detecting>>
    BY DEF StartCal, camera, solver
  <2>4. QED
    BY <1>1, <1>3, <2>1, <2>2, <2>3, CalPulsesPurely
<1>6. QED
  BY <1>1, <1>4, <1>5

LEMMA CalExposesPurely ==
    ASSUME IInv, CInv, at["Cal"] = "WaitCalPulses", UNCHANGED session,
           UNCHANGED <<cal, mount, solver>>, NEW rest, Alone("Cal", rest), NEW event,
           SMRequestExposure("Cal", "WaitCalExposure", rest, event)
    PROVE  CInv'
<1>1. "Cal" \in Machines /\ "WaitCalExposure" \in Idle \cup Places.Cal
  BY DEF Machines, Places
<1>2. CASE SMAbort({"Cal"})
  BY <1>2, AbortIsPure DEF cal, pages
<1>3. CASE /\ Rests("Cal", "WaitCalExposure", rest)
           /\ exposing' = IF exposing # {} THEN exposing
                          ELSE {[own |-> TRUE, still |-> spoiled \/ pulsing = {}, trail |-> trail']}
  <2>1. /\ Kinds' /\ PostFits' /\ at'["Cal"] = "WaitCalExposure" /\ at'["Init"] = at["Init"]
        /\ <<"ExposureDone", "Cal">> \notin posted'
    BY <1>1, <1>3, CalGoesOnFits DEF Hears
  <2>2. Books'
    BY BooksKept DEF CInv, Calibrating, cal, pages, Waits, Hears
  <2>3. Flow'
    <3>1. SUFFICES ASSUME ~spoiled PROVE FirstFlow' /\ CalFlow'
      BY DEF Flow, session
    <3>2. at["Init"] = "off"
      BY <1>1, <3>1, OnlyOne DEF Machines
    <3>3. exposing = {} /\ detecting = {} /\ trail = Pulse
      BY <3>1 DEF CInv, Flow, CalFlow, Calibrating, Waits, Hears
    <3>4. Pulse' = Pulse /\ trail' = trail /\ detecting' = detecting
      BY DEF Pulse, cal, mount, solver
    <3>5. After(exposing)'
      BY <1>3, <3>3, <3>4 DEF After
    <3>6. QED
      BY <2>1, <3>2, <3>3, <3>4, <3>5 DEF FirstFlow, CalFlow
  <2>4. QED
    BY <2>1, <2>2, <2>3 DEF CInv
<1>4. QED
  BY <1>2, <1>3 DEF SMRequestExposure, Fails

LEMMA CalDetectsPurely ==
    ASSUME IInv, CInv, at["Cal"] = "WaitCalExposure", <<"ExposureDone", "Cal">> \in posted,
           UNCHANGED session, UNCHANGED <<cal, exposing, trail>>, NEW rest, Alone("Cal", rest),
           SMFindStars("Cal", "FindStarsCal", rest)
    PROVE  CInv'
<1>1. "Cal" \in Machines /\ "FindStarsCal" \in Idle \cup Places.Cal
  BY DEF Machines, Places
<1>2. /\ Kinds' /\ PostFits' /\ at'["Cal"] = "FindStarsCal" /\ at'["Init"] = at["Init"]
      /\ <<"FindStarsDone", "Cal">> \notin posted'
  BY <1>1, CalGoesOnFits DEF SMFindStars, Hears
<1>3. Books'
  BY BooksKept DEF CInv, Calibrating, cal, pages, Waits, Hears
<1>4. Flow'
  <2>1. SUFFICES ASSUME ~spoiled PROVE FirstFlow' /\ CalFlow'
    BY DEF Flow, session
  <2>2. at["Init"] = "off"
    BY <1>1, <2>1, OnlyOne DEF Machines
  <2>3. exposing = {} /\ detecting = {} /\ trail = Pulse /\ After(image)
    BY <2>1 DEF CInv, Flow, CalFlow, Calibrating, Waits, Hears
  <2>4. Pulse' = Pulse /\ trail' = trail /\ exposing' = exposing
    BY DEF Pulse, cal
  <2>5. detecting' = image
    BY <2>3 DEF SMFindStars
  <2>6. After(detecting)'
    BY <2>3, <2>4, <2>5 DEF After
  <2>7. QED
    BY <1>2, <2>2, <2>3, <2>4, <2>6 DEF FirstFlow, CalFlow
<1>5. QED
  BY <1>2, <1>3, <1>4 DEF CInv

-----------------------------------------------------------------------------
(* SMComputeCal(): the frame measured is the one after the pulse. *)

LEMMA SampleIsGood ==
    ASSUME CInv, at["Cal"] = "FindStarsCal", <<"FindStarsDone", "Cal">> \in posted,
           ~awaitingKick
    PROVE  /\ Sampled \in Seq(Good(calState + 1))
           /\ Len(Sampled) = calStep + 1
<1>1. Calibrating
  BY DEF Calibrating, Waits, Hears
<1>2. Sample \in Good(calState + 1)
  <2>1. CASE spoiled
    BY <2>1 DEF Sample, Good
  <2>2. CASE ~spoiled
    <3>1. seen # {} /\ \A f \in seen : f.trail = Pulse
      BY <2>2 DEF CInv, Flow, CalFlow, After
    <3>2. (CHOOSE f \in seen : TRUE).trail = Pulse
      BY <3>1
    <3>3. QED
      BY <2>2, <3>2 DEF Sample, Pulse, Good
  <2>3. QED
    BY <2>1, <2>2
<1>3. samples \in Seq(Good(calState + 1)) /\ Len(samples) = calStep
  BY <1>1 DEF CInv, Books
<1>4. QED
  BY <1>2, <1>3, AppendProperties DEF Sampled

(* What CalibrationDone and the next pass both rest on. *)
LEMMA PassIsFull ==
    ASSUME CInv, at["Cal"] = "FindStarsCal", <<"FindStarsDone", "Cal">> \in posted,
           ~awaitingKick, calStep + 1 >= CalSteps,
           passes' = [passes EXCEPT ![calState + 1] = Sampled]
    PROVE  /\ DOMAIN passes' = 1..4
           /\ \A d \in 1..4 : passes'[d] \in Seq(Good(d))
           /\ \A d \in 1..calState + 1 : Len(passes'[d]) = CalSteps
<1>1. /\ DOMAIN passes = 1..4 /\ \A d \in 1..4 : passes[d] \in Seq(Good(d))
      /\ calState \in 0..3 /\ calStep \in 0..CalSteps - 1
      /\ \A d \in 1..calState : Len(passes[d]) = CalSteps
  BY DEF CInv, Books, Calibrating, Waits, Hears
<1>2. calState + 1 \in 1..4 /\ CalSteps \in Nat
  BY <1>1, GuiderAssumption
<1>3. Sampled \in Seq(Good(calState + 1)) /\ Len(Sampled) = CalSteps
  BY <1>1, <1>2, SampleIsGood
<1>4. /\ passes'[calState + 1] = Sampled
      /\ \A d \in 1..4 : d # calState + 1 => passes'[d] = passes[d]
  BY <1>1, <1>2
<1>5. DOMAIN passes' = 1..4
  BY <1>1
<1>6. ASSUME NEW d \in 1..4 PROVE passes'[d] \in Seq(Good(d))
  <2>1. CASE d = calState + 1
    BY <1>3, <1>4, <2>1
  <2>2. CASE d # calState + 1
    BY <1>1, <1>4, <2>2
  <2>3. QED
    BY <2>1, <2>2
<1>7. ASSUME NEW d \in 1..calState + 1 PROVE Len(passes'[d]) = CalSteps
  <2>1. CASE d = calState + 1
    BY <1>3, <1>4, <2>1
  <2>2. CASE d # calState + 1
    <3>1. d \in 1..calState /\ d \in 1..4
      BY <1>1, <2>2
    <3>2. QED
      BY <1>1, <1>4, <2>2, <3>1
  <2>3. QED
    BY <2>1, <2>2
<1>8. QED
  BY <1>5, <1>6, <1>7

LEMMA FromWestIsPure ==
    ASSUME FromWest, ~calibrated' PROVE Books'
<1>1. DOMAIN passes' = 1..4 /\ \A d \in 1..4 : passes'[d] = <<>>
  BY DEF FromWest
<1>2. \A d \in 1..4 : passes'[d] \in Seq(Good(d))
  BY <1>1, EmptySeq
<1>3. calState' \in 0..3 /\ calStep' \in 0..CalSteps - 1
  BY GuiderAssumption DEF FromWest
<1>4. samples' \in Seq(Good(calState' + 1)) /\ Len(samples') = calStep'
  BY DEF FromWest
<1>5. \A d \in 1..calState' : Len(passes'[d]) = CalSteps
  BY DEF FromWest
<1>6. QED
  BY <1>1, <1>2, <1>3, <1>4, <1>5 DEF Books, Good

LEMMA CalComputesPurely ==
    ASSUME IInv, CInv, at["Cal"] = "FindStarsCal", <<"FindStarsDone", "Cal">> \in posted,
           UNCHANGED session, NEW rest, Alone("Cal", rest), SMComputeCal(rest)
    PROVE  CInv'
<1>1. "Cal" \in Machines /\ Calibrating
  BY DEF Machines, Calibrating, Waits, Hears
<1>2. /\ DOMAIN passes = 1..4 /\ \A d \in 1..4 : passes[d] \in Seq(Good(d))
      /\ calState \in 0..3 /\ calStep \in 0..CalSteps - 1 /\ ~calibrated
      /\ samples \in Seq(Good(calState + 1)) /\ Len(samples) = calStep
      /\ \A d \in 1..calState : Len(passes[d]) = CalSteps
  BY <1>1 DEF CInv, Books
<1>3. CalSteps \in Nat \ {0}
  BY GuiderAssumption
<1>4. UNCHANGED <<exposing, image, detecting>>
  BY DEF SMComputeCal, camera
<1>5. ASSUME ~spoiled
      PROVE  exposing = {} /\ detecting = {} /\ at["Init"] = "off"
  <2>1. exposing = {} /\ detecting = {}
    BY <1>5 DEF CInv, Flow, CalFlow
  <2>2. at["Init"] = "off"
    BY <1>1, <1>5, OnlyOne DEF Machines
  <2>3. QED
    BY <2>1, <2>2
<1>6. ASSUME NEW pulse, NEW direction, NEW event, PulsesNext(pulse, direction, rest, event),
             Books', Pulse' = <<pulse>>
      PROVE  CInv'
  <2>1. Rests("Cal", "WaitCalPulses", rest) /\ trail' = Noted(<<pulse>>)
    BY <1>6 DEF PulsesNext, SMRequestPulses, Compares
  <2>2. ~spoiled => exposing = {} /\ detecting = {} /\ trail' = Pulse'
    BY <1>5, <1>6, <2>1 DEF Noted
  <2>3. QED
    BY <1>4, <1>6, <2>1, <2>2, CalPulsesPurely DEF Waits, Hears
<1>7. CASE CalLost(rest)
  BY <1>7, AbortIsPure DEF CalLost, Fails, cal, pages
<1>8. CASE KickTaken(rest)
  <2>1. UNCHANGED pages /\ awaitingKick' = FALSE
    BY <1>8 DEF KickTaken, pages
  <2>2. Books'
    BY <1>1, <2>1, BooksKept DEF CInv
  <2>3. Pulse' = <<Directions[calState + 1]>>
    BY <2>1 DEF Pulse, pages
  <2>4. QED
    BY <1>6, <1>8, <2>2, <2>3 DEF KickTaken
<1>9. CASE StepTaken(rest)
  <2>1. /\ calStep' = calStep + 1 /\ samples' = Sampled /\ calStep + 1 < CalSteps
        /\ UNCHANGED <<calState, passes, calibrated, awaitingKick>> /\ ~awaitingKick
    BY <1>9 DEF StepTaken
  <2>2. samples' \in Seq(Good(calState' + 1)) /\ Len(samples') = calStep'
    BY <2>1, SampleIsGood
  <2>3. calStep' \in 0..CalSteps - 1
    BY <1>2, <1>3, <2>1
  <2>4. Books'
    BY <1>2, <2>1, <2>2, <2>3 DEF Books, Good
  <2>5. Pulse' = <<Directions[calState + 1]>>
    BY <2>1 DEF Pulse
  <2>6. QED
    BY <1>6, <1>9, <2>4, <2>5 DEF StepTaken
<1>10. CASE PassTaken(rest)
  <2>1. /\ calStep' = 0 /\ calState' = calState + 1 /\ samples' = <<>> /\ calState < 3
        /\ passes' = [passes EXCEPT ![calState + 1] = Sampled]
        /\ UNCHANGED calibrated /\ ~awaitingKick /\ calStep + 1 >= CalSteps
    BY <1>10 DEF PassTaken
  <2>2. /\ DOMAIN passes' = 1..4
        /\ \A d \in 1..4 : passes'[d] \in Seq(Good(d))
        /\ \A d \in 1..calState' : Len(passes'[d]) = CalSteps
    BY <2>1, PassIsFull
  <2>3. calState' \in 0..3 /\ calStep' \in 0..CalSteps - 1
    BY <1>2, <1>3, <2>1
  <2>4. samples' \in Seq(Good(calState' + 1)) /\ Len(samples') = calStep'
    BY <2>1
  <2>5. Books'
    BY <1>2, <2>1, <2>2, <2>3, <2>4 DEF Books, Good
  <2>6. awaitingKick' \in BOOLEAN
    BY <1>10 DEF PassTaken
  <2>7. Pulse' = <<IF awaitingKick' THEN "kick" ELSE Directions[calState' + 1]>>
    BY <2>6 DEF Pulse
  <2>8. QED
    BY <1>6, <1>10, <2>5, <2>7 DEF PassTaken
<1>11. CASE LastPassTaken(rest)
  <2>1. CASE FromWest /\ UNCHANGED calibrated /\ PulsesNext("W", "W", rest, "busy")
    <3>1. Books'
      BY <1>2, <2>1, FromWestIsPure
    <3>2. Pulse' = <<"W">>
      BY <2>1 DEF FromWest, Pulse, Directions
    <3>3. QED
      BY <1>6, <2>1, <3>1, <3>2
  <2>2. CASE Fails("Cal", "error") /\ UNCHANGED pages
    BY <2>2, AbortIsPure DEF Fails
  <2>3. CASE /\ passes' = [passes EXCEPT ![4] = Sampled]
             /\ ~awaitingKick /\ calStep + 1 >= CalSteps /\ calState = 3
             /\ Finishes("Cal", rest)
    <3>1. Kinds' /\ PostFits'
      BY <1>1, <2>3, FinishesIsFit
    <3>2. /\ DOMAIN passes' = 1..4
          /\ \A d \in 1..4 : passes'[d] \in Seq(Good(d))
          /\ \A d \in 1..4 : Len(passes'[d]) = CalSteps
      BY <2>3, PassIsFull
    <3>3. at'["Cal"] = "off" /\ (at'["Init"] = at["Init"] \/ at'["Init"] = "starting")
      BY <2>3 DEF Finishes, Machines
    <3>4. Books'
      BY <3>2, <3>3 DEF Books, Good, Calibrating, Waits, Hears
    <3>5. Flow'
      <4>1. SUFFICES ASSUME ~spoiled PROVE FirstFlow' /\ CalFlow'
        BY DEF Flow, session
      <4>2. QED
        BY <1>5, <3>3, <4>1 DEF FirstFlow, CalFlow, Calibrating, Waits, Hears
    <3>6. QED
      BY <3>1, <3>4, <3>5 DEF CInv
  <2>4. QED
    BY <1>11, <2>1, <2>2, <2>3 DEF LastPassTaken, pages
<1>12. QED
  BY <1>7, <1>8, <1>9, <1>10, <1>11 DEF SMComputeCal

-----------------------------------------------------------------------------
LEMMA StartsIsPure == ASSUME IInv, CInv, NEW m \in Machines, Starts(m) PROVE CInv'
<1>1. m \in Starting /\ UNCHANGED session
  BY DEF Starts, Starting
<1>2. QED
  BY <1>1, InitStartsPurely, CalStartsPurely, GuideStartsPurely DEF Starts

LEMMA ReactsIsPure ==
    ASSUME IInv, CInv, NEW m \in Machines, NEW signal \in DOMAIN Hears, Reacts(signal, m)
    PROVE  CInv'
<1> DEFINE rest == posted \ {<<signal, m>>}
<1>1. /\ <<signal, m>> \in posted /\ at[m] \in Hears[signal] /\ UNCHANGED session
      /\ Alone(m, rest)
  BY ReactionIsAlone DEF Reacts
<1>2. at[m] # "off" /\ at[m] \in Places[m]
  BY <1>1 DEF CInv, Kinds, Idle, Hears
<1>3. /\ Places["Init"] = Places.Init /\ Places["Cal"] = Places.Cal
      /\ Places["Guide"] = Places.Guide
  OBVIOUS
<1>4. CASE signal = "ExposureDone" /\ OnExposureDone(m, rest)
  <2>1. UNCHANGED <<cal, exposing, trail>> /\ SMFindStars(m, Detects[at[m]], rest)
    BY <1>4 DEF OnExposureDone, camera, mount
  <2>2. CASE m = "Init"
    <3>1. at["Init"] = "WaitFirstExposure"
      BY <1>1, <1>2, <1>4, <2>2 DEF Hears, Places
    <3>2. Rests("Init", "FindStarsFirst", rest)
      BY <2>1, <2>2, <3>1 DEF SMFindStars, Detects
    <3>3. ~spoiled => exposing' = {}
      BY <1>1, <1>4, <2>1, <2>2, <3>1 DEF CInv, Flow, FirstFlow
    <3>4. "FindStarsFirst" \in Places.Init
      BY DEF Places
    <3>5. QED
      BY <1>1, <1>2, <2>1, <2>2, <3>2, <3>3, <3>4, InitGoesOnPurely
  <2>3. CASE m = "Cal"
    <3>1. at["Cal"] = "WaitCalExposure"
      BY <1>1, <1>2, <1>4, <2>3 DEF Hears, Places
    <3>2. SMFindStars("Cal", "FindStarsCal", rest)
      BY <2>1, <2>3, <3>1 DEF Detects
    <3>3. QED
      BY <1>1, <1>4, <2>1, <2>3, <3>1, <3>2, CalDetectsPurely
  <2>4. CASE m = "Guide"
    <3>1. at["Guide"] \in {"WaitGuideExposure", "WaitRefExposure"}
      BY <1>1, <1>2, <1>4, <2>4 DEF Hears, Places
    <3>2. Rests("Guide", Detects[at["Guide"]], rest)
          /\ Detects[at["Guide"]] \in Idle \cup Places["Guide"]
      BY <2>1, <2>4, <3>1 DEF SMFindStars, Detects, Places
    <3>3. Kinds' /\ PostFits'
      BY <1>1, <2>4, <3>2, RestsIsFit
    <3>4. \A x \in Machines : x # "Guide" => at'[x] = at[x]
      BY <3>2 DEF Rests, IInv, Placed
    <3>5. Books' /\ Flow'
      BY <1>1, <1>2, <2>1, <2>4, <3>4, GuideIsPure DEF cal, pages, session
    <3>6. QED
      BY <3>3, <3>5 DEF CInv
  <2>5. QED
    BY <2>2, <2>3, <2>4 DEF Machines
<1>5. CASE signal \in {"FrameResetDone", "PulsesDone"} /\ OnReadyToExpose(m, rest)
  <2>1. UNCHANGED <<cal, mount, solver>> /\ SMRequestExposure(m, Exposes[at[m]], rest, said)
    BY <1>5 DEF OnReadyToExpose
  <2>2. CASE m = "Init"
    <3>1. at["Init"] = "WaitFrameReset"
      BY <1>1, <1>2, <1>5, <2>2 DEF Hears, Places
    <3>2. CASE SMAbort({m})
      BY <2>1, <3>2, AbortIsPure DEF cal, pages
    <3>3. CASE Rests(m, Exposes[at[m]], rest)
      <4>1. Rests("Init", "WaitFirstExposure", rest) /\ "WaitFirstExposure" \in Places.Init
        BY <2>2, <3>1, <3>3 DEF Exposes, Places
      <4>2. QED
        BY <1>1, <1>2, <2>1, <2>2, <4>1, InitGoesOnPurely
    <3>4. QED
      BY <2>1, <3>2, <3>3 DEF SMRequestExposure, Fails
  <2>3. CASE m = "Cal"
    <3>1. at["Cal"] = "WaitCalPulses"
      BY <1>1, <1>2, <1>5, <2>3 DEF Hears, Places
    <3>2. SMRequestExposure("Cal", "WaitCalExposure", rest, said)
      BY <2>1, <2>3, <3>1 DEF Exposes
    <3>3. QED
      BY <1>1, <2>1, <2>3, <3>1, <3>2, CalExposesPurely
  <2>4. CASE m = "Guide"
    <3>1. at["Guide"] \in {"WaitGuidePulses", "WaitDitherPulses"}
      BY <1>1, <1>2, <1>5, <2>4 DEF Hears, Places
    <3>2. Exposes[at["Guide"]] \in Places.Guide
      BY <3>1 DEF Exposes, Places
    <3>3. UNCHANGED pages /\ UNCHANGED spoiled
      BY <1>1, <2>1 DEF cal, pages, session
    <3>4. QED
      BY <1>1, <1>2, <2>1, <2>4, <3>2, <3>3, GuideExposesPurely
  <2>5. QED
    BY <2>2, <2>3, <2>4 DEF Machines
<1>6. CASE signal = "FindStarsDone" /\ OnFindStarsDone(m, rest)
  <2>1. CASE /\ at[m] = "FindStarsFirst" /\ Compares(<<>>) /\ Finishes(m, rest)
             /\ UNCHANGED <<guide, cal, camera, finished, pulsing, image, detecting, said, hitched>>
    <3>1. m = "Init"
      BY <1>2, <2>1 DEF Places, Machines
    <3>2. UNCHANGED <<cal, exposing, detecting>>
      BY <2>1 DEF camera
    <3>3. QED
      BY <1>1, <1>6, <2>1, <3>1, <3>2, InitEndsPurely
  <2>2. CASE m = "Cal" /\ at[m] = "FindStarsCal" /\ SMComputeCal(rest)
    BY <1>1, <1>6, <2>2, CalComputesPurely
  <2>3. CASE m = "Guide" /\ SMComputeGuide(rest)
    BY <1>1, <1>2, <2>3, GuideComputesPurely
  <2>4. CASE /\ at[m] = "FindStarsRef" /\ UNCHANGED cal
             /\ SMRequestExposure(m, "WaitGuideExposure", rest, "startguiding")
    <3>1. m = "Guide" /\ "WaitGuideExposure" \in Places.Guide
      BY <1>2, <2>4 DEF Places, Machines
    <3>2. UNCHANGED pages /\ UNCHANGED spoiled
      BY <1>1, <2>4 DEF cal, pages, session
    <3>3. QED
      BY <1>1, <1>2, <2>4, <3>1, <3>2, GuideExposesPurely
  <2>5. QED
    BY <1>6, <2>1, <2>2, <2>3, <2>4 DEF OnFindStarsDone
<1>7. QED
  BY <1>4, <1>5, <1>6 DEF Reacts

(* News is posted to those who wait for it. *)
LEMMA NewsFits ==
    ASSUME CInv, UNCHANGED at, NEW signal \in DOMAIN Hears,
           posted' \subseteq posted \cup Emits(signal, "")
    PROVE  Kinds' /\ PostFits'
<1>1. Kinds'
  BY DEF CInv, Kinds
<1>2. ASSUME NEW s \in DOMAIN Hears, NEW x \in Machines, <<s, x>> \in posted'
      PROVE  at'[x] \in Hears[s]
  <2>1. CASE <<s, x>> \in posted
    BY <2>1 DEF CInv, PostFits
  <2>2. CASE <<s, x>> \in Emits(signal, "")
    BY <2>2, EmitsAreHeard
  <2>3. QED
    BY <1>2, <2>1, <2>2
<1>3. QED
  BY <1>1, <1>2 DEF PostFits

LEMMA BooksStay == ASSUME CInv, UNCHANGED at, UNCHANGED cal PROVE Books'
BY BooksKept DEF CInv, Calibrating, cal, pages

LEMMA AnswersIsPure == ASSUME IInv, CInv, Answers \/ NoAnswer PROVE CInv'
<1>1. CASE FrameResetDone
  <2>1. /\ UNCHANGED at /\ UNCHANGED cal /\ posted' = posted \cup Emits("FrameResetDone", "")
        /\ UNCHANGED <<spoiled, exposing, trail, image, detecting, seen>>
    BY <1>1 DEF FrameResetDone, machines, session, mount, solver
  <2>2. Kinds' /\ PostFits'
    BY <2>1, NewsFits DEF Hears
  <2>3. \A s \in {"ExposureDone", "FindStarsDone"}, x \in Machines :
           <<s, x>> \in posted' => <<s, x>> \in posted
    BY <2>1 DEF Emits
  <2>4. Flow'
    BY <2>1, <2>3 DEF CInv, Flow, FirstFlow, CalFlow, Calibrating, After, Pulse, cal, Machines
  <2>5. QED
    BY <2>1, <2>2, <2>4, BooksStay DEF CInv
<1>2. CASE ExposureEnds
  <2>1. /\ UNCHANGED at /\ UNCHANGED cal /\ exposing # {} /\ exposing' = {}
        /\ UNCHANGED <<spoiled, trail, detecting, seen>>
        /\ \/ posted' = posted \cup Emits("ExposureDone", "") /\ image' = exposing
           \/ UNCHANGED <<posted, image>>
    BY <1>2 DEF ExposureEnds, machines, session, mount
  <2>2. posted' \subseteq posted \cup Emits("ExposureDone", "")
    BY <2>1
  <2>3. /\ Kinds' /\ PostFits'
        /\ \A x \in Machines :
              <<"FindStarsDone", x>> \in posted' => <<"FindStarsDone", x>> \in posted
    BY <2>1, <2>2, NewsFits DEF Hears, Emits
  <2>4. ~spoiled => FirstFlow' /\ CalFlow'
    <3>1. SUFFICES ASSUME ~spoiled PROVE FirstFlow' /\ CalFlow'
      OBVIOUS
    <3>2. FirstFlow /\ CalFlow
      BY <3>1 DEF CInv, Flow
    <3>3. Pulse' = Pulse
      BY <2>1 DEF Pulse, cal
    <3>4. FirstFlow'
      BY <2>1, <2>3, <3>2 DEF FirstFlow, Machines
    <3>5. ASSUME at["Cal"] = "WaitCalExposure", <<"ExposureDone", "Cal">> \in posted'
          PROVE  image' # {} /\ After(image)'
      BY <2>1, <3>2, <3>3, <3>5 DEF CalFlow, After
    <3>6. CalFlow'
      BY <2>1, <2>3, <3>2, <3>3, <3>5 DEF CalFlow, Calibrating, After, Machines
    <3>7. QED
      BY <3>4, <3>6
  <2>5. QED
    BY <2>1, <2>3, <2>4, BooksStay DEF CInv, Flow
<1>3. ASSUME NEW axis \in Axes, PulseEnds(axis) PROVE CInv'
  <2>1. /\ UNCHANGED at /\ UNCHANGED cal
        /\ posted' \subseteq posted \cup Emits("PulsesDone", "")
        /\ UNCHANGED <<spoiled, exposing, trail, image, detecting, seen>>
    BY <1>3 DEF PulseEnds, machines, session, camera, solver
  <2>2. Kinds' /\ PostFits'
    BY <2>1, NewsFits DEF Hears
  <2>3. \A s \in {"ExposureDone", "FindStarsDone"}, x \in Machines :
           <<s, x>> \in posted' => <<s, x>> \in posted
    BY <2>1 DEF Emits
  <2>4. Flow'
    BY <2>1, <2>3 DEF CInv, Flow, FirstFlow, CalFlow, Calibrating, After, Pulse, cal, Machines
  <2>5. QED
    BY <2>1, <2>2, <2>4, BooksStay DEF CInv
<1>4. CASE DetectionEnds
  <2>1. /\ UNCHANGED cal /\ detecting # {} /\ detecting' = {} /\ seen' = detecting
        /\ UNCHANGED <<spoiled, exposing, trail, image>>
    BY <1>4 DEF DetectionEnds, session, camera, mount
  <2>2. CASE SMAbort({})
    BY <2>1, <2>2, AbortIsPure DEF cal, pages
  <2>3. CASE UNCHANGED at /\ posted' \subseteq posted \cup Emits("FindStarsDone", "")
    <3>1. Kinds' /\ PostFits'
      BY <2>3, NewsFits DEF Hears
    <3>2. \A x \in Machines : <<"ExposureDone", x>> \in posted' => <<"ExposureDone", x>> \in posted
      BY <2>3 DEF Emits
    <3>3. ~spoiled => FirstFlow' /\ CalFlow'
      <4>1. SUFFICES ASSUME ~spoiled PROVE FirstFlow' /\ CalFlow'
        OBVIOUS
      <4>2. FirstFlow /\ CalFlow
        BY <4>1 DEF CInv, Flow
      <4>3. Pulse' = Pulse
        BY <2>1 DEF Pulse, cal
      <4>4. FirstFlow'
        BY <2>1, <2>3, <3>2, <4>2 DEF FirstFlow, Machines
      <4>5. CalFlow'
        BY <2>1, <2>3, <3>2, <4>2, <4>3 DEF CalFlow, Calibrating, After, Machines
      <4>6. QED
        BY <4>4, <4>5
    <3>4. QED
      BY <2>1, <2>3, <3>1, <3>3, BooksStay DEF CInv, Flow
  <2>4. QED
    BY <1>4, <2>2, <2>3 DEF DetectionEnds
<1>5. CASE NoAnswer
  <2>1. /\ UNCHANGED at /\ UNCHANGED cal /\ UNCHANGED posted
        /\ exposing' \in {exposing, {}} /\ detecting' \in {detecting, {}}
        /\ UNCHANGED <<spoiled, trail, image, seen>>
    BY <1>5 DEF NoAnswer, machines, session, camera
  <2>2. Kinds' /\ PostFits'
    BY <2>1 DEF CInv, Kinds, PostFits
  <2>3. Flow'
    BY <2>1 DEF CInv, Flow, FirstFlow, CalFlow, Calibrating, After, Pulse, cal
  <2>4. QED
    BY <2>1, <2>2, <2>3, BooksStay DEF CInv
<1>6. QED
  BY <1>1, <1>2, <1>3, <1>4, <1>5 DEF Answers

LEMMA RestIsPure == ASSUME IInv, CInv, Watchdog \/ Ready \/ Commands PROVE CInv'
<1>1. CASE SMAbort({}) /\ UNCHANGED cal
  BY <1>1, AbortIsPure DEF cal, pages
<1>2. CASE UNCHANGED <<at, posted, cal, camera, mount, solver, spoiled>>
  BY <1>2, BooksStay DEF CInv, Kinds, PostFits, Flow, FirstFlow, CalFlow, Calibrating, After,
                         Pulse, cal, camera, mount, solver
<1>3. CASE ResetCalibration
  <2>1. Kinds' /\ PostFits' /\ Flow'
    BY <1>3 DEF ResetCalibration, CInv, Kinds, PostFits, Flow, FirstFlow, CalFlow, Calibrating,
                After, Pulse, camera, mount, solver, session
  <2>2. Books'
    BY <1>3 DEF ResetCalibration, CInv, Books, Calibrating, Good
  <2>3. QED
    BY <2>1, <2>2 DEF CInv
<1>4. ASSUME NEW key, Begins(key) PROVE CInv'
  <2>1. /\ \A x \in Machines : \/ at'[x] = at[x]
                               \/ at[x] = "off" /\ at'[x] = "starting" /\ x = "Init"
        /\ \A s \in DOMAIN Hears, x \in Machines : <<s, x>> \in posted' => <<s, x>> \in posted
        /\ UNCHANGED cal
    BY <1>4 DEF Begins, IInv, Placed, Hears
  <2>2. Kinds'
    BY <2>1 DEF CInv, Kinds, Idle
  <2>3. PostFits'
    BY <2>1 DEF CInv, PostFits, Hears
  <2>4. Books'
    BY <2>1, BooksKept DEF CInv, Calibrating, cal, pages, Machines
  <2>5. Flow'
    <3>1. SUFFICES ASSUME ~spoiled' PROVE FirstFlow' /\ CalFlow'
      BY DEF Flow
    <3>2. at["Init"] = "off" /\ at["Cal"] = "off"
      BY <1>4, <3>1 DEF Begins, Off, Machines
    <3>3. at'["Init"] \in {"off", "starting"} /\ at'["Cal"] = "off"
      BY <2>1, <3>2 DEF Machines
    <3>4. QED
      BY <3>3 DEF FirstFlow, CalFlow, Calibrating, Waits, Hears
  <2>6. QED
    BY <2>2, <2>3, <2>4, <2>5 DEF CInv
<1>5. QED
  BY <1>1, <1>2, <1>3, <1>4 DEF Commands, Watchdog, Ready, AbortPressed, Dither, session

LEMMA CInvHolds == Spec => []CInv
<1>1. Init => CInv
  <2>1. SUFFICES ASSUME Init PROVE CInv
    OBVIOUS
  <2>2. \A d \in 1..4 : passes[d] = <<>> /\ passes[d] \in Seq(Good(d))
    BY <2>1, EmptySeq DEF Init
  <2>3. at["Init"] = "off" /\ at["Cal"] = "off"
    BY <2>1 DEF Init, Machines
  <2>4. Books
    BY <2>1, <2>2, <2>3 DEF Init, Books, Calibrating, Waits, Hears
  <2>5. Kinds /\ PostFits
    BY <2>1 DEF Init, Kinds, Idle, PostFits
  <2>6. Flow
    BY <2>3 DEF Flow, FirstFlow, CalFlow, Calibrating, Waits, Hears
  <2>7. QED
    BY <2>4, <2>5, <2>6 DEF CInv
<1>2. IInv /\ CInv /\ [Next]_vars => CInv'
  <2>1. SUFFICES ASSUME IInv, CInv, [Next]_vars PROVE CInv'
    OBVIOUS
  <2>2. CASE EventLoop
    BY <2>1, <2>2, StartsIsPure, ReactsIsPure DEF EventLoop
  <2>3. CASE UNCHANGED vars
    BY <2>1, <2>3, BooksStay DEF vars, CInv, Kinds, PostFits, Flow, FirstFlow, CalFlow, Calibrating,
                           After, Pulse, cal, camera, mount, solver, session
  <2>4. QED
    BY <2>1, <2>2, <2>3, AnswersIsPure, RestIsPure DEF Next
<1>3. QED
  BY <1>1, <1>2, IInvHolds, PTL DEF Spec

(* The rates guiding uses were measured over CalSteps pulses of each         *)
(* direction, and no sample holds the pulse of another direction, of an      *)
(* earlier try or a backlash kick (SMComputeCal(), guider.cpp).              *)
THEOREM RatesArePure == Spec => []PassesArePure
<1>1. CInv => PassesArePure
  <2>1. SUFFICES ASSUME CInv, calibrated,
                        \A d \in 1..4 : Len(passes[d]) = CalSteps,
                        NEW d \in 1..4, NEW i \in 1..CalSteps
                 PROVE  passes[d][i] \in Good(d)
    BY DEF CInv, Books, PassesArePure, Good
  <2>2. passes[d] \in Seq(Good(d)) /\ i \in 1..Len(passes[d])
    BY <2>1 DEF CInv, Books
  <2>3. QED
    BY <2>2
<1>2. QED
  BY <1>1, CInvHolds, PTL

-----------------------------------------------------------------------------
(* Timeouts.  While nothing is lost or late, what a machine waits for is on  *)
(* its way (Debts): its device is at work, or has answered and the answer is *)
(* in the queue.  For the mount that takes that each axis either moves or    *)
(* is finished, and that pulses are only sent to a mount at rest.            *)
Clean == ~spoiled /\ ~late /\ ~leftover
Told(signal, m) == <<signal, m>> \in posted
Due(m) ==
    /\ at[m] \in Hears.FrameResetDone => resetting \/ Told("FrameResetDone", m)
    /\ at[m] \in Hears.ExposureDone => (exposing # {} /\ expecting) \/ Told("ExposureDone", m)
    /\ at[m] \in Hears.FindStarsDone => detecting # {} \/ Told("FindStarsDone", m)
    /\ at[m] \in Hears.PulsesDone => pulsing # {} \/ Told("PulsesDone", m)
Calm(m) ==
    at[m] # "off" /\ (at[m] \in Hears.PulsesDone => Told("PulsesDone", m)) => pulsing = {}
Axles == finished \cup pulsing = Axes /\ finished \cap pulsing = {}
Debts == Clean => Axles /\ \A m \in Machines : Due(m) /\ Calm(m)

(* An exposure that is done has left an image, and no machine waits any more *)
(* when a session has timed out.                                             *)
HasImage == \A m \in Machines : Told("ExposureDone", m) => image # {}
TimeoutRests == said = "timeout" => ~armed /\ \A m \in Machines : ~Runs(m)

DInv == HasImage /\ TimeoutRests /\ Debts

(* A machine that is on is the only one, so that a step owes nothing to the  *)
(* others.                                                                   *)
LEMMA DebtsOfOne ==
    ASSUME IInv, NEW m \in Machines, at[m] # "off", Clean' => Clean,
           Clean => /\ Axles' /\ Due(m)' /\ Calm(m)'
                    /\ \A x \in Machines \ {m} :
                          at'[x] = at[x] \/ (at'[x] = "starting" /\ pulsing' = {})
    PROVE  Debts'
<1>1. SUFFICES ASSUME Clean', NEW x \in Machines \ {m} PROVE Due(x)' /\ Calm(x)'
  BY DEF Debts
<1>2. at[x] = "off"
  BY <1>1, OnlyOne DEF Clean
<1>3. at'[x] = "off" \/ (at'[x] = "starting" /\ pulsing' = {})
  BY <1>1, <1>2
<1>4. QED
  BY <1>3 DEF Due, Calm, Hears

LEMMA AbortOwesNothing ==
    ASSUME IInv, DInv, NEW m \in Machines, at[m] # "off", NEW ms, m \in ms \/ Runs(m),
           SMAbort(ms), Clean' => Clean, UNCHANGED <<finished, pulsing, image>>
    PROVE  DInv'
<1>1. /\ \A x \in Machines : at'[x] \in {"off", "doomed"}
      /\ \A x \in Machines : <<"ExposureDone", x>> \notin posted'
      /\ ~armed'
  BY DEF SMAbort, Disconnects, StopsAll
<1>2. HasImage' /\ TimeoutRests'
  BY <1>1 DEF HasImage, Told, TimeoutRests, Runs, Waits, Hears
<1>3. Debts'
  <2>1. SUFFICES ASSUME Clean' PROVE Axles' /\ \A x \in Machines : Due(x)' /\ Calm(x)'
    BY DEF Debts
  <2>2. Off'
    BY <2>1, AbortHalts DEF Clean
  <2>3. Axles'
    BY <2>1 DEF DInv, Debts, Axles
  <2>4. QED
    BY <2>2, <2>3 DEF Off, Due, Calm, Hears
<1>4. QED
  BY <1>2, <1>3 DEF DInv

(* A step of m tells the others at most that pulses are done. *)

LEMMA NewsOfOne ==
    ASSUME NEW m \in Machines, NEW rest, Alone(m, rest),
           posted' = rest \/ posted' = rest \cup Emits("PulsesDone", m)
    PROVE  /\ \A s \in DOMAIN Hears : ~Told(s, m)'
           /\ \A x \in Machines : Told("ExposureDone", x)' => Told("ExposureDone", x)
<1>1. \A s \in DOMAIN Hears, x \in Machines : <<s, x>> \in posted' =>
         \/ <<s, x>> \in posted /\ x # m
         \/ s = "PulsesDone" /\ x # m
  BY DEF Alone, Emits
<1>2. QED
  BY <1>1 DEF Told, Hears

LEMMA ExposureIsOwed ==
    ASSUME IInv, DInv, NEW m \in Machines, at[m] # "off",
           at[m] \in Hears.PulsesDone => Told("PulsesDone", m),
           NEW state \in Hears.ExposureDone, NEW rest, Alone(m, rest), NEW event, event # "timeout",
           \/ SMRequestExposure(m, state, rest, event)
           \/ SMRequestExposure(m, state, rest \cup Emits("PulsesDone", m), event),
           UNCHANGED <<finished, pulsing, image, session>>
    PROVE  DInv'
<1>1. Clean' => Clean
  BY DEF SMRequestExposure, Clean, session, hitched
<1>2. CASE SMAbort({m})
  BY <1>1, <1>2, AbortOwesNothing
<1>3. CASE /\ Rests(m, state, rest) \/ Rests(m, state, rest \cup Emits("PulsesDone", m))
           /\ exposing' # {} /\ expecting' = TRUE /\ said' = event
  <2>1. /\ at'[m] = state /\ \A x \in Machines \ {m} : at'[x] = at[x]
        /\ \A s \in DOMAIN Hears : ~Told(s, m)'
        /\ \A x \in Machines : Told("ExposureDone", x)' => Told("ExposureDone", x)
    BY <1>3, NewsOfOne DEF Rests, IInv, Placed
  <2>2. HasImage' /\ TimeoutRests'
    BY <1>3, <2>1 DEF DInv, HasImage, TimeoutRests
  <2>3. Clean => pulsing = {} /\ Axles
    BY DEF DInv, Debts, Calm
  <2>4. Debts'
    BY <1>1, <1>3, <2>1, <2>3, DebtsOfOne DEF Due, Calm, Hears, Axles
  <2>5. QED
    BY <2>2, <2>4 DEF DInv
<1>4. QED
  BY <1>2, <1>3 DEF SMRequestExposure, Fails

LEMMA FindStarsIsOwed ==
    ASSUME IInv, DInv, NEW m \in Machines, at[m] \in Hears.ExposureDone, Told("ExposureDone", m),
           NEW state \in Hears.FindStarsDone, NEW rest, Alone(m, rest),
           SMFindStars(m, state, rest), UNCHANGED <<finished, pulsing, image, session>>
    PROVE  DInv'
<1>1. /\ Rests(m, state, rest) /\ detecting' # {} /\ said' = said /\ UNCHANGED hitched
  BY DEF SMFindStars, DInv, HasImage
<1>2. /\ at'[m] = state /\ \A x \in Machines \ {m} : at'[x] = at[x]
      /\ \A s \in DOMAIN Hears : ~Told(s, m)'
      /\ \A x \in Machines : Told("ExposureDone", x)' => Told("ExposureDone", x)
  BY <1>1, NewsOfOne DEF Rests, IInv, Placed
<1>3. HasImage'
  BY <1>2 DEF DInv, HasImage
<1>4. TimeoutRests'
  BY <1>1 DEF DInv, TimeoutRests, Runs, Waits
<1>5. /\ Clean' => Clean
      /\ Clean => pulsing = {} /\ Axles
      /\ at[m] # "off"
  BY <1>1 DEF DInv, Debts, Calm, Clean, session, hitched, Hears
<1>6. Debts'
  BY <1>1, <1>2, <1>5, DebtsOfOne DEF Due, Calm, Hears, Axles
<1>7. QED
  BY <1>3, <1>4, <1>6 DEF DInv

LEMMA PulsesAreOwed ==
    ASSUME IInv, DInv, NEW m \in Machines, at[m] # "off", at[m] \notin Hears.PulsesDone,
           NEW state \in Hears.PulsesDone, NEW rest, Alone(m, rest),
           NEW axes \in (SUBSET Axes) \ {{}}, NEW flags \in {finished, Axes},
           NEW event, event # "timeout",
           SMRequestPulses(m, state, rest, axes, flags, event), UNCHANGED <<image, session, late>>
    PROVE  DInv'
<1>1. /\ at'[m] = state /\ \A x \in Machines \ {m} : at'[x] = at[x]
      /\ \A s \in DOMAIN Hears : ~Told(s, m)'
      /\ \A x \in Machines : Told("ExposureDone", x)' => Told("ExposureDone", x)
  BY NewsOfOne DEF SMRequestPulses, Rests, IInv, Placed
<1>2. HasImage' /\ TimeoutRests'
  BY <1>1 DEF DInv, HasImage, TimeoutRests, SMRequestPulses
<1>3. /\ Clean' => Clean
      /\ Clean => pulsing = {} /\ finished = Axes
  BY DEF DInv, Debts, Calm, Axles, Clean, session
<1>4. Clean => pulsing' = axes /\ finished' = Axes \ axes
  BY <1>3 DEF SMRequestPulses
<1>5. Debts'
  BY <1>1, <1>3, <1>4, DebtsOfOne DEF Due, Calm, Hears, Axles
<1>6. QED
  BY <1>2, <1>5 DEF DInv

(* A pulse that ends too early makes the session one that may time out. *)
LEMMA GuidePulsesAreOwed ==
    ASSUME IInv, DInv, at["Guide"] # "off", at["Guide"] \notin Hears.PulsesDone,
           NEW state \in Hears.PulsesDone, NEW rest, Alone("Guide", rest),
           NEW axes \in (SUBSET Axes) \ {{}}, NEW event, event # "timeout",
           SMRequestGuidePulses(state, rest, axes, event), UNCHANGED <<image, session>>
    PROVE  DInv'
<1>1. CASE SMRequestPulses("Guide", state, rest, axes, finished, event)
  BY <1>1, PulsesAreOwed DEF Machines, SMRequestPulses, hitched
<1>2. CASE /\ late' = TRUE /\ said' = event
           /\ posted' = rest \cup {<<"PulsesDone", "Guide">>}
  <2>1. Debts'
    BY <1>2 DEF Debts, Clean
  <2>2. HasImage' /\ TimeoutRests'
    BY <1>2 DEF DInv, HasImage, TimeoutRests, Told, Alone, Hears
  <2>3. QED
    BY <2>1, <2>2 DEF DInv
<1>3. QED
  BY <1>1, <1>2 DEF SMRequestGuidePulses, Rests

LEMMA FinishesOwesNothing ==
    ASSUME IInv, DInv, NEW m \in Machines, at[m] \in Hears.FindStarsDone,
           NEW rest, Alone(m, rest), Finishes(m, rest),
           said' # "timeout" \/ said' = said, UNCHANGED <<finished, pulsing, image, session, hitched>>
    PROVE  DInv'
<1> DEFINE next == {x \in Machines : <<m, x>> \in wire /\ at[x] = "off"}
<1>1. /\ at' = [x \in Machines |-> IF x = m THEN "off"
                                   ELSE IF x \in next THEN "starting" ELSE at[x]]
      /\ posted' = {p \in rest : p[2] # m} \cup {<<"start", x>> : x \in next}
  BY DEF Finishes
<1>2. HasImage'
  BY <1>1 DEF DInv, HasImage, Told, Alone, Hears
<1>3. TimeoutRests'
  BY DEF DInv, TimeoutRests, Runs, Waits
<1>4. /\ Clean' => Clean
      /\ Clean => pulsing = {} /\ Axles
      /\ at[m] # "off"
  BY DEF DInv, Debts, Calm, Clean, session, hitched, Hears
<1>5. /\ at'[m] = "off"
      /\ \A x \in Machines \ {m} : at'[x] \in {at[x], "starting"}
  BY <1>1
<1>6. Debts'
  BY <1>4, <1>5, DebtsOfOne DEF Due, Calm, Hears, Axles
<1>7. QED
  BY <1>2, <1>3, <1>6 DEF DInv

LEMMA StartsIsOwed == ASSUME IInv, CInv, DInv, NEW m \in Machines, Starts(m) PROVE DInv'
<1> DEFINE rest == posted \ {<<"start", m>>}
<1>1. m \in Starting /\ UNCHANGED session /\ Alone(m, rest)
  BY StartIsAlone DEF Starts, Starting
<1>2. at[m] \in {"starting", "doomed"} /\ \A s \in DOMAIN Hears : at[m] \notin Hears[s]
  BY <1>1 DEF IInv, Queued, Hears
<1>3. Clean => pulsing = {} /\ Axles
  BY <1>2 DEF DInv, Debts, Calm, Hears
<1>4. ASSUME Rests(m, "off", rest), said' # "timeout", UNCHANGED <<image, late>>,
             Clean => Axles' /\ pulsing' = {}
      PROVE  DInv'
  <2>1. /\ at'[m] = "off" /\ \A x \in Machines \ {m} : at'[x] = at[x]
        /\ \A x \in Machines : Told("ExposureDone", x)' => Told("ExposureDone", x)
    BY <1>1, <1>4, NewsOfOne DEF Rests, IInv, Placed
  <2>2. HasImage' /\ TimeoutRests'
    BY <1>4, <2>1 DEF DInv, HasImage, TimeoutRests
  <2>3. Clean' => Clean
    BY <1>1, <1>4 DEF Clean, session
  <2>4. Debts'
    BY <1>2, <1>4, <2>1, <2>3, DebtsOfOne DEF Due, Calm, Hears
  <2>5. QED
    BY <2>2, <2>4 DEF DInv
<1>5. CASE m = "Init" /\ StartInit(rest)
  <2>1. UNCHANGED <<finished, pulsing, image, late>>
    BY <1>5 DEF StartInit, mount, solver, hitched
  <2>2. CASE SMAbort({m})
    BY <1>1, <1>2, <2>1, <2>2, AbortOwesNothing DEF Clean, session
  <2>3. CASE Rests(m, "off", rest) /\ said' = "busy"
    BY <1>3, <1>4, <2>1, <2>3 DEF Axles
  <2>4. CASE Rests(m, "WaitFrameReset", rest) /\ resetting' /\ said' = "busy"
    <3>1. /\ at'[m] = "WaitFrameReset" /\ \A x \in Machines \ {m} : at'[x] = at[x]
          /\ \A x \in Machines : Told("ExposureDone", x)' => Told("ExposureDone", x)
      BY <1>1, <2>4, NewsOfOne DEF Rests, IInv, Placed
    <3>2. HasImage' /\ TimeoutRests'
      BY <2>1, <2>4, <3>1 DEF DInv, HasImage, TimeoutRests
    <3>3. Clean' => Clean
      BY <1>1, <2>1 DEF Clean, session
    <3>4. Debts'
      BY <1>2, <1>3, <2>1, <2>4, <3>1, <3>3, DebtsOfOne DEF Due, Calm, Hears, Axles
    <3>5. QED
      BY <3>2, <3>4 DEF DInv
  <2>5. QED
    BY <1>5, <2>2, <2>3, <2>4 DEF StartInit, Fails
<1>6. CASE m = "Cal" /\ StartCal(rest)
  <2>1. CASE Rests(m, "off", rest) /\ finished' = Axes /\ said' = "busy"
             /\ UNCHANGED <<hitched, pulsing>>
    BY <1>3, <1>4, <1>6, <2>1 DEF StartCal, Axles, solver, hitched
  <2>2. CASE SMRequestPulses("Cal", "WaitCalPulses", rest, {"RA"}, Axes, "busy")
    <3>1. /\ {"RA"} \in (SUBSET Axes) \ {{}} /\ "WaitCalPulses" \in Hears.PulsesDone
          /\ UNCHANGED late /\ UNCHANGED image
      BY <1>6, <2>2 DEF Axes, Hears, SMRequestPulses, hitched, StartCal, solver
    <3>2. QED
      BY <1>1, <1>2, <1>6, <2>2, <3>1, PulsesAreOwed DEF Hears
  <2>3. QED
    BY <1>6, <2>1, <2>2 DEF StartCal
<1>7. CASE m = "Guide" /\ StartGuide(rest)
  <2>1. UNCHANGED <<finished, pulsing, image>>
    BY <1>7 DEF StartGuide, mount, solver
  <2>2. CASE Rests(m, "off", rest) /\ said' = "startguiding" /\ UNCHANGED hitched
    BY <1>3, <1>4, <2>1, <2>2 DEF Axles, hitched
  <2>3. CASE SMRequestExposure(m, "WaitGuideExposure", rest, "startguiding")
    BY <1>1, <1>2, <2>1, <2>3, ExposureIsOwed DEF Hears
  <2>4. QED
    BY <1>7, <2>2, <2>3 DEF StartGuide
<1>8. QED
  BY <1>5, <1>6, <1>7 DEF Starts

LEMMA ComputeCalIsOwed ==
    ASSUME IInv, DInv, at["Cal"] = "FindStarsCal", NEW rest, Alone("Cal", rest),
           UNCHANGED session, SMComputeCal(rest)
    PROVE  DInv'
<1>1. /\ "Cal" \in Machines /\ at["Cal"] # "off" /\ Runs("Cal")
      /\ at["Cal"] \in Hears.FindStarsDone /\ at["Cal"] \notin Hears.PulsesDone
      /\ "WaitCalPulses" \in Hears.PulsesDone
  BY DEF Machines, Runs, Waits, Hears
<1>2. UNCHANGED image /\ said # "timeout"
  BY <1>1 DEF SMComputeCal, DInv, TimeoutRests
<1>3. ASSUME NEW pulse, NEW direction, NEW event, event # "timeout",
             PulsesNext(pulse, direction, rest, event)
      PROVE  DInv'
  <2>1. /\ SMRequestPulses("Cal", "WaitCalPulses", rest, {AxisOf(direction)}, finished, event)
        /\ UNCHANGED late
    BY <1>3 DEF PulsesNext, SMRequestPulses, hitched
  <2>2. {AxisOf(direction)} \in (SUBSET Axes) \ {{}}
    BY DEF AxisOf, Axes
  <2>3. QED
    BY <1>1, <1>2, <1>3, <2>1, <2>2, PulsesAreOwed
<1>4. ASSUME Fails("Cal", "error"), UNCHANGED <<finished, pulsing, hitched>> PROVE DInv'
  BY <1>1, <1>2, <1>4, AbortOwesNothing DEF Fails, Clean, session, hitched
<1>5. CASE CalLost(rest)
  BY <1>4, <1>5 DEF CalLost, mount
<1>6. CASE KickTaken(rest) \/ StepTaken(rest) \/ PassTaken(rest)
  <2>1. \E pulse, direction : \E event \in {said, "busy"} :
           PulsesNext(pulse, direction, rest, event)
    BY <1>6 DEF KickTaken, StepTaken, PassTaken
  <2>2. QED
    BY <1>2, <1>3, <2>1
<1>7. CASE LastPassTaken(rest)
  <2>1. CASE /\ Finishes("Cal", rest) /\ said' = "calcompleted"
             /\ UNCHANGED <<finished, pulsing, hitched>>
    BY <1>1, <1>2, <2>1, FinishesOwesNothing
  <2>2. CASE PulsesNext("W", "W", rest, "busy")
    BY <1>3, <2>2
  <2>3. QED
    BY <1>4, <1>7, <2>1, <2>2 DEF LastPassTaken
<1>8. QED
  BY <1>5, <1>6, <1>7 DEF SMComputeCal

LEMMA ComputeGuideIsOwed ==
    ASSUME IInv, DInv, at["Guide"] = "FindStarsGuide", NEW rest, Alone("Guide", rest),
           UNCHANGED session, SMComputeGuide(rest)
    PROVE  DInv'
<1>1. /\ "Guide" \in Machines /\ at["Guide"] # "off" /\ Runs("Guide")
      /\ at["Guide"] \notin Hears.PulsesDone
      /\ {"WaitGuidePulses", "WaitDitherPulses"} \subseteq Hears.PulsesDone
      /\ {"WaitGuideExposure", "WaitRefExposure"} \subseteq Hears.ExposureDone
  BY DEF Machines, Runs, Waits, Hears
<1>2. UNCHANGED image /\ said # "timeout"
  BY <1>1 DEF SMComputeGuide, DInv, TimeoutRests
<1>3. ASSUME NEW event, event # "timeout", GoesOn(rest, event) PROVE DInv'
  <2>1. /\ SMRequestExposure("Guide", "WaitGuideExposure",
                             rest \cup Emits("PulsesDone", "Guide"), event)
        /\ UNCHANGED <<finished, pulsing>>
    BY <1>3 DEF GoesOn, mount
  <2>2. QED
    BY <1>1, <1>2, <1>3, <2>1, ExposureIsOwed
<1>4. CASE MatchLost(rest)
  <2>1. CASE SMAbort({"Guide"}) /\ UNCHANGED <<mount, hitched>>
    BY <1>1, <1>2, <2>1, AbortOwesNothing DEF mount, hitched, Clean, session
  <2>2. QED
    BY <1>2, <1>3, <1>4, <2>1 DEF MatchLost
<1>5. CASE FirstFrameTaken(rest)
  BY <1>2, <1>3, <1>5 DEF FirstFrameTaken
<1>6. CASE DitherNow(rest)
  <2>1. PICK axes \in SUBSET Axes :
          IF axes = {}
          THEN /\ UNCHANGED mount
               /\ SMRequestExposure("Guide", "WaitRefExposure",
                                    rest \cup Emits("PulsesDone", "Guide"), "dithering")
          ELSE SMRequestGuidePulses("WaitDitherPulses", rest, axes, "dithering")
    BY <1>6 DEF DitherNow
  <2>2. CASE axes = {}
    BY <1>1, <1>2, <2>1, <2>2, ExposureIsOwed DEF mount
  <2>3. CASE axes # {}
    BY <1>1, <1>2, <2>1, <2>3, GuidePulsesAreOwed
  <2>4. QED
    BY <2>2, <2>3
<1>7. CASE Corrects(rest)
  <2>1. PICK axes \in SUBSET Axes :
          IF axes = {} THEN GoesOn(rest, "guideRMS")
          ELSE SMRequestGuidePulses("WaitGuidePulses", rest, axes, "guideRMS")
    BY <1>7 DEF Corrects
  <2>2. QED
    BY <1>1, <1>2, <1>3, <2>1, GuidePulsesAreOwed
<1>8. QED
  BY <1>4, <1>5, <1>6, <1>7 DEF SMComputeGuide

LEMMA ReactsIsOwed ==
    ASSUME IInv, CInv, DInv, NEW m \in Machines, NEW signal \in DOMAIN Hears, Reacts(signal, m)
    PROVE  DInv'
<1> DEFINE rest == posted \ {<<signal, m>>}
<1>1. /\ Told(signal, m) /\ at[m] \in Hears[signal] /\ UNCHANGED session
      /\ Alone(m, rest)
  BY ReactionIsAlone DEF Reacts, Told
<1>2. at[m] # "off" /\ at[m] \in Places[m] /\ said # "timeout"
  BY <1>1 DEF CInv, Kinds, Idle, Hears, DInv, TimeoutRests, Runs, Waits
<1>3. CASE signal = "ExposureDone" /\ OnExposureDone(m, rest)
  <2>1. /\ UNCHANGED <<finished, pulsing, image>>
        /\ SMFindStars(m, Detects[at[m]], rest)
    BY <1>3 DEF OnExposureDone, mount
  <2>2. Detects[at[m]] \in Hears.FindStarsDone
    BY <1>1, <1>3 DEF Detects, Hears
  <2>3. QED
    BY <1>1, <1>3, <2>1, <2>2, FindStarsIsOwed
<1>4. CASE signal \in {"FrameResetDone", "PulsesDone"} /\ OnReadyToExpose(m, rest)
  <2>1. /\ UNCHANGED <<finished, pulsing, image>>
        /\ SMRequestExposure(m, Exposes[at[m]], rest, said)
    BY <1>4 DEF OnReadyToExpose, mount, solver
  <2>2. /\ Exposes[at[m]] \in Hears.ExposureDone
        /\ at[m] \in Hears.PulsesDone => Told("PulsesDone", m)
    BY <1>1, <1>4 DEF Exposes, Hears
  <2>3. QED
    BY <1>1, <1>2, <2>1, <2>2, ExposureIsOwed
<1>5. CASE signal = "FindStarsDone" /\ OnFindStarsDone(m, rest)
  <2>1. CASE /\ Finishes(m, rest)
             /\ UNCHANGED <<finished, pulsing, image, said, hitched>>
    BY <1>1, <1>5, <2>1, FinishesOwesNothing
  <2>2. CASE m = "Cal" /\ at[m] = "FindStarsCal" /\ SMComputeCal(rest)
    BY <1>1, <2>2, ComputeCalIsOwed
  <2>3. CASE m = "Guide" /\ at[m] = "FindStarsGuide" /\ SMComputeGuide(rest)
    BY <1>1, <2>3, ComputeGuideIsOwed
  <2>4. CASE /\ at[m] = "FindStarsRef" /\ UNCHANGED <<finished, pulsing, image>>
             /\ SMRequestExposure(m, "WaitGuideExposure", rest, "startguiding")
    BY <1>1, <1>2, <2>4, ExposureIsOwed DEF Hears
  <2>5. QED
    BY <1>5, <2>1, <2>2, <2>3, <2>4 DEF OnFindStarsDone
<1>6. QED
  BY <1>3, <1>4, <1>5 DEF Reacts

(* What a device or the solver says is told to all that wait for it. *)
LEMMA AllAreTold ==
    ASSUME NEW signal \in DOMAIN Hears, posted' = posted \cup Emits(signal, ""),
           NEW s \in DOMAIN Hears, NEW x \in Machines
    PROVE  Told(s, x)' <=> Told(s, x) \/ (s = signal /\ at[x] \in Hears[s])
<1>1. Emits(signal, "") = {<<signal, y>> : y \in {z \in Machines : at[z] \in Hears[signal]}}
  BY DEF Emits, Machines
<1>2. <<s, x>> \in Emits(signal, "") <=> s = signal /\ at[x] \in Hears[s]
  BY <1>1
<1>3. QED
  BY <1>2 DEF Told

LEMMA AnswersIsOwed == ASSUME IInv, DInv, Answers \/ NoAnswer PROVE DInv'
<1>1. CASE FrameResetDone
  <2>1. /\ UNCHANGED <<at, armed, said, finished, pulsing, expecting, exposing, image, detecting>>
        /\ (Clean' <=> Clean) /\ posted' = posted \cup Emits("FrameResetDone", "")
    BY <1>1 DEF FrameResetDone, machines, session, mount, solver, hitched, Clean
  <2>2. \A s \in DOMAIN Hears, x \in Machines :
           Told(s, x)' <=> Told(s, x) \/ (s = "FrameResetDone" /\ at[x] \in Hears[s])
    BY <2>1, AllAreTold DEF Hears
  <2>3. HasImage' /\ TimeoutRests'
    BY <2>1, <2>2 DEF DInv, HasImage, TimeoutRests, Runs, Hears
  <2>4. Debts'
    BY <2>1, <2>2 DEF DInv, Debts, Due, Calm, Axles, Hears
  <2>5. QED
    BY <2>3, <2>4 DEF DInv
<1>2. CASE ExposureEnds
  <2>1. /\ UNCHANGED <<at, armed, said, finished, pulsing, resetting, detecting>>
        /\ Clean' <=> Clean
    BY <1>2 DEF ExposureEnds, machines, session, mount, hitched, Clean
  <2>2. CASE expecting
    <3>1. image' # {} /\ posted' = posted \cup Emits("ExposureDone", "")
      BY <1>2, <2>2 DEF ExposureEnds
    <3>2. \A s \in DOMAIN Hears, x \in Machines :
             Told(s, x)' <=> Told(s, x) \/ (s = "ExposureDone" /\ at[x] \in Hears[s])
      BY <3>1, AllAreTold DEF Hears
    <3>3. HasImage' /\ TimeoutRests'
      BY <2>1, <3>1 DEF DInv, HasImage, TimeoutRests, Runs
    <3>4. Debts'
      BY <2>1, <3>2 DEF DInv, Debts, Due, Calm, Axles, Hears
    <3>5. QED
      BY <3>3, <3>4 DEF DInv
  <2>3. CASE ~expecting
    <3>1. UNCHANGED <<posted, image>>
      BY <1>2, <2>3 DEF ExposureEnds
    <3>2. QED
      BY <2>1, <2>3, <3>1 DEF DInv, HasImage, TimeoutRests, Runs, Debts, Due, Calm, Axles, Told
  <2>4. QED
    BY <2>2, <2>3
<1>3. ASSUME NEW axis \in Axes, PulseEnds(axis) PROVE DInv'
  <2>1. /\ UNCHANGED <<at, armed, said, resetting, expecting, exposing, image, detecting>>
        /\ Clean' <=> Clean
        /\ axis \in pulsing /\ pulsing' = pulsing \ {axis} /\ finished' = finished \cup {axis}
        /\ posted' = IF finished' = Axes THEN posted \cup Emits("PulsesDone", "") ELSE posted
    BY <1>3 DEF PulseEnds, machines, session, camera, solver, hitched, Clean
  <2>2. \A s \in DOMAIN Hears, x \in Machines :
           Told(s, x)' <=> \/ Told(s, x)
                           \/ s = "PulsesDone" /\ finished' = Axes /\ at[x] \in Hears[s]
    BY <2>1, AllAreTold DEF Told, Hears
  <2>3. HasImage' /\ TimeoutRests'
    BY <2>1, <2>2 DEF DInv, HasImage, TimeoutRests, Runs, Hears
  <2>4. ASSUME Clean, NEW x \in Machines PROVE Axles' /\ Due(x)' /\ Calm(x)'
    <3>1. Axles /\ Due(x) /\ Calm(x)
      BY <2>4 DEF DInv, Debts
    <3>2. Axles' /\ (pulsing' = {} <=> finished' = Axes)
      BY <2>1, <3>1 DEF Axles
    <3>3. Due(x)'
      BY <2>1, <2>2, <3>1, <3>2 DEF Due, Hears
    <3>4. Calm(x)'
      BY <2>1, <2>2, <3>1, <3>2 DEF Calm, Hears
    <3>5. QED
      BY <3>2, <3>3, <3>4
  <2>5. Debts'
    BY <2>1, <2>4 DEF Debts, Machines
  <2>6. QED
    BY <2>3, <2>5 DEF DInv
<1>4. CASE DetectionEnds
  <2>1. UNCHANGED <<finished, pulsing, image, resetting, exposing>> /\ (Clean' <=> Clean)
    BY <1>4 DEF DetectionEnds, session, camera, mount, hitched, Clean
  <2>2. ASSUME NEW m \in Machines, Runs(m), SMAbort({}) PROVE DInv'
    BY <2>1, <2>2, AbortOwesNothing DEF Runs, Waits, Hears
  <2>3. CASE /\ posted' = posted \cup Emits("FindStarsDone", "")
             /\ UNCHANGED <<at, armed, expecting, said>>
    <3>1. \A s \in DOMAIN Hears, x \in Machines :
             Told(s, x)' <=> Told(s, x) \/ (s = "FindStarsDone" /\ at[x] \in Hears[s])
      BY <2>3, AllAreTold DEF Hears
    <3>2. HasImage' /\ TimeoutRests'
      BY <2>1, <2>3, <3>1 DEF DInv, HasImage, TimeoutRests, Runs, Hears
    <3>3. Debts'
      BY <2>1, <2>3, <3>1 DEF DInv, Debts, Due, Calm, Axles, Hears
    <3>4. QED
      BY <3>2, <3>3 DEF DInv
  <2>4. CASE /\ \A m \in Machines : ~Runs(m)
             /\ said' = "error" /\ UNCHANGED <<at, posted>>
    <3>1. HasImage' /\ TimeoutRests'
      BY <2>1, <2>4 DEF DInv, HasImage, TimeoutRests, Told
    <3>2. Debts'
      BY <2>1, <2>4 DEF DInv, Debts, Due, Calm, Axles, Told, Runs, Waits
    <3>3. QED
      BY <3>1, <3>2 DEF DInv
  <2>5. QED
    BY <1>4, <2>2, <2>3, <2>4 DEF DetectionEnds
<1>5. CASE NoAnswer
  <2>1. ~Clean' /\ UNCHANGED <<at, armed, said, posted, image>>
    BY <1>5 DEF NoAnswer, machines, Clean
  <2>2. QED
    BY <2>1 DEF DInv, HasImage, TimeoutRests, Runs, Debts, Told
<1>6. QED
  BY <1>1, <1>2, <1>3, <1>4, <1>5 DEF Answers

LEMMA RestIsOwed == ASSUME IInv, CInv, DInv, Watchdog \/ Ready \/ Commands PROVE DInv'
<1>1. ASSUME NEW m \in Machines, Runs(m), SMAbort({}), UNCHANGED <<mount, solver>>, Clean' => Clean
      PROVE  DInv'
  BY <1>1, AbortOwesNothing DEF Runs, Waits, Hears, mount, solver
<1>2. ASSUME UNCHANGED <<at, posted, expecting, camera, mount, solver, session, hitched>>,
             said' \in {said, "ready"}, (armed' => armed)
      PROVE  DInv'
  <2>1. (Clean' <=> Clean) /\ UNCHANGED <<finished, pulsing, resetting, exposing, image, detecting>>
    BY <1>2 DEF Clean, session, hitched, mount, camera, solver
  <2>2. HasImage' /\ TimeoutRests'
    BY <1>2, <2>1 DEF DInv, HasImage, TimeoutRests, Told, Runs
  <2>3. Debts'
    BY <1>2, <2>1 DEF DInv, Debts, Due, Calm, Axles, Told
  <2>4. QED
    BY <2>2, <2>3 DEF DInv
<1>3. CASE Watchdog
  <2>1. Clean' => Clean
    BY <1>3 DEF Watchdog, Clean, session, hitched
  <2>2. QED
    BY <1>1, <1>2, <1>3, <2>1 DEF Watchdog
<1>4. CASE Ready \/ Dither \/ ResetCalibration
  BY <1>2, <1>4 DEF Ready, Dither, ResetCalibration
<1>5. CASE AbortPressed
  BY <1>1, <1>5 DEF AbortPressed, Clean, session, hitched
<1>6. ASSUME NEW key, Begins(key) PROVE DInv'
  <2>1. /\ \A x \in Machines : at'[x] = at[x] \/ (at[x] = "off" /\ at'[x] = "starting")
        /\ \A s \in DOMAIN Hears, x \in Machines : Told(s, x)' <=> Told(s, x)
        /\ image' = {} => image = {}
        /\ UNCHANGED <<armed, said>>
    <3>1. \A x \in Machines : at'[x] = at[x] \/ (at[x] = "off" /\ at'[x] = "starting")
      BY <1>6 DEF Begins, IInv, Placed
    <3>2. \A s \in DOMAIN Hears, x \in Machines : Told(s, x)' <=> Told(s, x)
      BY <1>6 DEF Begins, Hears, Told
    <3>3. image' = NotOwn(image) \/ image' = image
      BY <1>6 DEF Begins, solver
    <3>4. image' = {} => image = {}
      BY <3>3 DEF NotOwn
    <3>5. QED
      BY <1>6, <3>1, <3>2, <3>4 DEF Begins
  <2>2. HasImage' /\ TimeoutRests'
    BY <2>1 DEF DInv, HasImage, TimeoutRests, Runs, Waits, Hears
  <2>3. Debts'
    <3>1. SUFFICES ASSUME Clean' PROVE Axles' /\ \A x \in Machines : Due(x)' /\ Calm(x)'
      BY DEF Debts
    <3>2. Off /\ finished' = Axes /\ pulsing' = {}
      BY <1>6, <3>1 DEF Begins, Clean, AllQuiet, mount
    <3>3. \A x \in Machines : at'[x] \in {"off", "starting"}
      BY <2>1, <3>2 DEF Off
    <3>4. QED
      BY <3>2, <3>3 DEF Axles, Due, Calm, Hears
  <2>4. QED
    BY <2>2, <2>3 DEF DInv
<1>7. QED
  BY <1>3, <1>4, <1>5, <1>6 DEF Commands

LEMMA DInvHolds == Spec => []DInv
<1>1. Init => DInv
  BY DEF Init, DInv, HasImage, Told, TimeoutRests, Runs, Waits, Hears, Debts, Axles, Due, Calm
<1>2. IInv /\ CInv /\ DInv /\ [Next]_vars => DInv'
  <2>1. SUFFICES ASSUME IInv, CInv, DInv, [Next]_vars PROVE DInv'
    OBVIOUS
  <2>2. CASE EventLoop
    BY <2>1, <2>2, StartsIsOwed, ReactsIsOwed DEF EventLoop
  <2>3. CASE UNCHANGED vars
    BY <2>1, <2>3 DEF vars, DInv, HasImage, Told, TimeoutRests, Runs, Debts, Axles, Due, Calm,
                      Clean, camera, mount, solver, session, hitched
  <2>4. QED
    BY <2>1, <2>2, <2>3, AnswersIsOwed, RestIsOwed DEF Next
<1>3. QED
  BY <1>1, <1>2, IInvHolds, CInvHolds, PTL DEF Spec

(* Only the watchdog says "timeout". *)
Words == {said, "busy", "error", "startguiding", "calcompleted", "dithering", "guideRMS"}

LEMMA ExposureSays ==
    ASSUME NEW m, NEW state, NEW rest, NEW event \in Words, SMRequestExposure(m, state, rest, event)
    PROVE  said' \in Words
BY DEF SMRequestExposure, Fails, Words

LEMMA StartsSays == ASSUME NEW m \in Machines, Starts(m) PROVE said' \in Words
<1> DEFINE rest == posted \ {<<"start", m>>}
<1>1. CASE StartInit(rest)
  BY <1>1 DEF StartInit, Fails, Words
<1>2. CASE StartCal(rest)
  BY <1>2 DEF StartCal, SMRequestPulses, Words
<1>3. CASE StartGuide(rest)
  BY <1>3, ExposureSays DEF StartGuide, Words
<1>4. QED
  BY <1>1, <1>2, <1>3 DEF Starts

LEMMA ReactsSays ==
    ASSUME NEW m \in Machines, NEW signal \in DOMAIN Hears, Reacts(signal, m) PROVE said' \in Words
<1> DEFINE rest == posted \ {<<signal, m>>}
<1>1. {said, "busy", "startguiding", "dithering", "guideRMS"} \subseteq Words
  BY DEF Words
<1>2. CASE OnExposureDone(m, rest) \/ OnReadyToExpose(m, rest)
  BY <1>1, <1>2, ExposureSays DEF OnExposureDone, SMFindStars, OnReadyToExpose, Words
<1>3. CASE OnFindStarsDone(m, rest)
  <2>1. CASE SMComputeCal(rest)
    <3>1. CASE CalLost(rest)
      BY <3>1 DEF CalLost, Fails, Words
    <3>2. CASE KickTaken(rest) \/ StepTaken(rest) \/ PassTaken(rest)
      BY <3>2 DEF KickTaken, StepTaken, PassTaken, PulsesNext, SMRequestPulses, Words
    <3>3. CASE LastPassTaken(rest)
      BY <3>3 DEF LastPassTaken, PulsesNext, SMRequestPulses, Fails, Words
    <3>4. QED
      BY <2>1, <3>1, <3>2, <3>3 DEF SMComputeCal
  <2>2. CASE SMComputeGuide(rest)
    <3>1. ASSUME NEW event \in Words, GoesOn(rest, event) PROVE said' \in Words
      BY <3>1, ExposureSays DEF GoesOn
    <3>2. ASSUME NEW event \in Words, NEW state, NEW axes,
                 SMRequestGuidePulses(state, rest, axes, event)
          PROVE  said' \in Words
      BY <3>2 DEF SMRequestGuidePulses, SMRequestPulses
    <3>3. CASE MatchLost(rest)
      BY <1>1, <3>1, <3>3 DEF MatchLost, Words
    <3>4. CASE FirstFrameTaken(rest)
      BY <1>1, <3>1, <3>4 DEF FirstFrameTaken
    <3>5. CASE DitherNow(rest)
      BY <1>1, <3>2, <3>5, ExposureSays DEF DitherNow
    <3>6. CASE Corrects(rest)
      BY <1>1, <3>1, <3>2, <3>6 DEF Corrects
    <3>7. QED
      BY <2>2, <3>3, <3>4, <3>5, <3>6 DEF SMComputeGuide
  <2>3. QED
    BY <1>1, <1>3, <2>1, <2>2, ExposureSays DEF OnFindStarsDone
<1>4. QED
  BY <1>2, <1>3 DEF Reacts

LEMMA TimeoutIsDeserved ==
    ASSUME IInv, DInv, [Next]_vars, said' = "timeout", armed, ~armed'
    PROVE  late' \/ leftover \/ spoiled
<1>1. said # "timeout" /\ said' \notin Words
  BY DEF DInv, TimeoutRests, Words
<1>2. ~EventLoop
  BY <1>1, StartsSays, ReactsSays DEF EventLoop
<1>3. ~Answers /\ ~NoAnswer
  BY <1>1 DEF Answers, NoAnswer, FrameResetDone, ExposureEnds, PulseEnds, DetectionEnds
<1>4. ~Ready /\ ~Commands /\ ~UNCHANGED vars
  BY <1>1 DEF Ready, Commands, Begins, AbortPressed, Dither, ResetCalibration, vars
<1>5. Watchdog
  BY <1>2, <1>3, <1>4 DEF Next
<1>6. PICK m \in Machines : Runs(m)
  BY <1>1, <1>5 DEF Watchdog
<1>7. CASE AllQuiet
  <2>1. SUFFICES ASSUME Clean PROVE FALSE
    BY <1>5, <1>7 DEF Watchdog, Clean, hitched
  <2>2. Due(m)
    BY <2>1 DEF DInv, Debts
  <2>3. QED
    BY <1>6, <1>7, <2>2 DEF Due, Told, Runs, Waits, AllQuiet
<1>8. CASE late' = TRUE
  BY <1>8
<1>9. QED
  BY <1>5, <1>6, <1>7, <1>8 DEF Watchdog

(* The watchdog (guider.cpp) ends a session that began with the devices at   *)
(* rest only when an answer was lost or came late: no signal is emitted      *)
(* before the machine that is to react to it waits for it.                   *)
THEOREM TimeoutsHaveReasons == Spec => TimeoutsAreDeserved
<1>1. IInv /\ DInv /\ [Next]_vars
        => [said' = "timeout" /\ armed /\ ~armed' => late' \/ leftover \/ spoiled]_vars
  BY TimeoutIsDeserved
<1>2. QED
  BY <1>1, IInvHolds, DInvHolds, PTL DEF Spec, TimeoutsAreDeserved

-----------------------------------------------------------------------------
(* Corrections.  The frame of the guiding machine is followed as that of a   *)
(* calibration was (CalFlow): once the machine is reached, neither camera    *)
(* nor solver holds anything of a session before, and the mount is at rest   *)
(* when it exposes (Calm).                                                   *)
Apt(frames) == \A f \in frames : f.own /\ f.trail = <<>> /\ (f.still \/ leftover \/ late)

GuideFlow ==
    /\ at["Guide"] \in {"starting", "WaitGuidePulses", "WaitDitherPulses"} =>
          exposing = {} /\ detecting = {}
    /\ at["Guide"] \in {"starting", "WaitGuideExposure", "FindStarsGuide", "WaitGuidePulses"} =>
          trail = <<>>
    /\ at["Guide"] \in {"WaitGuideExposure", "WaitRefExposure"} =>
          detecting = {} /\ (Told("ExposureDone", "Guide") => exposing = {})
    /\ at["Guide"] \in {"FindStarsGuide", "FindStarsRef"} =>
          exposing = {} /\ (Told("FindStarsDone", "Guide") => detecting = {})
    /\ at["Guide"] = "WaitGuideExposure" =>
          Apt(exposing) /\ (Told("ExposureDone", "Guide") => Apt(image))
    /\ at["Guide"] = "FindStarsGuide" =>
          Apt(detecting) /\ (Told("FindStarsDone", "Guide") => Apt(seen))

EInv == ~spoiled => GuideFlow

LEMMA GuideAway ==
    ASSUME at'["Guide"] \in {"off", "doomed"} PROVE GuideFlow'
BY DEF GuideFlow

LEMMA AbortIsApt == ASSUME NEW ms, SMAbort(ms) PROVE EInv'
<1>1. at'["Guide"] \in {"off", "doomed"}
  BY DEF SMAbort, Disconnects, StopsAll, Machines
<1>2. QED
  BY <1>1, GuideAway DEF EInv

LEMMA GuideExposesAptly ==
    ASSUME IInv, DInv, at["Guide"] # "off", exposing = {}, detecting = {}, ~spoiled,
           at["Guide"] \in Hears.PulsesDone => Told("PulsesDone", "Guide"),
           NEW state \in {"WaitGuideExposure", "WaitRefExposure"}, NEW rest, Alone("Guide", rest),
           state = "WaitGuideExposure" => trail' = <<>>, NEW event,
           \/ SMRequestExposure("Guide", state, rest, event)
           \/ SMRequestExposure("Guide", state, rest \cup Emits("PulsesDone", "Guide"), event),
           UNCHANGED <<detecting, session>>
    PROVE  EInv'
<1>1. CASE SMAbort({"Guide"})
  BY <1>1, AbortIsApt
<1>2. CASE /\ Rests("Guide", state, rest) \/ Rests("Guide", state, rest \cup Emits("PulsesDone", "Guide"))
           /\ exposing' = {[own |-> TRUE, still |-> spoiled \/ pulsing = {}, trail |-> trail']}
           /\ UNCHANGED hitched
  <2>1. "Guide" \in Machines
    BY DEF Machines
  <2>2. at'["Guide"] = state /\ ~Told("ExposureDone", "Guide")'
    BY <1>2, <2>1, NewsOfOne DEF Rests, IInv, Placed, Hears
  <2>3. pulsing = {} \/ leftover \/ late
    BY <2>1 DEF DInv, Debts, Calm, Clean
  <2>4. state = "WaitGuideExposure" => Apt(exposing)'
    <3>1. SUFFICES ASSUME trail' = <<>>, NEW f \in exposing'
                   PROVE  f.own /\ f.trail = <<>> /\ (f.still \/ leftover' \/ late')
      BY DEF Apt
    <3>2. f = [own |-> TRUE, still |-> spoiled \/ pulsing = {}, trail |-> <<>>]
      BY <1>2, <3>1
    <3>3. f.own /\ f.trail = <<>> /\ (pulsing = {} => f.still)
      BY <3>2
    <3>4. leftover' = leftover /\ late' = late
      BY <1>2 DEF session, hitched
    <3>5. QED
      BY <2>3, <3>3, <3>4
  <2>5. QED
    BY <2>2, <2>4 DEF EInv, GuideFlow
<1>3. QED
  BY <1>1, <1>2 DEF SMRequestExposure, Fails

LEMMA GuidePulsesAptly ==
    ASSUME IInv, exposing = {}, detecting = {},
           NEW state \in {"WaitGuidePulses", "WaitDitherPulses"}, NEW rest,
           state = "WaitGuidePulses" => trail' = <<>>, NEW axes, NEW event,
           SMRequestGuidePulses(state, rest, axes, event), UNCHANGED <<exposing, detecting>>
    PROVE  EInv'
<1>1. at'["Guide"] = state
  BY DEF SMRequestGuidePulses, SMRequestPulses, Rests, IInv, Placed, Machines
<1>2. QED
  BY <1>1 DEF EInv, GuideFlow

LEMMA GuideStartsAptly ==
    ASSUME IInv, CInv, DInv, EInv, ~spoiled, Starts("Guide") PROVE EInv'
<1> DEFINE rest == posted \ {<<"start", "Guide">>}
<1>1. /\ "Guide" \in Machines /\ "Guide" \in Starting /\ UNCHANGED session
      /\ Alone("Guide", rest) /\ StartGuide(rest)
  BY StartIsAlone DEF Starts, Starting, Machines
<1>2. at["Guide"] \in {"starting", "doomed"}
  BY <1>1 DEF IInv, Queued
<1>3. CASE at["Guide"] = "doomed"
  <2>1. at'["Guide"] = "off"
    BY <1>1, <1>3 DEF StartGuide, Rests, IInv, Placed
  <2>2. QED
    BY <2>1, GuideAway DEF EInv
<1>4. CASE at["Guide"] = "starting"
  <2>1. exposing = {} /\ detecting = {} /\ trail = <<>>
    BY <1>4 DEF EInv, GuideFlow
  <2>2. /\ SMRequestExposure("Guide", "WaitGuideExposure", rest, "startguiding")
        /\ UNCHANGED <<trail, detecting>>
    BY <1>1, <1>4 DEF StartGuide, mount, solver
  <2>3. QED
    BY <1>1, <1>4, <2>1, <2>2, GuideExposesAptly DEF Hears
<1>5. QED
  BY <1>2, <1>3, <1>4

LEMMA GuideReactsAptly ==
    ASSUME IInv, CInv, DInv, EInv, ~spoiled, NEW signal \in DOMAIN Hears, Reacts(signal, "Guide")
    PROVE  EInv'
<1> DEFINE rest == posted \ {<<signal, "Guide">>}
<1>1. /\ "Guide" \in Machines
      /\ Told(signal, "Guide") /\ at["Guide"] \in Hears[signal] /\ UNCHANGED session
      /\ Alone("Guide", rest)
  BY ReactionIsAlone DEF Reacts, Told, Machines
<1>2. at["Guide"] # "off" /\ at["Guide"] \in Places["Guide"] /\ GuideFlow
  BY <1>1 DEF CInv, Kinds, Idle, Hears, EInv
<1>3. CASE signal = "ExposureDone" /\ OnExposureDone("Guide", rest)
  <2>1. at["Guide"] \in {"WaitGuideExposure", "WaitRefExposure"}
    BY <1>1, <1>2, <1>3 DEF Hears, Places
  <2>2. exposing = {} /\ detecting = {}
    BY <1>1, <1>2, <1>3, <2>1 DEF GuideFlow
  <2>3. /\ UNCHANGED <<exposing, trail, leftover, late>> /\ detecting' = image
        /\ at'["Guide"] = Detects[at["Guide"]] /\ posted' = rest
    BY <1>1, <1>3, <2>2 DEF OnExposureDone, SMFindStars, Rests, IInv, Placed, camera, mount,
                            session, hitched
  <2>4. \A s \in DOMAIN Hears : ~Told(s, "Guide")'
    BY <1>1, <2>3, NewsOfOne
  <2>5. CASE at["Guide"] = "WaitGuideExposure"
    <3>1. trail = <<>> /\ Apt(image) /\ at'["Guide"] = "FindStarsGuide"
      BY <1>1, <1>2, <1>3, <2>3, <2>5 DEF GuideFlow, Detects
    <3>2. Apt(detecting)'
      BY <2>3, <3>1 DEF Apt
    <3>3. QED
      BY <2>2, <2>3, <2>4, <3>1, <3>2 DEF EInv, GuideFlow, Hears
  <2>6. CASE at["Guide"] = "WaitRefExposure"
    <3>1. at'["Guide"] = "FindStarsRef"
      BY <2>3, <2>6 DEF Detects
    <3>2. QED
      BY <2>2, <2>3, <2>4, <3>1 DEF EInv, GuideFlow, Hears
  <2>7. QED
    BY <2>1, <2>5, <2>6
<1>4. CASE signal \in {"FrameResetDone", "PulsesDone"} /\ OnReadyToExpose("Guide", rest)
  <2>1. at["Guide"] \in {"WaitGuidePulses", "WaitDitherPulses"} /\ signal = "PulsesDone"
    BY <1>1, <1>2, <1>4 DEF Hears, Places
  <2>2. exposing = {} /\ detecting = {} /\ (at["Guide"] = "WaitGuidePulses" => trail = <<>>)
    BY <1>2, <2>1 DEF GuideFlow
  <2>3. /\ SMRequestExposure("Guide", Exposes[at["Guide"]], rest, said)
        /\ UNCHANGED <<trail, detecting>>
    BY <1>4 DEF OnReadyToExpose, mount, solver
  <2>4. /\ Exposes[at["Guide"]] \in {"WaitGuideExposure", "WaitRefExposure"}
        /\ Exposes[at["Guide"]] = "WaitGuideExposure" => trail' = <<>>
    BY <2>1, <2>2, <2>3 DEF Exposes
  <2>5. QED
    BY <1>1, <1>2, <2>1, <2>2, <2>3, <2>4, GuideExposesAptly
<1>5. CASE signal = "FindStarsDone" /\ OnFindStarsDone("Guide", rest)
  <2>1. at["Guide"] \in {"FindStarsGuide", "FindStarsRef"} /\ at["Guide"] \notin Hears.PulsesDone
    BY <1>1, <1>2, <1>5 DEF Hears, Places
  <2>2. exposing = {} /\ detecting = {}
    BY <1>1, <1>2, <1>5, <2>1 DEF GuideFlow
  <2>3. CASE at["Guide"] = "FindStarsGuide" /\ SMComputeGuide(rest)
    <3>1. trail = <<>> /\ UNCHANGED detecting
      BY <1>2, <2>3 DEF GuideFlow, SMComputeGuide
    <3>2. ASSUME NEW event, GoesOn(rest, event) PROVE EInv'
      BY <1>1, <1>2, <2>1, <2>2, <3>1, <3>2, GuideExposesAptly DEF GoesOn, mount
    <3>3. CASE MatchLost(rest)
      BY <3>2, <3>3, AbortIsApt DEF MatchLost
    <3>4. CASE FirstFrameTaken(rest)
      BY <3>2, <3>4 DEF FirstFrameTaken
    <3>5. CASE DitherNow(rest)
      <4>1. PICK axes \in SUBSET Axes :
              \/ SMRequestExposure("Guide", "WaitRefExposure",
                                   rest \cup Emits("PulsesDone", "Guide"), "dithering")
              \/ /\ SMRequestGuidePulses("WaitDitherPulses", rest, axes, "dithering")
                 /\ UNCHANGED exposing
        BY <3>5 DEF DitherNow
      <4>2. QED
        BY <1>1, <1>2, <2>1, <2>2, <3>1, <4>1, GuideExposesAptly, GuidePulsesAptly
    <3>6. CASE Corrects(rest)
      <4>1. PICK axes \in SUBSET Axes :
              \/ GoesOn(rest, "guideRMS")
              \/ /\ SMRequestGuidePulses("WaitGuidePulses", rest, axes, "guideRMS")
                 /\ UNCHANGED <<trail, exposing>>
        BY <3>6 DEF Corrects
      <4>2. QED
        BY <2>2, <3>1, <3>2, <4>1, GuidePulsesAptly
    <3>7. QED
      BY <2>3, <3>3, <3>4, <3>5, <3>6 DEF SMComputeGuide
  <2>4. CASE /\ Compares(<<>>) /\ UNCHANGED detecting
             /\ SMRequestExposure("Guide", "WaitGuideExposure", rest, "startguiding")
    <3>1. trail' = <<>>
      BY <2>4 DEF Compares, Noted
    <3>2. QED
      BY <1>1, <1>2, <2>1, <2>2, <2>4, <3>1, GuideExposesAptly
  <2>5. QED
    BY <1>5, <2>1, <2>3, <2>4 DEF OnFindStarsDone
<1>6. QED
  BY <1>3, <1>4, <1>5 DEF Reacts

(* The machines before it leave it off, until they hand over to it. *)
LEMMA OthersLeaveGuide ==
    ASSUME IInv, CInv, at["Guide"] = "off", ~spoiled, NEW m \in {"Init", "Cal"},
           Starts(m) \/ \E s \in DOMAIN Hears : Reacts(s, m)
    PROVE  EInv'
<1>1. m \in Machines /\ m # "Guide"
  BY DEF Machines
<1>2. ASSUME NEW state, NEW rest, Rests(m, state, rest) PROVE EInv'
  <2>1. at'["Guide"] = "off"
    BY <1>1, <1>2 DEF Rests, IInv, Placed, Machines
  <2>2. QED
    BY <2>1, GuideAway DEF EInv
<1>3. ASSUME NEW state, NEW rest, NEW event, SMRequestExposure(m, state, rest, event) PROVE EInv'
  BY <1>2, <1>3, AbortIsApt DEF SMRequestExposure, Fails
<1>4. ASSUME NEW pulse, NEW direction, NEW rest, NEW event, m = "Cal",
             PulsesNext(pulse, direction, rest, event)
      PROVE  EInv'
  BY <1>2, <1>4 DEF PulsesNext, SMRequestPulses
<1>5. ASSUME NEW rest, Finishes(m, rest), Compares(<<>>), exposing' = {}, detecting' = {}
      PROVE  EInv'
  <2>1. trail' = <<>> /\ at'["Guide"] \in {"off", "starting"}
    BY <1>1, <1>5 DEF Compares, Noted, Finishes, Machines
  <2>2. QED
    BY <1>5, <2>1 DEF EInv, GuideFlow
<1>6. CASE Starts(m)
  <2>1. CASE m = "Init"
    BY <1>2, <1>6, <2>1, AbortIsApt DEF Starts, StartInit, Fails
  <2>2. CASE m = "Cal"
    BY <1>2, <1>6, <2>2 DEF Starts, StartCal, SMRequestPulses
  <2>3. QED
    BY <2>1, <2>2
<1>7. ASSUME NEW signal \in DOMAIN Hears, Reacts(signal, m) PROVE EInv'
  <2> DEFINE rest == posted \ {<<signal, m>>}
  <2>1. /\ <<signal, m>> \in posted /\ at[m] \in Hears[signal] /\ at[m] \in Places[m]
        /\ FirstFlow /\ CalFlow
    BY <1>1, <1>7 DEF Reacts, CInv, Kinds, Idle, Hears, Flow
  <2>2. CASE OnExposureDone(m, rest)
    BY <1>2, <2>2 DEF OnExposureDone, SMFindStars
  <2>3. CASE OnReadyToExpose(m, rest)
    BY <1>3, <2>3 DEF OnReadyToExpose
  <2>4. CASE signal = "FindStarsDone" /\ OnFindStarsDone(m, rest)
    <3>1. CASE /\ at[m] = "FindStarsFirst" /\ Compares(<<>>) /\ Finishes(m, rest)
               /\ UNCHANGED <<camera, detecting>>
      <4>1. m = "Init"
        BY <2>1, <3>1 DEF Places
      <4>2. exposing = {} /\ detecting = {}
        BY <2>1, <2>4, <3>1, <4>1 DEF FirstFlow
      <4>3. QED
        BY <1>5, <3>1, <4>2 DEF camera
    <3>2. CASE m = "Cal" /\ at[m] = "FindStarsCal" /\ SMComputeCal(rest)
      <4>1. exposing = {} /\ detecting = {} /\ UNCHANGED <<exposing, detecting>>
        BY <2>1, <2>4, <3>2 DEF CalFlow, SMComputeCal, camera
      <4>2. CASE CalLost(rest)
        BY <3>2, <4>2, AbortIsApt DEF CalLost, Fails
      <4>3. CASE KickTaken(rest) \/ StepTaken(rest) \/ PassTaken(rest)
        BY <1>4, <3>2, <4>3 DEF KickTaken, StepTaken, PassTaken
      <4>4. CASE LastPassTaken(rest)
        BY <1>4, <1>5, <3>2, <4>1, <4>4, AbortIsApt DEF LastPassTaken, Fails
      <4>5. QED
        BY <3>2, <4>2, <4>3, <4>4 DEF SMComputeCal
    <3>3. CASE at[m] = "FindStarsRef"
      BY <2>1, <3>3 DEF Places
    <3>4. QED
      BY <1>1, <2>4, <3>1, <3>2, <3>3 DEF OnFindStarsDone
  <2>5. QED
    BY <1>7, <2>2, <2>3, <2>4 DEF Reacts
<1>8. QED
  BY <1>6, <1>7

LEMMA EventsAreApt == ASSUME IInv, CInv, DInv, EInv, EventLoop PROVE EInv'
<1>1. PICK m \in Machines : Starts(m) \/ \E s \in DOMAIN Hears : Reacts(s, m)
  BY DEF EventLoop
<1>2. UNCHANGED spoiled
  BY <1>1 DEF Starts, Reacts, session
<1>3. CASE spoiled
  BY <1>2, <1>3 DEF EInv
<1>4. CASE ~spoiled /\ m = "Guide"
  BY <1>1, <1>4, GuideStartsAptly, GuideReactsAptly
<1>5. CASE ~spoiled /\ m # "Guide"
  <2>1. at[m] # "off"
    <3>1. CASE Starts(m)
      BY <3>1 DEF Starts, IInv, Queued, Starting
    <3>2. CASE \E s \in DOMAIN Hears : Reacts(s, m)
      BY <3>2 DEF Reacts, Hears
    <3>3. QED
      BY <1>1, <3>1, <3>2
  <2>2. at["Guide"] = "off" /\ m \in {"Init", "Cal"}
    BY <1>5, <2>1, OnlyOne DEF Machines
  <2>3. QED
    BY <1>1, <1>5, <2>2, OthersLeaveGuide
<1>6. QED
  BY <1>3, <1>4, <1>5

LEMMA AnswersAreApt == ASSUME EInv, Answers \/ NoAnswer PROVE EInv'
<1>1. CASE FrameResetDone \/ \E a \in Axes : PulseEnds(a)
  <2>1. /\ UNCHANGED <<at, spoiled, leftover, late, exposing, trail, image, detecting, seen>>
        /\ \A s \in {"ExposureDone", "FindStarsDone"} : Told(s, "Guide")' => Told(s, "Guide")
    BY <1>1 DEF FrameResetDone, PulseEnds, machines, session, hitched, camera, mount, solver,
                Told, Emits
  <2>2. QED
    BY <2>1 DEF EInv, GuideFlow, Apt
<1>2. CASE ExposureEnds
  <2>1. /\ UNCHANGED <<at, spoiled, leftover, late, trail, detecting, seen>> /\ exposing' = {}
        /\ exposing # {}
        /\ \/ posted' = posted \cup Emits("ExposureDone", "") /\ image' = exposing
           \/ UNCHANGED <<posted, image>>
    BY <1>2 DEF ExposureEnds, machines, session, hitched, mount
  <2>2. Told("FindStarsDone", "Guide")' => Told("FindStarsDone", "Guide")
    BY <2>1, AllAreTold DEF Told, Hears, Machines
  <2>3. SUFFICES ASSUME ~spoiled PROVE GuideFlow'
    BY <2>1 DEF EInv
  <2>4. ASSUME at["Guide"] = "WaitGuideExposure", Told("ExposureDone", "Guide")' PROVE Apt(image)'
    BY <2>1, <2>3, <2>4 DEF EInv, GuideFlow, Apt, Told
  <2>5. QED
    BY <2>1, <2>2, <2>3, <2>4 DEF EInv, GuideFlow, Apt
<1>3. CASE DetectionEnds
  <2>1. /\ UNCHANGED <<spoiled, leftover, late, exposing, trail, image>> /\ detecting' = {}
        /\ seen' = detecting
    BY <1>3 DEF DetectionEnds, session, hitched, camera, mount
  <2>2. CASE UNCHANGED at /\ posted' \subseteq posted \cup Emits("FindStarsDone", "")
             /\ (Told("FindStarsDone", "Guide")' => detecting # {})
    <3>1. Told("ExposureDone", "Guide")' => Told("ExposureDone", "Guide")
      BY <2>2 DEF Told, Emits
    <3>2. QED
      BY <2>1, <2>2, <3>1 DEF EInv, GuideFlow, Apt
  <2>3. detecting # {}
    BY <1>3 DEF DetectionEnds
  <2>4. QED
    BY <1>3, <2>2, <2>3, AbortIsApt DEF DetectionEnds
<1>4. CASE NoAnswer
  <2>1. /\ UNCHANGED <<at, posted, spoiled, leftover, trail, image, seen>> /\ late'
        /\ exposing' \in {exposing, {}} /\ detecting' \in {detecting, {}}
    BY <1>4 DEF NoAnswer, machines, session, camera
  <2>2. QED
    BY <2>1 DEF EInv, GuideFlow, Apt, Told
<1>5. QED
  BY <1>1, <1>2, <1>3, <1>4 DEF Answers

LEMMA RestIsApt == ASSUME EInv, Watchdog \/ Ready \/ Commands PROVE EInv'
<1>1. CASE UNCHANGED <<at, posted, camera, mount, solver, session, hitched>>
  BY <1>1 DEF EInv, GuideFlow, Apt, Told, camera, mount, solver, session, hitched
<1>2. ASSUME NEW key, Begins(key) PROVE EInv'
  <2>1. SUFFICES ASSUME ~spoiled' PROVE GuideFlow'
    BY DEF EInv
  <2>2. at'["Guide"] = "off"
    BY <1>2, <2>1 DEF Begins, Off, Machines
  <2>3. QED
    BY <2>2, GuideAway
<1>3. QED
  BY <1>1, <1>2, AbortIsApt DEF Commands, Watchdog, Ready, AbortPressed, Dither, ResetCalibration

LEMMA EInvHolds == Spec => []EInv
<1>1. Init => EInv
  BY DEF Init, EInv, GuideFlow, Machines
<1>2. IInv /\ CInv /\ DInv /\ EInv /\ [Next]_vars => EInv'
  <2>1. SUFFICES ASSUME IInv, CInv, DInv, EInv, [Next]_vars PROVE EInv'
    OBVIOUS
  <2>2. CASE UNCHANGED vars
    BY <2>1, <2>2 DEF vars, EInv, GuideFlow, Apt, Told, camera, mount, solver, session, hitched
  <2>3. QED
    BY <2>1, <2>2, EventsAreApt, AnswersAreApt, RestIsApt DEF Next
<1>3. QED
  BY <1>1, <1>2, IInvHolds, CInvHolds, DInvHolds, PTL DEF Spec

(* A correction comes out of a reaction to FindStarsDone, and of no other    *)
(* step.                                                                     *)
LEMMA CorrectionIsFresh ==
    ASSUME IInv, CInv, EInv, [Next]_vars, at["Guide"] = "FindStarsGuide",
           at'["Guide"] = "WaitGuidePulses", ~spoiled, ~late, NEW f \in seen
    PROVE  f.own /\ f.trail = <<>> /\ (f.still \/ leftover)
<1>1. ~SMAbort({})
  BY DEF SMAbort, Disconnects, StopsAll, Machines
<1>2. ~Answers /\ ~NoAnswer
  BY <1>1 DEF Answers, NoAnswer, FrameResetDone, ExposureEnds, PulseEnds, DetectionEnds, machines
<1>3. ~Watchdog /\ ~Ready /\ ~UNCHANGED vars
  BY <1>1 DEF Watchdog, Ready, vars
<1>4. ~Commands
  <2>1. ASSUME NEW key, Begins(key) PROVE at'["Guide"] = at["Guide"]
    BY <2>1 DEF Begins, IInv, Placed, Machines
  <2>2. QED
    BY <1>1, <2>1 DEF Commands, AbortPressed, Dither, ResetCalibration
<1>5. PICK m \in Machines : Starts(m) \/ \E s \in DOMAIN Hears : Reacts(s, m)
  BY <1>2, <1>3, <1>4 DEF Next, EventLoop
<1>6. CASE Starts(m)
  <2>1. at[m] \in {"starting", "doomed"}
    BY <1>6 DEF Starts, IInv, Queued, Starting
  <2>2. QED
    BY <2>1, OnlyOne DEF Machines
<1>7. ASSUME NEW s \in DOMAIN Hears, Reacts(s, m) PROVE Told("FindStarsDone", "Guide")
  <2>1. at[m] \in Hears[s] /\ <<s, m>> \in posted
    BY <1>7 DEF Reacts
  <2>2. m = "Guide"
    BY <2>1, OnlyOne DEF Machines, Hears
  <2>3. s = "FindStarsDone"
    BY <2>1, <2>2 DEF Hears
  <2>4. QED
    BY <2>1, <2>2, <2>3 DEF Told
<1>8. QED
  BY <1>5, <1>6, <1>7 DEF EInv, GuideFlow, Apt

(* What SMComputeGuide() (guider.cpp) pulses against was measured on a frame *)
(* of this session, begun with the mount at rest, and compared with a        *)
(* reference that is younger than the last dither: for all faults but those  *)
(* that lose or delay an answer.                                             *)
THEOREM CorrectionsMeasureTheMount == Spec => CorrectionsAreFresh
<1>1. IInv /\ CInv /\ EInv /\ [Next]_vars
        => [at["Guide"] = "FindStarsGuide" /\ at'["Guide"] = "WaitGuidePulses" /\ ~spoiled /\ ~late
              => \A f \in seen : f.own /\ f.trail = <<>> /\ (f.still \/ leftover)]_vars
  BY CorrectionIsFresh
<1>2. QED
  BY <1>1, IInvHolds, CInvHolds, EInvHolds, PTL DEF Spec, CorrectionsAreFresh

====
