----------------------------- MODULE FocusProofs -----------------------------
(***************************************************************************)
(* What the Focus module guarantees, for every sweep, every measure and    *)
(* any number of hitches: an abort is the last thing the devices hear, the *)
(* sweep that the best position is chosen from is whole, the position is   *)
(* one of it, and "focusdone" is said of a focuser at rest there.          *)
(*                                                                         *)
(* The inductive invariant has three parts: Types; Books, what the chart's *)
(* leaf and its queue say of the sweep; and Own, where the focuser, the    *)
(* frame and the stars are in a run that met nothing it cannot tell from   *)
(* its own.                                                                *)
(***************************************************************************)
EXTENDS Focus, FiniteSetTheorems, TLAPS

-----------------------------------------------------------------------------
(* The abort                                                                 *)

(* Between an abort and the next command neither the chart nor the loop runs. *)
Stopped == aborted => ~running /\ ~loopRunning

LEMMA StoppedAtFirst == Init => Stopped
BY DEF Init, Stopped

(* A loop that does not run is not started by what it asked for before. *)
LEMMA LoopStaysOff ==
    ASSUME Stopped, aborted, SuccessSEP
    PROVE  ~loopRunning' /\ exposing' = exposing
<1>1. ~ForLoop
    BY DEF Stopped, ForLoop
<1>2. loopRunning' = loopRunning /\ exposing' = exposing
    BY <1>1 DEF SuccessSEP, StarsFound, NoStars
<1> QED BY <1>2 DEF Stopped

(* A frame that comes after the abort starts nothing. *)
LEMMA FrameIsDropped ==
    ASSUME Stopped, aborted, ExposureEnds
    PROVE  ~loopRunning' /\ exposing' = {}
<1>1. PICK x \in exposing : NewBLOB(x, {})
    BY DEF ExposureEnds
<1>2. ~running /\ ~loopRunning
    BY DEF Stopped
<1> QED BY <1>1, <1>2 DEF NewBLOB

(* Every step from such a state but a command leaves both off. *)
LEMMA StoppedStays == Stopped /\ [Next]_vars => Stopped'
<1> SUFFICES ASSUME Stopped, [Next]_vars, aborted'
             PROVE  ~running' /\ ~loopRunning'
    BY DEF Stopped
<1>1. CASE Autofocus
    BY <1>1 DEF Autofocus
<1>2. CASE Loop
    BY <1>2 DEF Loop
<1>3. CASE Abort
    BY <1>3 DEF Abort, StopsLoop
<1>4. CASE MoveEnds
    BY <1>4 DEF MoveEnds, Stopped, ghost
<1>5. CASE StrayOk
    BY <1>5 DEF StrayOk, Stopped
<1>6. CASE FrameResetDone
    BY <1>6 DEF FrameResetDone, Stopped, ghost
<1>7. CASE ExposureEnds
    <2>1. aborted /\ running' = running
        BY <1>7 DEF ExposureEnds
    <2> QED BY <1>7, <2>1, FrameIsDropped DEF Stopped
<1>8. CASE ForeignFrame
    BY <1>8 DEF ForeignFrame, Stopped
<1>9. CASE ExposureIsLost
    BY <1>9 DEF ExposureIsLost, Stopped, machine
<1>10. CASE SuccessSEP
    <2>1. aborted /\ running' = running
        BY <1>10 DEF SuccessSEP
    <2> QED BY <1>10, <2>1, LoopStaysOff DEF Stopped
<1>11. CASE Process
    <2>1. running /\ aborted' = aborted
        BY <1>11 DEF Process
    <2> QED BY <2>1 DEF Stopped
<1>12. CASE UNCHANGED vars
    BY <1>12 DEF vars, machine, ghost, Stopped
<1> QED BY <1>1, <1>2, <1>3, <1>4, <1>5, <1>6, <1>7, <1>8, <1>9, <1>10, <1>11,
           <1>12 DEF Next, Commands, Devices

(* What the devices are asked for while it stays aborted: nothing. *)
Quiet == aborted /\ aborted' => goal' = goal /\ exposing' \subseteq exposing

LEMMA StepIsQuiet == Stopped /\ [Next]_vars => Quiet
<1> SUFFICES ASSUME Stopped, [Next]_vars, aborted, aborted'
             PROVE  goal' = goal /\ exposing' \subseteq exposing
    BY DEF Quiet
<1>1. CASE Autofocus \/ Loop
    BY <1>1 DEF Autofocus, Loop
<1>2. CASE Abort
    BY <1>2 DEF Abort, focuser, camera
<1>3. CASE MoveEnds
    BY <1>3 DEF MoveEnds, camera
<1>4. CASE StrayOk
    BY <1>4 DEF StrayOk, Stopped
<1>5. CASE FrameResetDone
    BY <1>5 DEF FrameResetDone, focuser
<1>6. CASE ExposureEnds
    BY <1>6, FrameIsDropped DEF ExposureEnds, focuser
<1>7. CASE ForeignFrame
    BY <1>7 DEF ForeignFrame, Stopped
<1>8. CASE ExposureIsLost
    BY <1>8 DEF ExposureIsLost, focuser
<1>9. CASE SuccessSEP
    BY <1>9, LoopStaysOff DEF SuccessSEP, focuser
<1>10. CASE Process
    BY <1>10 DEF Process, Stopped
<1>11. CASE UNCHANGED vars
    BY <1>11 DEF vars, focuser, camera
<1> QED BY <1>1, <1>2, <1>3, <1>4, <1>5, <1>6, <1>7, <1>8, <1>9, <1>10, <1>11
        DEF Next, Commands, Devices

(* The abort of the autofocus and of the loop (focus.cpp:78) is the last     *)
(* thing the focuser and the camera hear until the next command.             *)
THEOREM AbortIsQuiet == Spec => QuietAfterAbort
<1>1. Stopped /\ [Next]_vars => [aborted /\ aborted' => goal' = goal
                                     /\ exposing' \subseteq exposing]_vars
    BY StepIsQuiet DEF Quiet
<1> QED BY <1>1, StoppedAtFirst, StoppedStays, PTL DEF Spec, QuietAfterAbort

-----------------------------------------------------------------------------
(* Induction over the naturals, as a fact about sets: if one were missing,   *)
(* the successor would map the smaller members into fewer of them.           *)
LEMMA Induction ==
    ASSUME NEW S, 0 \in S, \A n \in Nat : n \in S => n + 1 \in S
    PROVE  \A n \in Nat : n \in S
<1> SUFFICES ASSUME NEW n \in Nat, n \notin S PROVE FALSE
    OBVIOUS
<1> DEFINE A == {m \in 0 .. n : m \in S}
           B == A \ {0}
           shift == [m \in A |-> m + 1]
<1>1. A \in SUBSET (0 .. n) /\ 0 \in A
    OBVIOUS
<1>2. shift \in [A -> B]
    <2>1. \A m \in A : m \in Nat /\ m # n /\ m + 1 \in B
        OBVIOUS
    <2> QED BY <2>1
<1>3. \A x, y \in A : shift[x] = shift[y] => x = y
    OBVIOUS
<1>4. IsFiniteSet(0 .. n)
    BY FS_Interval
<1> HIDE DEF A, shift
<1>5. IsFiniteSet(A) /\ Cardinality(A) \in Nat
    BY <1>1, <1>4, FS_Subset, FS_CardinalityType
<1>6. IsFiniteSet(B) /\ Cardinality(B) = Cardinality(A) - 1
    BY <1>1, <1>5, FS_RemoveElement
<1> HIDE DEF B
<1>7. Cardinality(B) < Cardinality(A)
    BY <1>5, <1>6
<1> QED BY <1>2, <1>3, <1>5, <1>6, <1>7, FS_PigeonHole

-----------------------------------------------------------------------------
(* The fit (polynomialfit)                                                   *)

IsSums(f, n, s) == s = [i \in 0 .. n |-> IF i = 0 THEN 0 ELSE s[i - 1] + f[i]]

(* Total is the last of the partial sums. *)
LEMMA TotalIsSum ==
    ASSUME NEW f, NEW n \in Nat
    PROVE  \E s : IsSums(f, n, s) /\ Total(f, n) = s[n]
<1> DEFINE S == {k \in Nat : \E s : IsSums(f, k, s)}
<1>1. 0 \in S
    <2>1. IsSums(f, 0, [i \in 0 .. 0 |-> 0])
        BY DEF IsSums
    <2> QED BY <2>1
<1>2. ASSUME NEW k \in Nat, k \in S PROVE k + 1 \in S
    <2>1. PICK s : IsSums(f, k, s)
        BY <1>2
    <2> DEFINE t == [i \in 0 .. (k + 1) |-> IF i <= k THEN s[i] ELSE s[k] + f[i]]
    <2>2. IsSums(f, k + 1, t)
        BY <2>1 DEF IsSums
    <2> HIDE DEF t
    <2> QED BY <2>2
<1>3. \E s : IsSums(f, n, s)
    <2>1. n \in S
        <3> HIDE DEF S
        <3> QED BY <1>1, <1>2, Induction
    <2> QED BY <2>1
<1> DEFINE c == CHOOSE s : s = [i \in 0 .. n |-> IF i = 0 THEN 0 ELSE s[i - 1] + f[i]]
<1>4. IsSums(f, n, c)
    BY <1>3 DEF IsSums
<1>5. Total(f, n) = c[n]
    BY DEF Total
<1> QED BY <1>4, <1>5

LEMMA TotalIsInt ==
    ASSUME NEW f, NEW n \in Nat, \A i \in 1 .. n : f[i] \in Int
    PROVE  Total(f, n) \in Int
<1>1. PICK s : IsSums(f, n, s) /\ Total(f, n) = s[n]
    BY TotalIsSum
<1> DEFINE S == {k \in Nat : k <= n => s[k] \in Int}
<1>2. 0 \in S /\ \A k \in Nat : k \in S => k + 1 \in S
    BY <1>1 DEF IsSums
<1>3. n \in S
    <2> HIDE DEF S
    <2> QED BY <1>2, Induction
<1> QED BY <1>1, <1>3

LEMMA TotalIsPositive ==
    ASSUME NEW f, NEW n \in Nat \ {0}, \A i \in 1 .. n : f[i] \in Nat, f[n] > 0
    PROVE  Total(f, n) > 0
<1>1. PICK s : IsSums(f, n, s) /\ Total(f, n) = s[n]
    BY TotalIsSum
<1> DEFINE S == {k \in Nat : k < n => s[k] \in Nat}
<1>2. 0 \in S /\ \A k \in Nat : k \in S => k + 1 \in S
    BY <1>1 DEF IsSums
<1>3. n - 1 \in S
    <2> HIDE DEF S
    <2> QED BY <1>2, Induction
<1>4. s[n] = s[n - 1] + f[n]
    BY <1>1 DEF IsSums
<1> QED BY <1>1, <1>3, <1>4

LEMMA SquareIsNat ==
    ASSUME NEW a \in Int
    PROVE  a * a \in Nat /\ (a # 0 => a * a > 0)
OBVIOUS

(* The sums of the fit are integers, and the abscissae are not all 0.        *)
LEMMA DotIsInt ==
    ASSUME NEW f, NEW g, NEW n \in Nat, \A i \in 1 .. n : f[i] \in Int /\ g[i] \in Int
    PROVE  Dot(f, g, n) \in Int
<1> DEFINE h == [i \in 1 .. n |-> f[i] * g[i]]
<1>1. \A i \in 1 .. n : h[i] \in Int
    <2> SUFFICES ASSUME NEW i \in 1 .. n PROVE f[i] * g[i] \in Int
        OBVIOUS
    <2>1. f[i] \in Int /\ g[i] \in Int
        OBVIOUS
    <2> QED BY <2>1
<1> HIDE DEF h
<1>2. Total(h, n) \in Int
    BY <1>1, TotalIsInt
<1> QED BY <1>2 DEF Dot, h

LEMMA FitTypes ==
    ASSUME NEW y \in Seq(Nat), Len(y) > 2
    PROVE  /\ Dot(U(Len(y)), y, Len(y)) \in Int /\ Dot(V(Len(y)), y, Len(y)) \in Int
           /\ Dot(V(Len(y)), V(Len(y)), Len(y)) \in Int
           /\ Dot(U(Len(y)), U(Len(y)), Len(y)) \in Nat \ {0}
<1> DEFINE n == Len(y)
           h == [i \in 1 .. n |-> U(n)[i] * U(n)[i]]
<1>1. n \in Nat \ {0} /\ n > 2 /\ \A i \in 1 .. n : y[i] \in Int
    OBVIOUS
<1> HIDE DEF n
<1>2. \A i \in 1 .. n : U(n)[i] = 2 * i - n - 1
    BY DEF U
<1>3. \A i \in 1 .. n : U(n)[i] \in Int
    BY <1>1, <1>2
<1>4. \A i \in 1 .. n : h[i] \in Nat /\ h[i] \in Int
    <2> SUFFICES ASSUME NEW i \in 1 .. n PROVE U(n)[i] * U(n)[i] \in Nat
        OBVIOUS
    <2> QED BY <1>3, SquareIsNat
<1>5. h[n] > 0
    <2>1. U(n)[n] = n - 1 /\ n - 1 \in Int /\ n - 1 # 0
        BY <1>1, <1>2
    <2>2. (n - 1) * (n - 1) > 0
        BY <2>1, SquareIsNat
    <2>3. h[n] = U(n)[n] * U(n)[n]
        BY <1>1
    <2> QED BY <2>1, <2>2, <2>3
<1>6. Dot(U(n), U(n), n) \in Int /\ Dot(U(n), U(n), n) > 0
    <2>1. Dot(U(n), U(n), n) = Total(h, n)
        BY DEF Dot
    <2> HIDE DEF h
    <2> QED BY <1>1, <1>4, <1>5, <2>1, TotalIsInt, TotalIsPositive
<1>7. \A i \in 1 .. n : V(n)[i] \in Int
    <2> SUFFICES ASSUME NEW i \in 1 .. n PROVE V(n)[i] \in Int
        OBVIOUS
    <2>1. V(n)[i] = n * U(n)[i] * U(n)[i] - Dot(U(n), U(n), n)
        BY DEF V
    <2>2. n * U(n)[i] \in Int
        BY <1>1, <1>3
    <2>3. n * U(n)[i] * U(n)[i] \in Int
        BY <2>2, <1>3
    <2> QED BY <2>1, <2>3, <1>6
<1>8. Dot(U(n), y, n) \in Int /\ Dot(V(n), y, n) \in Int /\ Dot(V(n), V(n), n) \in Int
    BY <1>1, <1>3, <1>7, DotIsInt
<1> QED BY <1>6, <1>8 DEF n

LEMMA ProductsGrow ==
    ASSUME NEW a \in Int, NEW b \in Int, NEW d \in Nat, a <= b
    PROVE  a * d \in Int /\ b * d \in Int /\ a * d <= b * d
<1>1. PICK c \in Nat : b = a + c
    <2>1. b - a \in Nat /\ b = a + (b - a)
        OBVIOUS
    <2> QED BY <2>1
<1>2. b * d = a * d + c * d
    BY <1>1
<1>3. a * d \in Int /\ c * d \in Nat
    OBVIOUS
<1> QED BY <1>2, <1>3

LEMMA QuotientWithin ==
    ASSUME NEW lo \in Int, NEW hi \in Int, NEW m \in Nat, NEW d \in Nat \ {0},
           lo * d <= m, m <= hi * d
    PROVE  m \div d \in lo .. hi
<1> DEFINE q == m \div d
<1>1. q \in Int /\ q * d <= m /\ m < (q + 1) * d
    OBVIOUS
<1> HIDE DEF q
<1>2. lo <= q
    <2> SUFFICES ASSUME q + 1 <= lo PROVE FALSE
        BY <1>1
    <2> QED BY <1>1, ProductsGrow
<1>3. q <= hi
    <2> SUFFICES ASSUME hi + 1 <= q PROVE FALSE
        BY <1>1
    <2>1. (hi + 1) * d <= q * d
        BY <1>1, ProductsGrow
    <2>2. (hi + 1) * d = hi * d + d
        OBVIOUS
    <2> QED BY <1>1, <2>1, <2>2
<1> QED BY <1>1, <1>2, <1>3 DEF q

(* Rounding towards zero does not leave an interval of integers.             *)
LEMMA TruncatedWithin ==
    ASSUME NEW lo \in Int, NEW hi \in Int, NEW m \in Int, NEW d \in Nat \ {0},
           lo * d <= m, m <= hi * d
    PROVE  Truncated(m, d) \in lo .. hi
<1>1. CASE m >= 0
    <2>1. m \in Nat
        BY <1>1
    <2>2. m \div d \in lo .. hi
        BY <2>1, QuotientWithin
    <2> QED BY <1>1, <2>2 DEF Truncated
<1>2. CASE m < 0
    <2>1. -m \in Nat /\ -lo \in Int /\ -hi \in Int
        BY <1>2
    <2>2. (-hi) * d <= -m /\ -m <= (-lo) * d
        <3>1. (-hi) * d = -(hi * d) /\ (-lo) * d = -(lo * d)
            OBVIOUS
        <3>2. hi * d \in Int /\ lo * d \in Int
            OBVIOUS
        <3> QED BY <3>1, <3>2
    <2>3. (-m) \div d \in (-hi) .. (-lo)
        BY <2>1, <2>2, QuotientWithin
    <2> QED BY <1>2, <2>3 DEF Truncated
<1> QED BY <1>1, <1>2

(* The vertex of a parabola, when it is taken, lies in the sweep.            *)
LEMMA VertexWithin ==
    ASSUME NEW y \in Seq(Nat), Len(y) > 2, InRange(y), startpos \in Int
    PROVE  VertexPos(y) \in Place(0) .. Place(Len(y) - 1)
<1> DEFINE n == Len(y)
           UU == Dot(U(n), U(n), n)   UY == Dot(U(n), y, n)
           VV == Dot(V(n), V(n), n)   VY == Dot(V(n), y, n)
           d == Vertex(y).den
           m == Vertex(y).num
           k == (n - 1) * d + m
<1>1. n \in Nat /\ n > 2 /\ UU \in Nat \ {0} /\ UY \in Int /\ VV \in Int /\ VY \in Int
    BY FitTypes
<1>2. VY # 0
    BY DEF InRange, HasVertex
<1>3. d \in Nat \ {0} /\ m \in Int
    <2> DEFINE s == IF VY < 0 THEN -1 ELSE 1
    <2>1. d = s * 2 * n * UU * VY /\ m = -s * UY * VV
        BY DEF Vertex
    <2> HIDE DEF UU, UY, VV, VY, n, d, m
    <2>2. s * VY \in Nat \ {0} /\ n * UU \in Nat \ {0} /\ s \in Int
        BY <1>1, <1>2
    <2>3. d = 2 * ((n * UU) * (s * VY))
        <3> HIDE DEF s
        <3> QED BY <1>1, <2>1, <2>2, SMTT(30)
    <2>4. (n * UU) * (s * VY) \in Nat \ {0}
        BY <2>2
    <2>5. -s \in Int /\ -s * UY \in Int
        BY <1>1, <2>2
    <2>6. m \in Int
        BY <1>1, <2>1, <2>5
    <2> QED BY <2>3, <2>4, <2>6
<1>4. -(n - 1) * d <= m /\ m <= (n - 1) * d
    BY <1>3, <1>1 DEF InRange
<1>5. VertexPos(y) = Truncated(startpos * 2 * d + Steps * k, 2 * d)
    BY DEF VertexPos
<1>6. Place(0) = startpos /\ Place(n - 1) = startpos + (n - 1) * Steps
    BY <1>1, FocusAssumption DEF Place
<1> HIDE DEF UU, UY, VV, VY, n, d, m
<1>7. n - 1 \in Nat /\ (n - 1) * d \in Nat
    <2>1. n - 1 \in Nat
        BY <1>1
    <2> QED BY <2>1, <1>3
<1>8. k \in Nat /\ k <= 2 * ((n - 1) * d)
    <2> DEFINE e == (n - 1) * d
    <2>1. -(n - 1) * d = -e
        BY <1>3, <1>7
    <2>2. e \in Nat /\ -e <= m /\ m <= e
        BY <1>4, <1>7, <2>1
    <2>3. k = e + m
        OBVIOUS
    <2> HIDE DEF e, k
    <2>4. k \in Nat /\ k <= 2 * e
        BY <1>3, <2>2, <2>3
    <2> QED BY <2>4 DEF e
<1> HIDE DEF k
<1>9. Steps * k \in Nat /\ Steps * k <= (n - 1) * Steps * (2 * d)
    <2>1. k * Steps <= (2 * ((n - 1) * d)) * Steps /\ k * Steps \in Nat
        BY <1>7, <1>8, ProductsGrow, FocusAssumption
    <2>2. (2 * ((n - 1) * d)) * Steps = (n - 1) * Steps * (2 * d)
        BY <1>3, <1>7, FocusAssumption
    <2>3. k * Steps = Steps * k
        BY <1>8, FocusAssumption
    <2> QED BY <2>1, <2>2, <2>3
<1>10. /\ startpos * 2 * d = startpos * (2 * d)
       /\ startpos * (2 * d) \in Int
       /\ (n - 1) * Steps \in Int
       /\ (n - 1) * Steps * (2 * d) \in Int
       /\ (startpos + (n - 1) * Steps) * (2 * d) = startpos * (2 * d) + (n - 1) * Steps * (2 * d)
    <2>1. (n - 1) * Steps \in Int /\ 2 * d \in Int
        BY <1>3, <1>7, FocusAssumption
    <2> DEFINE w == (n - 1) * Steps
               D == 2 * d
    <2>2. startpos * 2 * d = startpos * D
        BY <1>3
    <2> HIDE DEF w, D
    <2>3. w \in Int /\ D \in Int
        BY <2>1 DEF w, D
    <2>4. w * D \in Int /\ startpos * D \in Int /\ (startpos + w) * D = startpos * D + w * D
        BY <2>3
    <2> QED BY <2>1, <2>2, <2>4 DEF w, D
<1>11. Truncated(startpos * 2 * d + Steps * k, 2 * d) \in startpos .. (startpos + (n - 1) * Steps)
    <2> DEFINE N == startpos * 2 * d + Steps * k
    <2>1. /\ N \in Int /\ startpos * (2 * d) <= N
          /\ N <= startpos * (2 * d) + (n - 1) * Steps * (2 * d)
        <3> DEFINE a == startpos * (2 * d)
                   b == (n - 1) * Steps * (2 * d)
                   c == Steps * k
        <3>1. a \in Int /\ b \in Int /\ c \in Nat /\ c <= b /\ N = a + c
            BY <1>9, <1>10
        <3> HIDE DEF a, b, c, N
        <3>2. N \in Int /\ a <= N /\ N <= a + b
            BY <3>1
        <3> QED BY <3>2 DEF a, b
    <2> HIDE DEF N
    <2>2. 2 * d \in Nat \ {0} /\ startpos + (n - 1) * Steps \in Int
        BY <1>3, <1>10
    <2>3. Truncated(N, 2 * d) \in startpos .. (startpos + (n - 1) * Steps)
        BY <1>10, <2>1, <2>2, TruncatedWithin
    <2> QED BY <2>3 DEF N
<1> QED BY <1>5, <1>6, <1>11 DEF n

-----------------------------------------------------------------------------
(***************************************************************************)
(* The queue of the chart                                                  *)
(***************************************************************************)
Queued(e) == \E j \in DOMAIN queue : queue[j] = e

Names == {"start", "FrameResetDone", "BacklashDone", "GotoStartDone",
          "InitLoopFrameDone", "ExposureDone", "FindStarsDone", "NextFrame",
          "LoopFrameDone", "NextLoop", "GotoNextDone", "LoopFinished",
          "BacklashBestDone", "GotoBestDone", "ExposureBestDone",
          "ComputeResultDone", "abort"}

(* What the entry handlers submit for the leaf they enter. *)
Tokens == {"start", "InitLoopFrameDone", "NextFrame", "LoopFrameDone", "NextLoop",
           "LoopFinished", "ComputeResultDone"}

(* The chart has an arrow from leaf l for event e. *)
Awaits(l, e) == \E a \in Arrows : a[1] = l /\ a[2] = e

(* At most one token is queued, and the leaf waits for it. *)
TokensFit ==
    \A j \in DOMAIN queue : queue[j] \in Tokens =>
        /\ Awaits(leaf, queue[j])
        /\ \A k \in DOMAIN queue : queue[k] \in Tokens => j = k

(* An Ok of the focuser is queued whole, but for what was taken of it. *)
Whole(s) ==
    \A j \in DOMAIN s :
        /\ s[j] = "GotoBestDone" => j + 1 \in DOMAIN s /\ s[j + 1] = "BacklashBestDone"
        /\ s[j] = "BacklashBestDone" => j + 1 \in DOMAIN s /\ s[j + 1] = "BacklashDone"
        /\ s[j] = "BacklashDone" => j + 1 \in DOMAIN s /\ s[j + 1] = "GotoNextDone"
        /\ s[j] = "GotoNextDone" => j + 1 \in DOMAIN s /\ s[j + 1] = "GotoStartDone"

Types ==
    /\ running \in BOOLEAN /\ queue \in Seq(Names)
    /\ startpos \in Int /\ mode \in AllModes
    /\ iteration \in Nat /\ loopIteration \in Nat /\ loopHFR \in Nat
    /\ hfds \in Seq(Nat) /\ besthfr \in Nat /\ bestpos \in Int /\ bestposfit \in Int
    /\ at \in Int /\ goal \in Int /\ moving \in BOOLEAN
    /\ exposing \subseteq Frame /\ image \subseteq Frame /\ solving \subseteq Frame
    /\ hfr \in 0 .. Blank /\ frames \in Nat /\ spoiled \in BOOLEAN

(***************************************************************************)
(* The books of the sweep                                                  *)
(***************************************************************************)
Before == {"Init", "RequestFrameReset", "RequestBacklash", "RequestGotoStart"}
Point == {"InitLoopFrame", "RequestExposure", "FindStars", "ComputeLoopFrame"}

(* The frames of a point *)
PointBooks ==
    /\ leaf \in Point => loopIteration <= LoopIterations /\ loopHFR <= Blank * loopIteration
    /\ leaf = "InitLoopFrame" => loopIteration = 0
    /\ leaf \in {"RequestExposure", "FindStars"} \/ Queued("NextFrame")
           => loopIteration < LoopIterations
    /\ Queued("LoopFrameDone") => loopIteration = LoopIterations

(* The points of a sweep *)
SweepBooks ==
    /\ leaf \in Before => hfds = <<>> /\ iteration = 0 /\ frames = 0
    /\ leaf \in Point =>
          /\ Len(hfds) = iteration /\ iteration < Iterations
          /\ frames = iteration * LoopIterations + loopIteration
    /\ leaf \in {"Compute", "RequestGotoNext"} => frames = Len(hfds) * LoopIterations
    /\ leaf = "RequestGotoNext" \/ Queued("NextLoop")
           => Len(hfds) = iteration /\ iteration < Iterations
    /\ Queued("LoopFinished") => Len(hfds) = Iterations
    /\ leaf \in Final => Len(hfds) = Iterations /\ frames = Iterations * LoopIterations

(* A start that was refused has emptied the sweep under the chart's feet;    *)
(* until the chart takes its "abort" it may yet add one point.               *)
CutOff ==
    /\ spoiled
    /\ \E p \in DOMAIN queue :
          /\ queue[p] = "abort"
          /\ \/ hfds = <<>> /\ iteration = 0
             \/ /\ Len(hfds) = 1
                /\ \A j \in 1 .. (p - 1) : queue[j] # "LoopFrameDone"

Worst == Blank * LoopIterations

(* _besthfr and _bestpos are those of the first least point, if one is       *)
(* better than what they start from.                                         *)
BestBooks ==
    /\ \A j \in DOMAIN hfds : hfds[j] <= Worst
    /\ \/ besthfr = Worst /\ \A j \in DOMAIN hfds : hfds[j] = Worst
       \/ \E i \in DOMAIN hfds :
             /\ besthfr = hfds[i] /\ bestpos = Place(i - 1)
             /\ \A j \in DOMAIN hfds : hfds[i] <= hfds[j] /\ (j < i => hfds[i] < hfds[j])

FitBooks ==
    leaf \in Final \ {"RequestBacklashBest"} /\ ~Flat(hfds)
        => bestposfit \in Place(0) .. Place(Iterations - 1)

Books ==
    running => /\ TokensFit /\ Whole(queue)
               /\ PointBooks /\ (SweepBooks \/ CutOff)
               /\ BestBooks /\ FitBooks

(***************************************************************************)
(* The devices, in a run that met nothing it cannot tell from its own      *)
(***************************************************************************)
Best == {"RequestExposureBest", "FindStarsFinal", "ComputeResult"}

(* An "abort" that the chart takes before any token. *)
Doomed ==
    \E p \in DOMAIN queue :
        queue[p] = "abort" /\ \A j \in 1 .. (p - 1) : queue[j] \notin Tokens

(* Where the focuser has come to rest; the first point is not (MeasuresInPlace). *)
Settled ==
    \/ leaf \in Best /\ ~Doomed
    \/ leaf \in Point /\ iteration > 0 /\ ~(leaf = "InitLoopFrame" /\ Doomed)
Spot == IF leaf \in Best THEN bestposfit ELSE Place(iteration)

FrameQueued == Queued("ExposureDone") \/ Queued("ExposureBestDone")

(* Where the last move goes, and the answer that the leaf waits for. *)
Target ==
    IF leaf = "RequestGotoNext" THEN Place(iteration)
    ELSE IF leaf = "RequestBacklashBest" THEN bestpos - Backlash ELSE bestposfit
Answer ==
    IF leaf = "RequestGotoNext" THEN "GotoNextDone"
    ELSE IF leaf = "RequestBacklashBest" THEN "BacklashBestDone" ELSE "GotoBestDone"

Moves1 == {"RequestGotoNext", "RequestBacklashBest", "RequestGotoBest"}

FocuserFits ==
    /\ leaf \in Moves1 /\ ~Doomed =>
          /\ moving => goal = Target /\ ~Queued(Answer)
          /\ ~moving => at = Target
    /\ Settled => ~moving /\ at = Spot

CameraFits ==
    /\ \A x \in exposing : x.own =>
          /\ leaf \in {"RequestExposure", "RequestExposureBest"} /\ ~FrameQueued
          /\ Settled => x.still /\ x.at = Spot
    /\ FrameQueued => leaf \in {"RequestExposure", "FindStars",
                                "RequestExposureBest", "FindStarsFinal"}

ImageFits ==
    FrameQueued \/ leaf \in {"FindStars", "FindStarsFinal", "ComputeResult"} =>
        /\ image # {}
        /\ Settled => InPlace(image, Spot)

SolverFits ==
    /\ \A x \in solving : x.own =>
          leaf \in {"FindStars", "FindStarsFinal"} /\ ~Queued("FindStarsDone")
    /\ Queued("FindStarsDone") => leaf \in {"FindStars", "FindStarsFinal"}
    /\ \A j, k \in DOMAIN queue :
          queue[j] = "FindStarsDone" /\ j < k
              => queue[k] \notin {"FindStarsDone", "ExposureDone", "ExposureBestDone"}

Own ==
    running /\ ~spoiled =>
        /\ FocuserFits /\ CameraFits /\ ImageFits /\ SolverFits
        /\ misplaced \subseteq {0}

-----------------------------------------------------------------------------
(* Steps of the chart *)

Rest(i) == SubSeq(queue, i + 1, Len(queue))

(* The chart takes event i of its queue, along a.                            *)
Takes(a, i) ==
    /\ a \in Arrows /\ a[1] = leaf
    /\ i \in DOMAIN queue /\ queue[i] = a[2]
    /\ \A j \in 1 .. (i - 1) : ~Taken(queue[j])

LEMMA ProcessCases ==
    ASSUME Process
    PROVE  /\ running /\ UNCHANGED <<setting, loopRunning, image>>
           /\ \/ \E a \in Arrows, i \in DOMAIN queue : Takes(a, i) /\ Enter(a[3], Rest(i))
              \/ leaf' = "Final_1" /\ Stops /\ said' = "none"
              \/ /\ \A i \in DOMAIN queue : ~Taken(queue[i])
                 /\ queue' = <<>> /\ said' = "none"
                 /\ UNCHANGED <<running, leaf, sweep, focuser, camera, solver,
                                misplaced, frames, spoiled>>
BY DEF Process, Takes, Rest

LEMMA ArrowCases ==
    ASSUME NEW a \in Arrows
    PROVE  \/ a[1] = "Init" /\ a[2] = "start" /\ a[3] = "RequestFrameReset"
           \/ a[1] = "RequestFrameReset" /\ a[2] = "FrameResetDone" /\ a[3] = "RequestBacklash"
           \/ a[1] = "RequestBacklash" /\ a[2] = "BacklashDone" /\ a[3] = "RequestGotoStart"
           \/ a[1] = "RequestGotoStart" /\ a[2] = "GotoStartDone" /\ a[3] = "InitLoopFrame"
           \/ a[1] = "InitLoopFrame" /\ a[2] = "InitLoopFrameDone" /\ a[3] = "RequestExposure"
           \/ a[1] = "RequestExposure" /\ a[2] = "ExposureDone" /\ a[3] = "FindStars"
           \/ a[1] = "FindStars" /\ a[2] = "FindStarsDone" /\ a[3] = "ComputeLoopFrame"
           \/ a[1] = "ComputeLoopFrame" /\ a[2] = "NextFrame" /\ a[3] = "RequestExposure"
           \/ a[1] = "ComputeLoopFrame" /\ a[2] = "LoopFrameDone" /\ a[3] = "Compute"
           \/ a[1] = "Compute" /\ a[2] = "NextLoop" /\ a[3] = "RequestGotoNext"
           \/ a[1] = "RequestGotoNext" /\ a[2] = "GotoNextDone" /\ a[3] = "InitLoopFrame"
           \/ a[1] = "Compute" /\ a[2] = "LoopFinished" /\ a[3] = "RequestBacklashBest"
           \/ a[1] = "RequestBacklashBest" /\ a[2] = "BacklashBestDone" /\ a[3] = "RequestGotoBest"
           \/ a[1] = "RequestGotoBest" /\ a[2] = "GotoBestDone" /\ a[3] = "RequestExposureBest"
           \/ a[1] = "RequestExposureBest" /\ a[2] = "ExposureBestDone" /\ a[3] = "FindStarsFinal"
           \/ a[1] = "FindStarsFinal" /\ a[2] = "FindStarsDone" /\ a[3] = "ComputeResult"
           \/ a[1] = "ComputeResult" /\ a[2] = "ComputeResultDone" /\ a[3] = "Final_1"
BY DEF Arrows

(* What a leaf waits for.                                                    *)
LEMMA AwaitsAre ==
    ASSUME NEW l, NEW e
    PROVE  Awaits(l, e) <=>
           \/ l = "Init" /\ e = "start"
           \/ l = "RequestFrameReset" /\ e = "FrameResetDone"
           \/ l = "RequestBacklash" /\ e = "BacklashDone"
           \/ l = "RequestGotoStart" /\ e = "GotoStartDone"
           \/ l = "InitLoopFrame" /\ e = "InitLoopFrameDone"
           \/ l = "RequestExposure" /\ e = "ExposureDone"
           \/ l = "FindStars" /\ e = "FindStarsDone"
           \/ l = "ComputeLoopFrame" /\ e = "NextFrame"
           \/ l = "ComputeLoopFrame" /\ e = "LoopFrameDone"
           \/ l = "Compute" /\ e = "NextLoop"
           \/ l = "RequestGotoNext" /\ e = "GotoNextDone"
           \/ l = "Compute" /\ e = "LoopFinished"
           \/ l = "RequestBacklashBest" /\ e = "BacklashBestDone"
           \/ l = "RequestGotoBest" /\ e = "GotoBestDone"
           \/ l = "RequestExposureBest" /\ e = "ExposureBestDone"
           \/ l = "FindStarsFinal" /\ e = "FindStarsDone"
           \/ l = "ComputeResult" /\ e = "ComputeResultDone"
<1>1. Awaits(l, e) => \E a \in Arrows : a[1] = l /\ a[2] = e
    BY DEF Awaits
<1>2. \A a \in Arrows : a[1] = l /\ a[2] = e => Awaits(l, e)
    BY DEF Awaits
<1>3. /\ <<"Init", "start", "RequestFrameReset">> \in Arrows
      /\ <<"RequestFrameReset", "FrameResetDone", "RequestBacklash">> \in Arrows
      /\ <<"RequestBacklash", "BacklashDone", "RequestGotoStart">> \in Arrows
      /\ <<"RequestGotoStart", "GotoStartDone", "InitLoopFrame">> \in Arrows
      /\ <<"InitLoopFrame", "InitLoopFrameDone", "RequestExposure">> \in Arrows
      /\ <<"RequestExposure", "ExposureDone", "FindStars">> \in Arrows
      /\ <<"FindStars", "FindStarsDone", "ComputeLoopFrame">> \in Arrows
      /\ <<"ComputeLoopFrame", "NextFrame", "RequestExposure">> \in Arrows
      /\ <<"ComputeLoopFrame", "LoopFrameDone", "Compute">> \in Arrows
      /\ <<"Compute", "NextLoop", "RequestGotoNext">> \in Arrows
      /\ <<"RequestGotoNext", "GotoNextDone", "InitLoopFrame">> \in Arrows
      /\ <<"Compute", "LoopFinished", "RequestBacklashBest">> \in Arrows
      /\ <<"RequestBacklashBest", "BacklashBestDone", "RequestGotoBest">> \in Arrows
      /\ <<"RequestGotoBest", "GotoBestDone", "RequestExposureBest">> \in Arrows
      /\ <<"RequestExposureBest", "ExposureBestDone", "FindStarsFinal">> \in Arrows
      /\ <<"FindStarsFinal", "FindStarsDone", "ComputeResult">> \in Arrows
      /\ <<"ComputeResult", "ComputeResultDone", "Final_1">> \in Arrows
    BY DEF Arrows
<1> HIDE DEF Awaits
<1>4. Awaits(l, e) => 
           \/ l = "Init" /\ e = "start"
           \/ l = "RequestFrameReset" /\ e = "FrameResetDone"
           \/ l = "RequestBacklash" /\ e = "BacklashDone"
           \/ l = "RequestGotoStart" /\ e = "GotoStartDone"
           \/ l = "InitLoopFrame" /\ e = "InitLoopFrameDone"
           \/ l = "RequestExposure" /\ e = "ExposureDone"
           \/ l = "FindStars" /\ e = "FindStarsDone"
           \/ l = "ComputeLoopFrame" /\ e = "NextFrame"
           \/ l = "ComputeLoopFrame" /\ e = "LoopFrameDone"
           \/ l = "Compute" /\ e = "NextLoop"
           \/ l = "RequestGotoNext" /\ e = "GotoNextDone"
           \/ l = "Compute" /\ e = "LoopFinished"
           \/ l = "RequestBacklashBest" /\ e = "BacklashBestDone"
           \/ l = "RequestGotoBest" /\ e = "GotoBestDone"
           \/ l = "RequestExposureBest" /\ e = "ExposureBestDone"
           \/ l = "FindStarsFinal" /\ e = "FindStarsDone"
           \/ l = "ComputeResult" /\ e = "ComputeResultDone"
    BY <1>1, ArrowCases
<1> QED BY <1>2, <1>3, <1>4

LEMMA RestIs ==
    ASSUME queue \in Seq(Names), NEW i \in DOMAIN queue
    PROVE  /\ Rest(i) \in Seq(Names)
           /\ Len(Rest(i)) = Len(queue) - i
           /\ \A j \in DOMAIN Rest(i) : i + j \in DOMAIN queue /\ Rest(i)[j] = queue[i + j]
           /\ \A j \in DOMAIN queue : j > i => j - i \in DOMAIN Rest(i)
<1>1. i \in 1 .. Len(queue) /\ Len(queue) \in Nat /\ DOMAIN queue = 1 .. Len(queue)
    OBVIOUS
<1>2. Rest(i) \in Seq(Names) /\ Len(Rest(i)) = Len(queue) - i
    BY <1>1 DEF Rest
<1>3. \A j \in 1 .. (Len(queue) - i) : Rest(i)[j] = queue[i + j]
    BY <1>1 DEF Rest
<1>4. DOMAIN Rest(i) = 1 .. (Len(queue) - i)
    BY <1>2
<1> HIDE DEF Rest
<1> QED BY <1>1, <1>2, <1>3, <1>4

-----------------------------------------------------------------------------
(* Types *)

LEMMA BestPositionsFit ==
    ASSUME Types, NEW p \in BestPositions(hfds)
    PROVE  /\ p \in Int
           /\ ~Flat(hfds) => p = bestpos \/ p \in Place(0) .. Place(Len(hfds) - 1)
<1>1. hfds \in Seq(Nat) /\ startpos \in Int /\ bestpos \in Int
    BY DEF Types
<1>2. CASE Len(hfds) > 2 /\ Flat(hfds)
    <2>1. p = bestpos \/ p \in Garbage \/ p \in Place(0) .. Place(Len(hfds) - 1)
        BY <1>2 DEF BestPositions
    <2>2. \A q \in Place(0) .. Place(Len(hfds) - 1) : q \in Int
        OBVIOUS
    <2> QED BY <1>1, <1>2, <2>1, <2>2, FocusAssumption
<1>3. CASE ~(Len(hfds) > 2 /\ Flat(hfds)) /\ Len(hfds) > 2 /\ FitIsGood(hfds) /\ InRange(hfds)
    <2>1. p = VertexPos(hfds)
        BY <1>3 DEF BestPositions
    <2>2. VertexPos(hfds) \in Place(0) .. Place(Len(hfds) - 1)
        BY <1>1, <1>3, VertexWithin
    <2> QED BY <2>1, <2>2
<1>4. CASE ~(Len(hfds) > 2 /\ Flat(hfds)) /\ ~(Len(hfds) > 2 /\ FitIsGood(hfds) /\ InRange(hfds))
    <2>1. p = bestpos
        BY <1>4 DEF BestPositions
    <2> QED BY <1>1, <2>1
<1> QED BY <1>2, <1>3, <1>4

LEMMA PlaceIsInt ==
    ASSUME startpos \in Int
    PROVE  \A n \in Int : Place(n) \in Int
BY FocusAssumption DEF Place

LEMMA CaptureTypes ==
    ASSUME Types, NEW busy \in SUBSET Frame, NEW own \in BOOLEAN, Capture(busy, own)
    PROVE  exposing' \subseteq Frame
<1>1. [own |-> own, still |-> ~moving, at |-> at] \in Frame
    BY DEF Types, Frame
<1> QED BY <1>1 DEF Capture

LEMMA UnsteadyTypes ==
    ASSUME NEW S \in SUBSET Frame
    PROVE  Unsteady(S) \subseteq Frame /\ NotOwn(S) \subseteq Frame
BY DEF Unsteady, NotOwn, Frame

LEMMA AppendTypes ==
    ASSUME NEW S, NEW s \in Seq(S), NEW e \in S
    PROVE  Append(s, e) \in Seq(S)
OBVIOUS

LEMMA MoveTypes ==
    ASSUME Types, NEW p \in Int, NEW rest \in Seq(Names), Move(p, rest)
    PROVE  /\ at' \in Int /\ goal' \in Int /\ moving' \in BOOLEAN /\ spoiled' \in BOOLEAN
           /\ exposing' \subseteq Frame /\ queue' \in Seq(Names)
<1>1. exposing' = exposing \/ exposing' = Unsteady(exposing)
    BY DEF Move
<1>2. exposing' \subseteq Frame
    BY <1>1, UnsteadyTypes DEF Types
<1>3. queue' \in Seq(Names)
    <2>1. "abort" \in Names
        BY DEF Names
    <2>2. Append(rest, "abort") \in Seq(Names)
        BY <2>1, AppendTypes
    <2>3. queue' = rest \/ queue' = Append(rest, "abort")
        BY DEF Move
    <2> QED BY <2>2, <2>3
<1>4. spoiled' = spoiled \/ spoiled' = (spoiled \/ Unread(rest))
    BY DEF Move
<1>5. Unread(rest) \in BOOLEAN
    BY DEF Unread
<1>6. at' = at /\ (goal' = goal \/ goal' = p) /\ moving' \in {moving, TRUE}
    BY DEF Move
<1> QED BY <1>2, <1>3, <1>4, <1>5, <1>6 DEF Types

LEMMA EnterTypes ==
    ASSUME Types, NEW l, NEW rest \in Seq(Names), Enter(l, rest),
           UNCHANGED <<setting, image>>
    PROVE  Types'
<1>1. startpos' = startpos /\ mode' = mode /\ image' = image /\ leaf' = l
    BY DEF Enter, setting
<1>2. \A e \in Names : Append(rest, e) \in Seq(Names)
    BY AppendTypes
<1>3. CASE l = "Final_1"
    <2>1. Stops
        BY <1>3 DEF Enter
    <2>2. <<>> \in Seq(Names)
        OBVIOUS
    <2> QED BY <1>1, <2>1, <2>2 DEF Types, Stops, sweep, focuser, camera, solver
<1> SUFFICES ASSUME l # "Final_1" PROVE Types'
    BY <1>3
<1>4. running' = running
    BY DEF Enter
<1>5. CASE SMRequestFrameReset(rest)
    BY <1>1, <1>2, <1>4, <1>5 DEF Names, SMRequestFrameReset, Types, sweep, focuser, solver
<1>6. ASSUME NEW p \in Int, Moves(p, rest) PROVE Types'
    <2>1. Move(p, rest)
        BY <1>6 DEF Moves
    <2>2. /\ at' \in Int /\ goal' \in Int /\ moving' \in BOOLEAN /\ spoiled' \in BOOLEAN
          /\ exposing' \subseteq Frame /\ queue' \in Seq(Names)
        BY <1>6, <2>1, MoveTypes
    <2> QED BY <1>1, <1>4, <1>6, <2>2 DEF Moves, Types, sweep, solver
<1>7. CASE SMInitLoopFrame(rest)
    BY <1>1, <1>2, <1>4, <1>7 DEF Names, SMInitLoopFrame, Types, focuser, camera, solver
<1>8. ASSUME NEW f \in BOOLEAN, SMRequestExposure(f, rest) PROVE Types'
    <2>1. exposing' \subseteq Frame
        <3>1. exposing' = exposing \/ Capture(exposing, TRUE)
            BY <1>8 DEF SMRequestExposure
        <3>2. exposing \subseteq Frame
            BY DEF Types
        <3> QED BY <3>1, <3>2, CaptureTypes
    <2>2. queue' \in Seq(Names)
        BY <1>2, <1>8 DEF Names, SMRequestExposure
    <2> QED BY <1>1, <1>4, <1>8, <2>1, <2>2 DEF SMRequestExposure, Types, sweep, focuser, solver
<1>9. CASE SMFindStars(rest)
    <2>1. Foreign(image) \in BOOLEAN
        BY DEF Foreign
    <2>2. spoiled' \in BOOLEAN
        BY <1>9, <2>1 DEF SMFindStars, Types
    <2>3. hfr' \in 0 .. Blank
        <3>1. \A m \in Measures : m.hfr \in 0 .. Blank
            BY FocusAssumption DEF Measures
        <3>2. (\E m \in Measures : hfr' = m.hfr) \/ hfr' = hfr
            BY <1>9 DEF SMFindStars, Detect
        <3> QED BY <3>1, <3>2 DEF Types
    <2>4. solving' = solving \/ solving' = image
        BY <1>1, <1>9 DEF SMFindStars, Detect
    <2>5. queue' \in Seq(Names)
        BY <1>2, <1>9 DEF Names, SMFindStars
    <2> QED BY <1>1, <1>4, <1>9, <2>2, <2>3, <2>4, <2>5
            DEF SMFindStars, Types, sweep, focuser, camera
<1>10. CASE SMComputeLoopFrame(rest)
    <2>1. queue' \in Seq(Names)
        BY <1>2, <1>10 DEF Names, SMComputeLoopFrame
    <2>2. loopHFR' \in Nat /\ loopIteration' \in Nat /\ frames' \in Nat
        BY <1>10, FocusAssumption DEF SMComputeLoopFrame, Types
    <2> QED BY <1>1, <1>4, <1>10, <2>1, <2>2
            DEF SMComputeLoopFrame, Types, focuser, camera, solver
<1>11. CASE SMCompute(rest)
    <2>1. queue' \in Seq(Names)
        BY <1>2, <1>11 DEF Names, SMCompute
    <2>2. hfds' \in Seq(Nat)
        BY <1>11 DEF SMCompute, Types
    <2>3. iteration' \in Nat
        <3>1. iteration' = iteration \/ iteration' = iteration + 1
            BY <1>11 DEF SMCompute
        <3> QED BY <3>1 DEF Types
    <2>4. besthfr' \in Nat /\ bestpos' \in Int
        <3>1. \/ besthfr' = loopHFR /\ bestpos' = Place(iteration)
              \/ besthfr' = besthfr /\ bestpos' = bestpos
            BY <1>11 DEF SMCompute
        <3>2. Place(iteration) \in Int
            BY PlaceIsInt DEF Types
        <3> QED BY <3>1, <3>2 DEF Types
    <2> QED BY <1>1, <1>4, <1>11, <2>1, <2>2, <2>3, <2>4
            DEF SMCompute, Types, focuser, camera, solver
<1>12. CASE SMRequestGotoBest(rest)
    <2>1. PICK p \in BestPositions(hfds) : bestposfit' = p /\ Move(p, rest)
        BY <1>12 DEF SMRequestGotoBest
    <2>2. p \in Int
        BY BestPositionsFit
    <2>3. /\ at' \in Int /\ goal' \in Int /\ moving' \in BOOLEAN /\ spoiled' \in BOOLEAN
          /\ exposing' \subseteq Frame /\ queue' \in Seq(Names)
        BY <2>1, <2>2, MoveTypes
    <2> QED BY <1>1, <1>4, <1>12, <2>1, <2>2, <2>3 DEF SMRequestGotoBest, Types, solver
<1>13. CASE SMComputeResult(rest)
    BY <1>1, <1>2, <1>4, <1>13 DEF Names, SMComputeResult, Types, sweep, focuser, camera, solver
<1>14. /\ startpos - Backlash \in Int /\ startpos \in Int /\ Place(iteration) \in Int
       /\ bestpos - Backlash \in Int
    BY FocusAssumption, PlaceIsInt DEF Types
<1> QED BY <1>5, <1>6, <1>7, <1>8, <1>9, <1>10, <1>11, <1>12, <1>13, <1>14 DEF Enter

LEMMA PostTypes ==
    ASSUME Types, NEW es \in Seq(Names), Post(es)
    PROVE  queue' \in Seq(Names)
<1>1. queue \o es \in Seq(Names)
    BY DEF Types
<1> QED BY <1>1 DEF Post, Types

(* What the devices post. *)
LEMMA Posts ==
    /\ Moved \in Seq(Names)
    /\ <<"FrameResetDone">> \in Seq(Names)
    /\ <<"ExposureDone", "ExposureBestDone">> \in Seq(Names)
    /\ <<"FindStarsDone">> \in Seq(Names)
    /\ <<"abort">> \in Seq(Names)
BY DEF Moved, Names

LEMMA TypesAtFirst == Init => Types
<1> SUFFICES ASSUME Init PROVE Types
    OBVIOUS
<1>1. Blank * LoopIterations \in Nat
    BY FocusAssumption
<1>2. <<>> \in Seq(Names) /\ <<>> \in Seq(Nat)
    OBVIOUS
<1>3. /\ mode \in AllModes /\ bestpos \in Int /\ hfr \in 0 .. Blank
      /\ startpos \in Int /\ at \in Int /\ goal \in Int
    BY FocusAssumption DEF Init
<1>4. /\ running = FALSE /\ queue = <<>> /\ iteration = 0 /\ loopIteration = 0
      /\ loopHFR = 0 /\ hfds = <<>> /\ besthfr = Blank * LoopIterations /\ bestposfit = 0
      /\ moving = FALSE /\ exposing = {} /\ image = {} /\ solving = {} /\ frames = 0
      /\ spoiled = FALSE
    BY DEF Init
<1>5. running \in BOOLEAN /\ moving \in BOOLEAN /\ spoiled \in BOOLEAN
    BY <1>4
<1>6. iteration \in Nat /\ loopIteration \in Nat /\ loopHFR \in Nat /\ frames \in Nat
      /\ bestposfit \in Int /\ besthfr \in Nat
    BY <1>1, <1>4
<1>7. exposing \subseteq Frame /\ image \subseteq Frame /\ solving \subseteq Frame
    BY <1>4
<1>8. queue \in Seq(Names) /\ hfds \in Seq(Nat)
    BY <1>2, <1>4
<1> QED BY <1>3, <1>5, <1>6, <1>7, <1>8 DEF Types

LEMMA LoopExposureTypes ==
    ASSUME Types, NEW busy \in SUBSET Frame, LoopExposure(busy)
    PROVE  exposing' \subseteq Frame
BY CaptureTypes DEF LoopExposure

LEMMA TypesStay == Types /\ [Next]_vars => Types'
<1> SUFFICES ASSUME Types, [Next]_vars PROVE Types'
    OBVIOUS
<1>1. CASE Autofocus
    <2>1. startpos' \in Int
        <3>1. \/ startpos' = at - (Steps * Iterations) \div 2
              \/ startpos' = StartPos
              \/ startpos' = startpos
            BY <1>1 DEF Autofocus
        <3>2. Steps * Iterations \in Nat
            BY FocusAssumption
        <3>3. (Steps * Iterations) \div 2 \in Int
            BY <3>2
        <3> QED BY <3>1, <3>3, FocusAssumption DEF Types
    <2>2. queue' \in Seq(Names)
        <3>1. "abort" \in Names /\ "start" \in Names
            BY DEF Names
        <3>2. Append(queue, "abort") \in Seq(Names) /\ <<"start">> \in Seq(Names)
            BY <3>1, AppendTypes DEF Types
        <3> QED BY <1>1, <3>2 DEF Autofocus, Types
    <2>3. exposing' \subseteq Frame /\ image' \subseteq Frame /\ solving' \subseteq Frame
        BY <1>1, UnsteadyTypes DEF Autofocus, Types
    <2>4. /\ hfds' = <<>> /\ iteration' = 0 /\ besthfr' = Blank * LoopIterations
          /\ bestposfit' = 0
          /\ UNCHANGED <<loopIteration, loopHFR, bestpos>>
        BY <1>1 DEF Autofocus, Resets
    <2>5. hfds' \in Seq(Nat) /\ iteration' \in Nat /\ besthfr' \in Nat /\ bestposfit' \in Int
        BY <2>4, FocusAssumption
    <2>6. running' \in BOOLEAN /\ spoiled' \in BOOLEAN /\ frames' \in Nat
        <3>1. running' = TRUE \/ running' = running
            BY <1>1 DEF Autofocus
        <3>2. spoiled' = FALSE \/ spoiled' = running
            BY <1>1 DEF Autofocus
        <3>3. frames' = 0 \/ frames' = frames
            BY <1>1 DEF Autofocus
        <3>4. running' \in BOOLEAN
            BY <3>1 DEF Types
        <3>5. spoiled' \in BOOLEAN
            BY <3>2 DEF Types
        <3> QED BY <3>3, <3>4, <3>5 DEF Types
    <2>7. UNCHANGED <<mode, at, goal, moving, hfr>>
        BY <1>1 DEF Autofocus, focuser
    <2> QED BY <2>1, <2>2, <2>3, <2>4, <2>5, <2>6, <2>7 DEF Types
<1>2. CASE Loop
    <2>1. exposing' \subseteq Frame
        BY <1>2, LoopExposureTypes, CaptureTypes DEF Loop, Types
    <2> QED BY <1>2, <2>1 DEF Loop, Types, machine, sweep, setting, focuser, solver
<1>3. CASE Abort
    <2>1. <<>> \in Seq(Names)
        OBVIOUS
    <2> QED BY <1>3, <2>1 DEF Abort, Types, sweep, setting, focuser, camera, solver
<1>4. CASE MoveEnds
    <2>1. queue' \in Seq(Names)
        BY <1>4, PostTypes, Posts DEF MoveEnds
    <2> QED BY <1>4, <2>1 DEF MoveEnds, Types, sweep, setting, camera, solver, ghost
<1>5. CASE StrayOk
    <2>1. queue' \in Seq(Names)
        BY <1>5, PostTypes, Posts DEF StrayOk
    <2> QED BY <1>5, <2>1 DEF StrayOk, Types, sweep, setting, focuser, camera, solver
<1>6. CASE FrameResetDone
    <2>1. queue' \in Seq(Names)
        BY <1>6, PostTypes, Posts DEF FrameResetDone
    <2> QED BY <1>6, <2>1 DEF FrameResetDone, Types, sweep, setting, focuser, solver, ghost
<1>7. CASE ExposureEnds
    <2>1. PICK x \in exposing : NewBLOB(x, {})
        BY <1>7 DEF ExposureEnds
    <2>2. queue' \in Seq(Names)
        BY <2>1, PostTypes, Posts DEF NewBLOB, Types
    <2>3. x \in Frame /\ {x} \subseteq Frame /\ {} \subseteq Frame
        BY DEF Types
    <2>4. image' \subseteq Frame
        BY <2>1, <2>3 DEF NewBLOB, Types
    <2>5. exposing' \subseteq Frame
        BY <2>1, <2>3, LoopExposureTypes DEF NewBLOB, MeasureLoopFrame
    <2>6. solving' \subseteq Frame /\ hfr' = hfr
        BY <2>1, <2>4 DEF NewBLOB, MeasureLoopFrame, Detect, solver, Types
    <2>7. spoiled' \in BOOLEAN
        BY <2>1, <2>3 DEF NewBLOB, Types, Frame
    <2> QED BY <1>7, <2>2, <2>4, <2>5, <2>6, <2>7 DEF ExposureEnds, Types, sweep, setting, focuser
<1>8. CASE ForeignFrame
    <2>1. queue' \in Seq(Names)
        BY <1>8, PostTypes, Posts DEF ForeignFrame
    <2>2. image' \subseteq Frame
        BY <1>8 DEF ForeignFrame, Types, Frame
    <2> QED BY <1>8, <2>1, <2>2 DEF ForeignFrame, Types, sweep, setting, focuser, camera, solver
<1>9. CASE ExposureIsLost
    BY <1>9 DEF ExposureIsLost, Types, machine, sweep, setting, focuser, solver
<1>10. CASE SuccessSEP
    <2>1. queue' \in Seq(Names)
        BY <1>10, PostTypes, Posts DEF SuccessSEP, StarsFound, NoStars, Types
    <2>2. exposing' \subseteq Frame
        BY <1>10, LoopExposureTypes, CaptureTypes DEF SuccessSEP, StarsFound, NoStars, Types
    <2>3. hfr' \in 0 .. Blank
        <3>1. hfr' \in Qualities \/ hfr' = Blank
            BY <1>10 DEF SuccessSEP, StarsFound, NoStars
        <3>2. Blank \in 0 .. Blank /\ \A q \in Qualities : q \in 0 .. Blank
            BY FocusAssumption
        <3> QED BY <3>1, <3>2
    <2>4. spoiled' \in BOOLEAN
        BY <1>10 DEF SuccessSEP, Types, Foreign
    <2> QED BY <1>10, <2>1, <2>2, <2>3, <2>4 DEF SuccessSEP, Types, sweep, setting, focuser
<1>11. CASE Process
    <2>1. CASE \E a \in Arrows, i \in DOMAIN queue : Takes(a, i) /\ Enter(a[3], Rest(i))
        <3>1. PICK a \in Arrows, i \in DOMAIN queue : Enter(a[3], Rest(i))
            BY <2>1
        <3>2. Rest(i) \in Seq(Names)
            BY RestIs DEF Types
        <3> QED BY <1>11, <3>1, <3>2, ProcessCases, EnterTypes
    <2>2. CASE Stops \/ (queue' = <<>> /\ UNCHANGED <<running, leaf, sweep, focuser, camera,
                                                      solver, misplaced, frames, spoiled>>)
        <3>1. queue' = <<>> /\ running' \in BOOLEAN /\ UNCHANGED <<sweep, focuser, camera, solver,
                                                                  misplaced, frames, spoiled>>
            BY <2>2 DEF Stops, Types
        <3>2. <<>> \in Seq(Names)
            OBVIOUS
        <3>3. UNCHANGED <<setting, image>>
            BY <1>11, ProcessCases
        <3> QED BY <3>1, <3>2, <3>3 DEF Types, sweep, focuser, camera, solver, setting
    <2> QED BY <1>11, <2>1, <2>2, ProcessCases
<1>12. CASE UNCHANGED vars
    BY <1>12 DEF vars, Types, machine, sweep, setting, focuser, camera, solver, ghost
<1> QED BY <1>1, <1>2, <1>3, <1>4, <1>5, <1>6, <1>7, <1>8, <1>9, <1>10, <1>11,
           <1>12 DEF Next, Commands, Devices

-----------------------------------------------------------------------------
(* The queue *)

Clean(s) == \A j \in DOMAIN s : s[j] \notin Tokens

LEMMA TakenIs ==
    /\ \A e : Taken(e) <=> e = "abort" \/ Awaits(leaf, e)
    /\ \A e : Taken(e)' <=> e = "abort" \/ Awaits(leaf', e)
BY DEF Taken, Awaits

(* Behind the event that the chart takes no token is left: a leaf that waits *)
(* for one waits for nothing else.                                           *)
LEMMA RestIsClean ==
    ASSUME Types, TokensFit, Whole(queue), NEW a, NEW i, Takes(a, i)
    PROVE  /\ i \in DOMAIN queue /\ Rest(i) \in Seq(Names)
           /\ Clean(Rest(i)) /\ Whole(Rest(i))
           /\ \A j \in 1 .. (i - 1) : queue[j] \notin Tokens /\ queue[j] # "abort"
<1>1. /\ a \in Arrows /\ a[1] = leaf /\ i \in DOMAIN queue /\ queue[i] = a[2]
      /\ \A j \in 1 .. (i - 1) : ~Taken(queue[j])
    BY DEF Takes
<1>2. queue \in Seq(Names) /\ i \in 1 .. Len(queue) /\ DOMAIN queue = 1 .. Len(queue)
    BY <1>1 DEF Types
<1>3. ASSUME NEW k \in DOMAIN queue, queue[k] \in Tokens PROVE k = i
    <2>1. Awaits(leaf, queue[k]) /\ (queue[i] \in Tokens => k = i)
        BY <1>1, <1>3 DEF TokensFit
    <2>2. queue[i] \in Tokens
        BY <1>1, <1>3, <2>1, AwaitsAre, ArrowCases DEF Tokens
    <2> QED BY <2>1, <2>2
<1>4. Clean(Rest(i))
    <2> SUFFICES ASSUME NEW j \in DOMAIN Rest(i), Rest(i)[j] \in Tokens PROVE FALSE
        BY DEF Clean
    <2>1. j \in Nat \ {0} /\ i + j \in DOMAIN queue /\ queue[i + j] \in Tokens
        BY <1>1, <1>2, RestIs
    <2> QED BY <1>2, <1>3, <2>1
<1>5. Whole(Rest(i))
    <2>1. /\ \A j \in DOMAIN Rest(i) : i + j \in DOMAIN queue /\ Rest(i)[j] = queue[i + j]
          /\ \A j \in DOMAIN queue : j > i => j - i \in DOMAIN Rest(i)
          /\ DOMAIN Rest(i) = 1 .. (Len(queue) - i)
        BY <1>1, <1>2, RestIs
    <2>2. ASSUME NEW j \in DOMAIN Rest(i), i + j + 1 \in DOMAIN queue
          PROVE  j + 1 \in DOMAIN Rest(i) /\ Rest(i)[j + 1] = queue[i + j + 1]
        BY <1>2, <2>1, <2>2
    <2> QED BY <2>1, <2>2 DEF Whole
<1>6. ASSUME NEW j \in 1 .. (i - 1) PROVE queue[j] \notin Tokens /\ queue[j] # "abort"
    <2>1. j \in DOMAIN queue /\ j # i
        BY <1>2
    <2> QED BY <1>1, <1>3, <2>1, TakenIs
<1> QED BY <1>1, <1>2, <1>4, <1>5, <1>6, RestIs

(* What an entry handler leaves in the queue.                                *)
Submits(rest, t) == queue' = rest \/ queue' = Append(rest, t)

LEMMA AppendIs ==
    ASSUME NEW s \in Seq(Names), NEW e \in Names
    PROVE  /\ Len(Append(s, e)) = Len(s) + 1
           /\ DOMAIN Append(s, e) = 1 .. (Len(s) + 1)
           /\ DOMAIN s = 1 .. Len(s)
           /\ \A j \in DOMAIN s : Append(s, e)[j] = s[j]
           /\ Append(s, e)[Len(s) + 1] = e
OBVIOUS

LEMMA QueueAfterEntry ==
    ASSUME NEW rest \in Seq(Names), Clean(rest), Whole(rest),
           NEW t \in Names, t \in Tokens => Awaits(leaf', t), Submits(rest, t),
           t \notin {Moved[1], Moved[2], Moved[3], Moved[4]}
    PROVE  /\ TokensFit' /\ Whole(queue')
           /\ \A j \in DOMAIN queue' : queue'[j] \in Tokens
                  => queue' = Append(rest, t) /\ queue'[j] = t /\ j = Len(rest) + 1
<1> DEFINE q == Append(rest, t)
<1>1. /\ DOMAIN q = 1 .. (Len(rest) + 1) /\ DOMAIN rest = 1 .. Len(rest)
      /\ \A j \in DOMAIN rest : q[j] = rest[j]
      /\ q[Len(rest) + 1] = t
      /\ Len(rest) \in Nat
    BY AppendIs
<1> HIDE DEF q
<1>2. \A j \in DOMAIN q : q[j] \in Tokens => q[j] = t /\ j = Len(rest) + 1
    <2> SUFFICES ASSUME NEW j \in DOMAIN q, q[j] \in Tokens PROVE j = Len(rest) + 1
        BY <1>1
    <2>1. j \notin DOMAIN rest
        BY <1>1 DEF Clean
    <2> QED BY <1>1, <2>1
<1>3. Whole(q)
    <2> SUFFICES ASSUME NEW j \in DOMAIN q
                 PROVE  /\ q[j] = "GotoBestDone" => j + 1 \in DOMAIN q /\ q[j + 1] = "BacklashBestDone"
                        /\ q[j] = "BacklashBestDone" => j + 1 \in DOMAIN q /\ q[j + 1] = "BacklashDone"
                        /\ q[j] = "BacklashDone" => j + 1 \in DOMAIN q /\ q[j + 1] = "GotoNextDone"
                        /\ q[j] = "GotoNextDone" => j + 1 \in DOMAIN q /\ q[j + 1] = "GotoStartDone"
        BY DEF Whole
    <2>1. CASE j = Len(rest) + 1
        BY <1>1, <2>1 DEF Moved
    <2>2. CASE j \in DOMAIN rest
        <3>1. j + 1 \in DOMAIN rest => j + 1 \in DOMAIN q /\ q[j + 1] = rest[j + 1]
            BY <1>1
        <3> QED BY <1>1, <2>2, <3>1 DEF Whole
    <2> QED BY <1>1, <2>1, <2>2
<1>4. queue' = rest \/ queue' = q
    BY DEF Submits, q
<1>5. CASE queue' = rest
    BY <1>5 DEF TokensFit, Clean
<1>6. CASE queue' = q
    <2>1. TokensFit'
        BY <1>2, <1>6 DEF TokensFit
    <2> QED BY <1>2, <1>3, <1>6, <2>1 DEF q
<1> QED BY <1>4, <1>5, <1>6

LEMMA QueueAfterPost ==
    ASSUME Types, TokensFit, Whole(queue), NEW es \in Seq(Names), Clean(es), Whole(es),
           queue' = queue \o es, leaf' = leaf
    PROVE  /\ TokensFit' /\ Whole(queue')
           /\ \A j \in DOMAIN queue : j \in DOMAIN queue' /\ queue'[j] = queue[j]
           /\ \A j \in DOMAIN queue' :
                 j \in DOMAIN queue \/ (j - Len(queue) \in DOMAIN es /\ queue'[j] = es[j - Len(queue)])
           /\ \A e \in Tokens : Queued(e)' => Queued(e)
<1> DEFINE q == queue \o es
           n == Len(queue)
           m == Len(es)
<1>1. /\ queue \in Seq(Names) /\ n \in Nat /\ m \in Nat
      /\ DOMAIN queue = 1 .. n /\ DOMAIN es = 1 .. m /\ DOMAIN q = 1 .. (n + m)
    BY DEF Types
<1>2. \A j \in 1 .. n : q[j] = queue[j]
    BY <1>1
<1>3. \A j \in (n + 1) .. (n + m) : q[j] = es[j - n]
    BY <1>1
<1>4. queue' = q
    OBVIOUS
<1> HIDE DEF q, n, m
<1>5. \A j \in DOMAIN q : j \in 1 .. n \/ (j \in (n + 1) .. (n + m) /\ j - n \in 1 .. m)
    <2> SUFFICES ASSUME NEW j \in 1 .. (n + m)
                 PROVE  j \in 1 .. n \/ (j \in (n + 1) .. (n + m) /\ j - n \in 1 .. m)
        BY <1>1
    <2>1. n \in Nat /\ m \in Nat /\ j \in Int
        BY <1>1
    <2> QED BY <2>1
<1>6. \A j \in DOMAIN q : q[j] \in Tokens => j \in DOMAIN queue /\ q[j] = queue[j]
    BY <1>1, <1>2, <1>3, <1>5 DEF Clean
<1>7. TokensFit'
    BY <1>4, <1>6 DEF TokensFit
<1>8. Whole(q)
    <2> SUFFICES ASSUME NEW j \in DOMAIN q
                 PROVE  /\ q[j] = "GotoBestDone" => j + 1 \in DOMAIN q /\ q[j + 1] = "BacklashBestDone"
                        /\ q[j] = "BacklashBestDone" => j + 1 \in DOMAIN q /\ q[j + 1] = "BacklashDone"
                        /\ q[j] = "BacklashDone" => j + 1 \in DOMAIN q /\ q[j + 1] = "GotoNextDone"
                        /\ q[j] = "GotoNextDone" => j + 1 \in DOMAIN q /\ q[j + 1] = "GotoStartDone"
        BY DEF Whole
    <2>1. CASE j \in 1 .. n
        <3>1. j + 1 \in 1 .. n => j + 1 \in DOMAIN q /\ q[j + 1] = queue[j + 1]
            BY <1>1, <1>2
        <3> QED BY <1>1, <1>2, <2>1, <3>1 DEF Whole
    <2>2. CASE j \in (n + 1) .. (n + m) /\ j - n \in 1 .. m
        <3> DEFINE k == j - n
        <3>1. k \in DOMAIN es /\ q[j] = es[k]
            BY <1>1, <1>3, <2>2
        <3>2. k + 1 \in DOMAIN es => j + 1 \in DOMAIN q /\ q[j + 1] = es[k + 1]
            <4>1. n \in Nat /\ m \in Nat /\ j \in Int /\ k = j - n /\ k \in 1 .. m
                BY <1>1, <2>2
            <4> HIDE DEF k
            <4>2. k + 1 \in 1 .. m => j + 1 \in (n + 1) .. (n + m) /\ (j + 1) - n = k + 1
                BY <4>1
            <4>3. k + 1 \in 1 .. m => q[j + 1] = es[k + 1]
                BY <1>3, <4>2
            <4>4. k + 1 \in 1 .. m => j + 1 \in DOMAIN q
                BY <1>1, <4>1, <4>2
            <4> QED BY <1>1, <4>3, <4>4
        <3> HIDE DEF k
        <3> QED BY <3>1, <3>2 DEF Whole
    <2> QED BY <1>5, <2>1, <2>2
<1>9. \A e \in Tokens : Queued(e)' => Queued(e)
    BY <1>4, <1>6 DEF Queued
<1>10. \A j \in DOMAIN queue : j \in DOMAIN q /\ q[j] = queue[j]
    BY <1>1, <1>2
<1>11. \A j \in DOMAIN q : j \in DOMAIN queue \/ (j - n \in DOMAIN es /\ q[j] = es[j - n])
    BY <1>1, <1>3, <1>5
<1>12. Whole(queue')
    BY <1>4, <1>8
<1>13. \A j \in DOMAIN queue : j \in DOMAIN queue' /\ queue'[j] = queue[j]
    BY <1>4, <1>10
<1>14. \A j \in DOMAIN queue' :
          j \in DOMAIN queue \/ (j - Len(queue) \in DOMAIN es /\ queue'[j] = es[j - Len(queue)])
    BY <1>4, <1>11 DEF n
<1> QED BY <1>7, <1>9, <1>12, <1>13, <1>14

-----------------------------------------------------------------------------
(* The books of the sweep, step by step                                      *)

LEMMA CutOffIsFlat ==
    ASSUME Types, CutOff
    PROVE  Flat(hfds)
<1>1. hfds = <<>> \/ Len(hfds) = 1
    BY DEF CutOff
<1>2. hfds \in Seq(Nat)
    BY DEF Types
<1>3. DOMAIN hfds = {} \/ DOMAIN hfds = {1}
    BY <1>1, <1>2
<1> QED BY <1>3 DEF Flat

LEMMA PostKeepsBooks ==
    ASSUME Types, Books, running, NEW es \in Seq(Names), Clean(es), Whole(es),
           queue' = queue \o es, UNCHANGED <<leaf, sweep, startpos, frames>>,
           spoiled => spoiled'
    PROVE  Books'
<1>1. TokensFit /\ Whole(queue) /\ PointBooks /\ (SweepBooks \/ CutOff) /\ BestBooks /\ FitBooks
    BY DEF Books
<1>2. /\ TokensFit' /\ Whole(queue')
      /\ \A j \in DOMAIN queue : j \in DOMAIN queue' /\ queue'[j] = queue[j]
      /\ \A e \in Tokens : Queued(e)' => Queued(e)
    BY <1>1, QueueAfterPost
<1>3. UNCHANGED <<leaf, iteration, loopIteration, loopHFR, hfds, besthfr, bestpos, bestposfit,
                  startpos, frames>>
    BY DEF sweep
<1>4. PointBooks'
    BY <1>1, <1>2, <1>3 DEF PointBooks, Tokens
<1>5. SweepBooks => SweepBooks'
    BY <1>2, <1>3 DEF SweepBooks, Tokens
<1>6. ASSUME CutOff PROVE CutOff'
    <2>1. PICK p \in DOMAIN queue :
              /\ queue[p] = "abort"
              /\ \/ hfds = <<>> /\ iteration = 0
                 \/ /\ Len(hfds) = 1
                    /\ \A j \in 1 .. (p - 1) : queue[j] # "LoopFrameDone"
        BY <1>6 DEF CutOff
    <2>2. p \in DOMAIN queue' /\ queue'[p] = "abort"
        BY <1>2, <2>1
    <2>3. \A j \in 1 .. (p - 1) : j \in DOMAIN queue
        BY DEF Types
    <2>4. \A j \in 1 .. (p - 1) : queue'[j] = queue[j]
        BY <1>2, <2>3
    <2>5. spoiled'
        BY <1>6 DEF CutOff
    <2> QED BY <1>3, <2>1, <2>2, <2>4, <2>5 DEF CutOff
<1>7. BestBooks'
    BY <1>1, <1>3 DEF BestBooks, Place
<1>8. FitBooks'
    BY <1>1, <1>3 DEF FitBooks, Place
<1> QED BY <1>1, <1>2, <1>4, <1>5, <1>6, <1>7, <1>8 DEF Books

(* The "abort" of a refused start outlives whatever the chart takes before.  *)
LEMMA CutOffGoesOn ==
    ASSUME Types, TokensFit, Whole(queue), CutOff, NEW a, NEW i, Takes(a, i),
           NEW t \in Names, Submits(Rest(i), t)
    PROVE  /\ \E p \in DOMAIN queue' :
                 queue'[p] = "abort" /\ \A j \in 1 .. (p - 1) : queue'[j] # "LoopFrameDone"
           /\ a[2] = "LoopFrameDone" => hfds = <<>> /\ iteration = 0
<1>1. /\ i \in DOMAIN queue /\ Rest(i) \in Seq(Names) /\ Clean(Rest(i))
      /\ \A j \in 1 .. (i - 1) : queue[j] # "abort"
      /\ queue[i] = a[2] /\ a \in Arrows
    BY RestIsClean DEF Takes
<1>2. PICK p \in DOMAIN queue :
          /\ queue[p] = "abort"
          /\ \/ hfds = <<>> /\ iteration = 0
             \/ /\ Len(hfds) = 1
                /\ \A j \in 1 .. (p - 1) : queue[j] # "LoopFrameDone"
    BY DEF CutOff
<1>3. queue \in Seq(Names) /\ p \in Nat /\ i \in Nat /\ DOMAIN queue = 1 .. Len(queue)
      /\ i >= 1
    BY <1>1 DEF Types
<1>4. a[2] # "abort"
    BY <1>1, ArrowCases
<1>5. p > i
    <2>1. p # i /\ ~(p \in 1 .. (i - 1))
        BY <1>1, <1>2, <1>4
    <2> QED BY <1>2, <1>3, <2>1
<1>6. p - i \in DOMAIN Rest(i) /\ Rest(i)[p - i] = "abort"
    BY <1>1, <1>2, <1>3, <1>5, RestIs
<1>7. \A j \in DOMAIN Rest(i) : j \in DOMAIN queue' /\ queue'[j] = Rest(i)[j]
    <2>1. \A j \in DOMAIN Rest(i) : /\ j \in DOMAIN Append(Rest(i), t)
                                    /\ Append(Rest(i), t)[j] = Rest(i)[j]
        BY <1>1, AppendIs
    <2> QED BY <2>1 DEF Submits
<1>8. \A j \in 1 .. (p - i - 1) : j \in DOMAIN Rest(i)
    BY <1>1, <1>3, <1>6
<1>9. \A j \in 1 .. (p - i - 1) : queue'[j] # "LoopFrameDone"
    BY <1>1, <1>7, <1>8 DEF Clean, Tokens
<1>10. ASSUME a[2] = "LoopFrameDone" PROVE hfds = <<>> /\ iteration = 0
    <2>1. i \in 1 .. (p - 1)
        BY <1>3, <1>5
    <2> QED BY <1>1, <1>2, <1>10, <2>1
<1> QED BY <1>6, <1>7, <1>9, <1>10

(* What an entry keeps of the books, if it keeps those of points and sweep.  *)
LEMMA EntryKeepsQueue ==
    ASSUME Types, Books, running, NEW a, NEW i, Takes(a, i), leaf' = a[3],
           NEW t \in Names, Submits(Rest(i), t), t \in Tokens => Awaits(a[3], t),
           t \notin {Moved[1], Moved[2], Moved[3], Moved[4]}
    PROVE  /\ TokensFit' /\ Whole(queue')
           /\ \A e \in Tokens : Queued(e)' => e = t
<1>1. TokensFit /\ Whole(queue)
    BY DEF Books
<1>2. Rest(i) \in Seq(Names) /\ Clean(Rest(i)) /\ Whole(Rest(i))
    BY <1>1, RestIsClean
<1> QED BY <1>2, QueueAfterEntry DEF Queued

LEMMA EntryKeepsBooks ==
    ASSUME Types, Books, running, NEW a, NEW i, Takes(a, i), leaf' = a[3],
           NEW t \in Names, Submits(Rest(i), t), t \in Tokens => Awaits(a[3], t),
           t \notin {Moved[1], Moved[2], Moved[3], Moved[4]},
           UNCHANGED <<startpos, iteration, hfds, besthfr, bestpos>>,
           a[3] # "RequestGotoBest" => bestposfit' = bestposfit,
           a[3] = "RequestGotoBest" => FitBooks',
           spoiled => spoiled', PointBooks', SweepBooks => SweepBooks'
    PROVE  Books'
<1>1. TokensFit /\ Whole(queue) /\ (SweepBooks \/ CutOff) /\ BestBooks /\ FitBooks
    BY DEF Books
<1>2. TokensFit' /\ Whole(queue')
    BY EntryKeepsQueue
<1>3. ASSUME CutOff PROVE CutOff'
    <2>1. PICK p \in DOMAIN queue' :
              queue'[p] = "abort" /\ \A j \in 1 .. (p - 1) : queue'[j] # "LoopFrameDone"
        BY <1>1, <1>3, CutOffGoesOn
    <2>2. (hfds = <<>> /\ iteration = 0) \/ Len(hfds) = 1
        BY <1>3 DEF CutOff
    <2>3. spoiled'
        BY <1>3 DEF CutOff
    <2> QED BY <2>1, <2>2, <2>3 DEF CutOff
<1>4. BestBooks'
    BY <1>1 DEF BestBooks, Place
<1>5. FitBooks'
    <2>1. a \in Arrows /\ a[1] = leaf
        BY DEF Takes
    <2>2. CASE a[3] = "RequestGotoBest"
        BY <2>2
    <2>3. CASE a[3] # "RequestGotoBest"
        <3>1. a[3] \in Final \ {"RequestBacklashBest"} => leaf \in Final \ {"RequestBacklashBest"}
            BY <2>1, <2>3, ArrowCases DEF Final
        <3> QED BY <1>1, <2>3, <3>1 DEF FitBooks, Place
    <2> QED BY <2>2, <2>3
<1> QED BY <1>1, <1>2, <1>3, <1>4, <1>5 DEF Books

(* The point that Compute adds to the sweep.                                 *)
LEMMA PointIsAdded ==
    ASSUME Types, BestBooks, Len(hfds) = iteration, loopHFR <= Worst,
           NEW rest, SMCompute(rest), startpos' = startpos
    PROVE  BestBooks'
<1>1. /\ hfds' = Append(hfds, loopHFR)
      /\ \/ loopHFR < besthfr /\ besthfr' = loopHFR /\ bestpos' = Place(iteration)
         \/ ~(loopHFR < besthfr) /\ besthfr' = besthfr /\ bestpos' = bestpos
    BY DEF SMCompute
<1>2. /\ hfds \in Seq(Nat) /\ loopHFR \in Nat /\ besthfr \in Nat /\ iteration \in Nat
      /\ Worst \in Nat
    BY FocusAssumption DEF Types, Worst
<1> DEFINE n == iteration + 1
<1>3. /\ DOMAIN hfds = 1 .. iteration /\ DOMAIN hfds' = 1 .. n
      /\ \A j \in DOMAIN hfds : hfds'[j] = hfds[j] /\ hfds[j] \in Nat
      /\ hfds'[n] = loopHFR /\ n \in DOMAIN hfds'
      /\ \A j \in DOMAIN hfds' : j \in DOMAIN hfds \/ j = n
      /\ \A j \in DOMAIN hfds : j \in DOMAIN hfds'
    BY <1>1, <1>2
<1>4. Place(n - 1) = Place(iteration)
    BY <1>2
<1> HIDE DEF n
<1>5. \A j \in DOMAIN hfds' : hfds'[j] <= Worst
    BY <1>3 DEF BestBooks
<1>6. CASE besthfr = Worst /\ \A j \in DOMAIN hfds : hfds[j] = Worst
    <2>1. CASE loopHFR < besthfr
        <3>1. \A j \in DOMAIN hfds' : hfds'[n] <= hfds'[j] /\ (j < n => hfds'[n] < hfds'[j])
            BY <1>2, <1>3, <1>6, <2>1
        <3>2. besthfr' = hfds'[n] /\ bestpos' = Place(n - 1)
            BY <1>1, <1>3, <1>4, <2>1
        <3> QED BY <1>3, <1>5, <3>1, <3>2 DEF BestBooks, Worst, Place
    <2>2. CASE ~(loopHFR < besthfr)
        <3>1. loopHFR = Worst
            BY <1>2, <1>6, <2>2
        <3>2. besthfr' = Worst /\ \A j \in DOMAIN hfds' : hfds'[j] = Worst
            BY <1>1, <1>3, <1>6, <2>2, <3>1
        <3> QED BY <1>5, <3>2 DEF BestBooks, Worst
    <2> QED BY <2>1, <2>2
<1>7. ASSUME NEW k \in DOMAIN hfds, besthfr = hfds[k], bestpos = Place(k - 1),
             \A j \in DOMAIN hfds : hfds[k] <= hfds[j] /\ (j < k => hfds[k] < hfds[j])
      PROVE  BestBooks'
    <2>1. CASE loopHFR < besthfr
        <3>1. \A j \in DOMAIN hfds' : hfds'[n] <= hfds'[j] /\ (j < n => hfds'[n] < hfds'[j])
            BY <1>2, <1>3, <1>7, <2>1
        <3>2. besthfr' = hfds'[n] /\ bestpos' = Place(n - 1)
            BY <1>1, <1>3, <1>4, <2>1
        <3> QED BY <1>3, <1>5, <3>1, <3>2 DEF BestBooks, Worst, Place
    <2>2. CASE ~(loopHFR < besthfr)
        <3>1. \A j \in DOMAIN hfds' : hfds'[k] <= hfds'[j] /\ (j < k => hfds'[k] < hfds'[j])
            BY <1>2, <1>3, <1>7, <2>2
        <3>2. besthfr' = hfds'[k] /\ bestpos' = Place(k - 1) /\ k \in DOMAIN hfds'
            BY <1>1, <1>3, <1>7, <2>2
        <3> QED BY <1>5, <3>1, <3>2 DEF BestBooks, Worst, Place
    <2> QED BY <2>1, <2>2
<1> QED BY <1>6, <1>7 DEF BestBooks

(* Places grow along the sweep.                                              *)
LEMMA PlacesGrow ==
    ASSUME startpos \in Int, NEW m \in Nat, NEW k \in 0 .. m
    PROVE  Place(k) \in Place(0) .. Place(m)
<1>1. k * Steps \in Nat /\ m * Steps \in Nat /\ k * Steps <= m * Steps
    BY ProductsGrow, FocusAssumption
<1>2. Place(0) = startpos /\ Place(k) = startpos + k * Steps /\ Place(m) = startpos + m * Steps
    BY FocusAssumption DEF Place
<1> QED BY <1>1, <1>2

LEMMA SpoiledStays ==
    ASSUME NEW l, NEW rest, Enter(l, rest), spoiled
    PROVE  spoiled'
<1>1. \A p : Move(p, rest) => spoiled'
    BY DEF Move
<1> QED BY <1>1 DEF Enter, Stops, SMRequestFrameReset, Moves, SMInitLoopFrame,
           SMRequestExposure, SMFindStars, SMComputeLoopFrame, SMCompute,
           SMRequestGotoBest, SMComputeResult

LEMMA MovesSubmit ==
    ASSUME NEW p, NEW rest, Move(p, rest)
    PROVE  Submits(rest, "abort")
BY DEF Move, Submits

LEMMA EnterKeepsBooks ==
    ASSUME Types, Books, running, NEW a, NEW i, Takes(a, i), Enter(a[3], Rest(i)),
           startpos' = startpos
    PROVE  Books'
<1> DEFINE rest == Rest(i)
<1>1. TokensFit /\ Whole(queue) /\ PointBooks /\ (SweepBooks \/ CutOff) /\ BestBooks /\ FitBooks
    BY DEF Books
<1>2. /\ a \in Arrows /\ a[1] = leaf /\ i \in DOMAIN queue /\ queue[i] = a[2] /\ Queued(a[2])
      /\ rest \in Seq(Names)
    BY <1>1, RestIsClean DEF Takes, Queued
<1>3. leaf' = a[3] /\ (spoiled => spoiled')
    BY SpoiledStays DEF Enter
<1>4. CASE a[3] = "Final_1"
    BY <1>4 DEF Enter, Stops, Books
<1> SUFFICES ASSUME a[3] # "Final_1" PROVE Books'
    BY <1>4
<1> HIDE DEF rest
<1>5. "abort" \in Names /\ "abort" \notin Tokens
      /\ \A e : e \notin {"GotoBestDone", "BacklashBestDone", "BacklashDone", "GotoNextDone"}
             => e \notin {Moved[1], Moved[2], Moved[3], Moved[4]}
    BY DEF Names, Tokens, Moved
<1>6. CASE a[3] = "RequestFrameReset" /\ SMRequestFrameReset(rest)
    <2>1. Submits(rest, "FrameResetDone") /\ UNCHANGED <<sweep, frames>>
        BY <1>6 DEF SMRequestFrameReset, Submits
    <2>2. "FrameResetDone" \in Names /\ "FrameResetDone" \notin Tokens
        BY DEF Names, Tokens
    <2>3. \A e \in Tokens : ~Queued(e)'
        BY <1>3, <1>5, <2>1, <2>2, EntryKeepsQueue DEF rest
    <2>4. PointBooks'
        BY <1>3, <1>6, <2>3 DEF PointBooks, Point, Tokens
    <2>5. SweepBooks => SweepBooks'
        BY <1>2, <1>3, <1>6, <2>1, <2>3, ArrowCases
           DEF SweepBooks, Before, Point, Final, Tokens, sweep
    <2> QED BY <1>3, <1>5, <1>6, <2>1, <2>2, <2>4, <2>5, EntryKeepsBooks DEF rest, sweep
<1>7. ASSUME NEW p, Moves(p, rest), a[3] \in {"RequestBacklash", "RequestGotoStart", 
                                               "RequestGotoNext", "RequestBacklashBest"}
      PROVE  Books'
    <2>1. Submits(rest, "abort") /\ UNCHANGED <<sweep, frames>>
        BY <1>7, MovesSubmit DEF Moves
    <2>3. \A e \in Tokens : ~Queued(e)'
        BY <1>3, <1>5, <2>1, EntryKeepsQueue DEF rest
    <2>4. PointBooks'
        BY <1>3, <1>7, <2>3 DEF PointBooks, Point, Tokens
    <2>5. SweepBooks => SweepBooks'
        BY <1>2, <1>3, <1>7, <2>1, <2>3, ArrowCases
           DEF SweepBooks, Before, Point, Final, Tokens, sweep
    <2> QED BY <1>3, <1>5, <1>7, <2>1, <2>4, <2>5, EntryKeepsBooks DEF rest, sweep
<1>8. CASE a[3] = "InitLoopFrame" /\ SMInitLoopFrame(rest)
    <2>1. /\ Submits(rest, "InitLoopFrameDone") /\ loopIteration' = 0 /\ loopHFR' = 0
          /\ UNCHANGED <<iteration, hfds, besthfr, bestpos, bestposfit, frames>>
        BY <1>8 DEF SMInitLoopFrame, Submits
    <2>2. "InitLoopFrameDone" \in Names /\ Awaits(a[3], "InitLoopFrameDone")
        BY <1>8, AwaitsAre DEF Names
    <2>3. \A e \in Tokens : Queued(e)' => e = "InitLoopFrameDone"
        BY <1>3, <1>5, <2>1, <2>2, EntryKeepsQueue DEF rest
    <2>4. PointBooks'
        BY <1>3, <1>8, <2>1, <2>3, FocusAssumption DEF PointBooks, Point, Tokens
    <2>5. SweepBooks => SweepBooks'
        <3> SUFFICES ASSUME SweepBooks PROVE SweepBooks'
            OBVIOUS
        <3>1. Len(hfds) = iteration /\ iteration < Iterations /\ frames = iteration * LoopIterations
            <4>1. leaf = "RequestGotoStart" \/ leaf = "RequestGotoNext"
                BY <1>2, <1>8, ArrowCases
            <4> QED BY <4>1, FocusAssumption DEF SweepBooks, Before
        <3> QED BY <1>3, <1>8, <2>1, <2>3, <3>1, FocusAssumption
                DEF SweepBooks, Before, Point, Final, Tokens, Types
    <2> QED BY <1>3, <1>5, <1>8, <2>1, <2>2, <2>4, <2>5, EntryKeepsBooks DEF rest
<1>9. ASSUME NEW f \in BOOLEAN, SMRequestExposure(f, rest),
             a[3] \in {"RequestExposure", "RequestExposureBest"}
      PROVE  Books'
    <2>1. Submits(rest, "abort") /\ UNCHANGED <<sweep, frames>>
        BY <1>9 DEF SMRequestExposure, Submits
    <2>3. \A e \in Tokens : ~Queued(e)'
        BY <1>3, <1>5, <2>1, EntryKeepsQueue DEF rest
    <2>4. PointBooks'
        <3>1. CASE a[3] = "RequestExposure"
            <4>1. \/ leaf = "InitLoopFrame"
                  \/ leaf = "ComputeLoopFrame" /\ Queued("NextFrame")
                BY <1>2, <3>1, ArrowCases
            <4> QED BY <1>1, <1>3, <2>1, <2>3, <3>1, <4>1, FocusAssumption
                    DEF PointBooks, Point, Tokens, sweep
        <3>2. CASE a[3] = "RequestExposureBest"
            BY <1>3, <2>3, <3>2 DEF PointBooks, Point, Tokens
        <3> QED BY <1>9, <3>1, <3>2
    <2>5. SweepBooks => SweepBooks'
        BY <1>2, <1>3, <1>9, <2>1, <2>3, ArrowCases
           DEF SweepBooks, Before, Point, Final, Tokens, sweep
    <2> QED BY <1>3, <1>5, <1>9, <2>1, <2>4, <2>5, EntryKeepsBooks DEF rest, sweep
<1>10. CASE a[3] \in {"FindStars", "FindStarsFinal"} /\ SMFindStars(rest)
    <2>1. Submits(rest, "FindStarsDone") /\ UNCHANGED <<sweep, frames>>
        BY <1>10 DEF SMFindStars, Submits
    <2>2. "FindStarsDone" \in Names /\ "FindStarsDone" \notin Tokens
        BY DEF Names, Tokens
    <2>3. \A e \in Tokens : ~Queued(e)'
        BY <1>3, <1>5, <2>1, <2>2, EntryKeepsQueue DEF rest
    <2>4. PointBooks'
        BY <1>1, <1>2, <1>3, <1>10, <2>1, <2>3, ArrowCases DEF PointBooks, Point, Tokens, sweep
    <2>5. SweepBooks => SweepBooks'
        BY <1>2, <1>3, <1>10, <2>1, <2>3, ArrowCases
           DEF SweepBooks, Before, Point, Final, Tokens, sweep
    <2> QED BY <1>3, <1>5, <1>10, <2>1, <2>2, <2>4, <2>5, EntryKeepsBooks DEF rest, sweep
<1>11. CASE a[3] = "ComputeLoopFrame" /\ SMComputeLoopFrame(rest)
    <2> DEFINE t == IF loopIteration' < LoopIterations THEN "NextFrame" ELSE "LoopFrameDone"
    <2>1. /\ Submits(rest, t)
          /\ loopIteration' = loopIteration + 1 /\ loopHFR' = loopHFR + hfr
          /\ frames' = frames + 1
          /\ UNCHANGED <<iteration, hfds, besthfr, bestpos, bestposfit>>
        BY <1>11 DEF SMComputeLoopFrame, Submits
    <2>2. t \in Names /\ Awaits(a[3], t)
          /\ t \notin {"GotoBestDone", "BacklashBestDone", "BacklashDone", "GotoNextDone"}
        BY <1>11, AwaitsAre DEF Names
    <2>3. \A e \in Tokens : Queued(e)' => e = t
        BY <1>3, <1>5, <2>1, <2>2, EntryKeepsQueue DEF rest
    <2>4. leaf = "FindStars"
        BY <1>2, <1>11, ArrowCases
    <2>5. /\ loopIteration < LoopIterations /\ loopHFR <= Blank * loopIteration
          /\ loopIteration \in Nat /\ loopHFR \in Nat /\ hfr \in Nat /\ hfr <= Blank
          /\ frames \in Nat /\ iteration \in Nat
        BY <1>1, <2>4, FocusAssumption DEF PointBooks, Point, Types
    <2>6. loopHFR' <= Blank * loopIteration' /\ loopIteration' <= LoopIterations
        <3>1. Blank * (loopIteration + 1) = Blank * loopIteration + Blank
              /\ Blank * loopIteration \in Nat
            BY <2>5, FocusAssumption
        <3> QED BY <2>1, <2>5, <3>1, FocusAssumption
    <2>7. PointBooks'
        BY <1>3, <1>11, <2>1, <2>3, <2>5, <2>6, FocusAssumption DEF PointBooks, Point, Tokens
    <2>8. SweepBooks => SweepBooks'
        <3> SUFFICES ASSUME SweepBooks PROVE SweepBooks'
            OBVIOUS
        <3>1. /\ Len(hfds) = iteration /\ iteration < Iterations
              /\ frames = iteration * LoopIterations + loopIteration
            BY <2>4 DEF SweepBooks, Point
        <3>2. frames' = iteration' * LoopIterations + loopIteration'
            <4>1. iteration * LoopIterations \in Nat
                BY <2>5, FocusAssumption
            <4> QED BY <2>1, <2>5, <3>1, <4>1
        <3>3. ~Queued("NextLoop")' /\ ~Queued("LoopFinished")'
            BY <2>3 DEF Tokens
        <3> QED BY <1>3, <1>11, <2>1, <3>1, <3>2, <3>3
                DEF SweepBooks, Before, Point, Final
    <2> HIDE DEF t
    <2> QED BY <1>3, <1>5, <1>11, <2>1, <2>2, <2>7, <2>8, EntryKeepsBooks DEF rest
<1>12. CASE a[3] = "Compute" /\ SMCompute(rest)
    <2> DEFINE t == IF GoesOn THEN "NextLoop" ELSE "LoopFinished"
    <2>1. /\ Submits(rest, t) /\ hfds' = Append(hfds, loopHFR) /\ frames' = frames
          /\ loopIteration' = loopIteration /\ loopHFR' = loopHFR
          /\ iteration' = IF GoesOn THEN iteration + 1 ELSE iteration
        BY <1>12 DEF SMCompute, Submits
    <2>2. t \in Names /\ Awaits(a[3], t)
          /\ t \notin {"GotoBestDone", "BacklashBestDone", "BacklashDone", "GotoNextDone"}
        BY <1>12, AwaitsAre DEF Names
    <2>3. /\ TokensFit' /\ Whole(queue')
          /\ \A e \in Tokens : Queued(e)' => e = t
        BY <1>3, <1>5, <2>1, <2>2, EntryKeepsQueue DEF rest
    <2>4. leaf = "ComputeLoopFrame" /\ a[2] = "LoopFrameDone"
        BY <1>2, <1>12, ArrowCases
    <2>5. /\ iteration \in Nat /\ hfds \in Seq(Nat) /\ Len(hfds') = Len(hfds) + 1
          /\ loopIteration = LoopIterations /\ loopHFR <= Worst
        BY <1>1, <1>2, <2>1, <2>4 DEF PointBooks, Point, Worst, Types
    <2>6. /\ CutOff => hfds = <<>> /\ iteration = 0
          /\ CutOff => \E p \in DOMAIN queue' :
                 queue'[p] = "abort" /\ \A j \in 1 .. (p - 1) : queue'[j] # "LoopFrameDone"
        BY <1>1, <2>1, <2>2, <2>4, CutOffGoesOn DEF rest
    <2>7. CutOff => CutOff'
        <3>1. CutOff => Len(hfds') = 1
            BY <2>5, <2>6
        <3> QED BY <1>3, <2>6, <3>1 DEF CutOff
    <2>8. Len(hfds) = iteration
        <3>1. Len(<<>>) = 0
            OBVIOUS
        <3> QED BY <1>1, <2>4, <2>6, <3>1 DEF SweepBooks, Point
    <2>9. BestBooks'
        BY <1>1, <1>12, <2>5, <2>8, PointIsAdded
    <2>10. PointBooks' /\ FitBooks'
        BY <1>3, <1>12, <2>3 DEF PointBooks, FitBooks, Point, Final, Tokens
    <2>11. SweepBooks => SweepBooks'
        <3> SUFFICES ASSUME SweepBooks PROVE SweepBooks'
            OBVIOUS
        <3>1. /\ iteration < Iterations
              /\ frames = iteration * LoopIterations + LoopIterations
            BY <2>4, <2>5 DEF SweepBooks, Point
        <3>2. frames' = Len(hfds') * LoopIterations
            <4>1. (iteration + 1) * LoopIterations = iteration * LoopIterations + LoopIterations
                BY <2>5, FocusAssumption
            <4> QED BY <2>1, <2>5, <2>8, <3>1, <4>1
        <3>3. Queued("NextLoop")' => Len(hfds') = iteration' /\ iteration' < Iterations
            BY <2>1, <2>3, <2>5, <2>8 DEF Tokens, GoesOn
        <3>4. Queued("LoopFinished")' => Len(hfds') = Iterations
            BY <2>1, <2>3, <2>5, <2>8, <3>1, FocusAssumption DEF Tokens, GoesOn
        <3> QED BY <1>3, <1>12, <3>2, <3>3, <3>4 DEF SweepBooks, Before, Point, Final
    <2> QED BY <1>1, <2>3, <2>7, <2>9, <2>10, <2>11 DEF Books
<1>13. CASE a[3] = "RequestGotoBest" /\ SMRequestGotoBest(rest)
    <2>1. PICK p \in BestPositions(hfds) : bestposfit' = p /\ Move(p, rest)
        BY <1>13 DEF SMRequestGotoBest
    <2>2. /\ Submits(rest, "abort")
          /\ UNCHANGED <<iteration, loopIteration, loopHFR, hfds, besthfr, bestpos, frames>>
        BY <1>13, <2>1, MovesSubmit DEF SMRequestGotoBest
    <2>3. \A e \in Tokens : ~Queued(e)'
        BY <1>3, <1>5, <2>2, EntryKeepsQueue DEF rest
    <2>4. PointBooks'
        BY <1>3, <1>13, <2>3 DEF PointBooks, Point, Tokens
    <2>5. leaf = "RequestBacklashBest"
        BY <1>2, <1>13, ArrowCases
    <2>6. SweepBooks => SweepBooks'
        BY <1>3, <1>13, <2>2, <2>3, <2>5
           DEF SweepBooks, Before, Point, Final, Tokens
    <2>7. ASSUME ~Flat(hfds) PROVE bestposfit' \in Place(0) .. Place(Iterations - 1)
        <3>1. Len(hfds) = Iterations
            BY <1>1, <1>3, <1>13, <2>5, <2>7, CutOffIsFlat DEF SweepBooks, Final
        <3>2. p = bestpos \/ p \in Place(0) .. Place(Iterations - 1)
            BY <2>7, <3>1, BestPositionsFit
        <3>3. PICK k \in DOMAIN hfds : bestpos = Place(k - 1)
            BY <1>1, <2>7 DEF BestBooks, Flat
        <3>4. k - 1 \in 0 .. (Iterations - 1) /\ Iterations - 1 \in Nat
            BY <3>1, FocusAssumption DEF Types
        <3>5. bestpos \in Place(0) .. Place(Iterations - 1)
            BY <3>3, <3>4, PlacesGrow DEF Types
        <3> QED BY <2>1, <3>2, <3>5
    <2>8. FitBooks'
        BY <2>2, <2>7 DEF FitBooks, Place
    <2> QED BY <1>3, <1>5, <1>13, <2>2, <2>4, <2>6, <2>8, EntryKeepsBooks DEF rest
<1>14. CASE a[3] = "ComputeResult" /\ SMComputeResult(rest)
    <2>1. Submits(rest, "ComputeResultDone") /\ UNCHANGED <<sweep, frames>>
        BY <1>14 DEF SMComputeResult, Submits
    <2>2. "ComputeResultDone" \in Names /\ Awaits(a[3], "ComputeResultDone")
        BY <1>14, AwaitsAre DEF Names
    <2>3. \A e \in Tokens : Queued(e)' => e = "ComputeResultDone"
        BY <1>3, <1>5, <2>1, <2>2, EntryKeepsQueue DEF rest
    <2>4. PointBooks'
        BY <1>3, <1>14, <2>3 DEF PointBooks, Point, Tokens
    <2>5. SweepBooks => SweepBooks'
        BY <1>2, <1>3, <1>14, <2>1, <2>3, ArrowCases
           DEF SweepBooks, Before, Point, Final, Tokens, sweep
    <2> QED BY <1>3, <1>5, <1>14, <2>1, <2>2, <2>4, <2>5, EntryKeepsBooks DEF rest, sweep
<1> QED BY <1>6, <1>7, <1>8, <1>9, <1>10, <1>11, <1>12, <1>13, <1>14 DEF Enter, rest

(* What the devices post holds no token, and an Ok of the focuser whole.     *)
LEMMA PostsFit ==
    /\ Clean(Moved) /\ Whole(Moved)
    /\ Clean(<<"FrameResetDone">>) /\ Whole(<<"FrameResetDone">>)
    /\ Clean(<<"ExposureDone", "ExposureBestDone">>) /\ Whole(<<"ExposureDone", "ExposureBestDone">>)
    /\ Clean(<<"FindStarsDone">>) /\ Whole(<<"FindStarsDone">>)
    /\ Clean(<<"abort">>) /\ Whole(<<"abort">>)
BY DEF Clean, Whole, Moved, Tokens

LEMMA BooksKept ==
    ASSUME Books, UNCHANGED <<machine, sweep, startpos, frames>>, spoiled => spoiled'
    PROVE  Books'
<1>1. CASE ~running
    BY <1>1 DEF Books, machine
<1>2. CASE running
    <2>1. TokensFit' /\ Whole(queue')
        BY <1>2 DEF Books, machine, TokensFit
    <2>2. PointBooks' /\ BestBooks' /\ FitBooks'
        BY <1>2 DEF Books, machine, sweep, PointBooks, BestBooks, FitBooks, Queued, Place
    <2>3. SweepBooks' \/ CutOff'
        BY <1>2 DEF Books, machine, sweep, SweepBooks, CutOff, Queued
    <2> QED BY <2>1, <2>2, <2>3 DEF Books
<1> QED BY <1>1, <1>2

LEMMA BooksStay == Types /\ Books /\ [Next]_vars => Books'
<1> SUFFICES ASSUME Types, Books, [Next]_vars, running' PROVE Books'
    BY DEF Books
<1>1. ASSUME NEW es \in Seq(Names), Clean(es), Whole(es), Post(es), running' = running,
             UNCHANGED <<leaf, sweep, startpos, frames>>, spoiled => spoiled'
      PROVE  Books'
    <2>1. running /\ queue' = queue \o es
        BY <1>1 DEF Post
    <2> QED BY <1>1, <2>1, PostKeepsBooks
<1>2. CASE Autofocus
    <2>1. /\ hfds' = <<>> /\ iteration' = 0 /\ besthfr' = Worst
        BY <1>2 DEF Autofocus, Resets, Worst
    <2>2. BestBooks' /\ Flat(hfds')
        BY <2>1 DEF BestBooks, Flat, Worst
    <2>3. FitBooks'
        BY <2>2 DEF FitBooks, Flat
    <2>4. CASE running' = TRUE /\ leaf' = "Init" /\ queue' = <<"start">> /\ frames' = 0
        <3>1. TokensFit'
            BY <2>4, AwaitsAre DEF TokensFit
        <3>2. Whole(queue')
            BY <2>4 DEF Whole
        <3>3. ~Queued("NextFrame")' /\ ~Queued("LoopFrameDone")' /\ ~Queued("NextLoop")'
              /\ ~Queued("LoopFinished")'
            BY <2>4 DEF Queued
        <3>4. PointBooks' /\ SweepBooks'
            BY <2>1, <2>4, <3>3 DEF PointBooks, SweepBooks, Point, Before, Final
        <3> QED BY <2>2, <2>3, <3>1, <3>2, <3>4 DEF Books
    <2>5. CASE running' = running /\ queue' = Append(queue, "abort") /\ spoiled'
               /\ leaf' = leaf /\ UNCHANGED <<loopIteration, loopHFR>>
        <3>1. TokensFit /\ Whole(queue) /\ PointBooks
            BY <2>5 DEF Books
        <3>2. queue' = queue \o <<"abort">>
            BY <2>5 DEF Types
        <3>3. /\ TokensFit' /\ Whole(queue')
              /\ \A e \in Tokens : Queued(e)' => Queued(e)
            BY <2>5, <3>1, <3>2, Posts, PostsFit, QueueAfterPost
        <3>4. PointBooks'
            BY <2>5, <3>1, <3>3 DEF PointBooks, Tokens
        <3>5. CutOff'
            <4> DEFINE p == Len(queue) + 1
            <4>1. "abort" \in Names
                BY DEF Names
            <4>2. p \in DOMAIN queue' /\ queue'[p] = "abort"
                <5>1. queue \in Seq(Names) /\ Len(queue) \in Nat
                    BY DEF Types
                <5> QED BY <2>5, <4>1, <5>1, AppendIs
            <4> HIDE DEF p
            <4> QED BY <2>1, <2>5, <4>2 DEF CutOff
        <3> QED BY <2>2, <2>3, <3>3, <3>4, <3>5 DEF Books
    <2>6. \/ running' = TRUE /\ leaf' = "Init" /\ queue' = <<"start">> /\ frames' = 0
          \/ /\ running' = running /\ queue' = Append(queue, "abort") /\ spoiled'
             /\ leaf' = leaf /\ UNCHANGED <<loopIteration, loopHFR>>
        <3>1. CASE running' = TRUE /\ leaf' = "Init" /\ queue' = <<"start">> /\ frames' = 0
            BY <3>1
        <3>2. CASE /\ running' = running /\ spoiled' = running /\ leaf' = leaf
                   /\ queue' = IF running THEN Append(queue, "abort") ELSE queue
                   /\ UNCHANGED <<loopIteration, loopHFR>>
            BY <3>2
        <3> QED BY <1>2, <3>1, <3>2 DEF Autofocus, Resets
    <2> QED BY <2>4, <2>5, <2>6
<1>3. CASE Loop
    BY <1>3, BooksKept DEF Loop, setting
<1>4. CASE Abort
    BY <1>4 DEF Abort
<1>5. CASE MoveEnds
    BY <1>1, <1>5, Posts, PostsFit DEF MoveEnds, setting, ghost
<1>6. CASE StrayOk
    BY <1>1, <1>6, Posts, PostsFit DEF StrayOk, setting
<1>7. CASE FrameResetDone
    BY <1>1, <1>7, Posts, PostsFit DEF FrameResetDone, setting, ghost
<1>8. CASE ExposureEnds
    <2>1. /\ UNCHANGED <<leaf, sweep, startpos, frames>> /\ running' = running
          /\ Post(<<"ExposureDone", "ExposureBestDone">>) /\ (spoiled => spoiled')
        BY <1>8 DEF ExposureEnds, NewBLOB, setting
    <2> QED BY <1>1, <2>1, Posts, PostsFit
<1>9. CASE ForeignFrame
    BY <1>1, <1>9, Posts, PostsFit DEF ForeignFrame, setting
<1>10. CASE ExposureIsLost
    BY <1>10, BooksKept DEF ExposureIsLost, setting
<1>11. CASE SuccessSEP
    <2>1. /\ UNCHANGED <<leaf, sweep, startpos, frames>> /\ running' = running
          /\ (spoiled => spoiled')
          /\ \/ Post(<<"FindStarsDone">>) \/ Post(<<"abort">>) \/ queue' = queue
        BY <1>11 DEF SuccessSEP, StarsFound, NoStars, setting
    <2>2. CASE queue' = queue
        <3>1. UNCHANGED <<machine, sweep, startpos, frames>>
            <4>1. running' = running /\ leaf' = leaf /\ queue' = queue
                BY <2>1, <2>2
            <4>2. sweep' = sweep /\ startpos' = startpos /\ frames' = frames
                BY <2>1
            <4> QED BY <4>1, <4>2 DEF machine
        <3>2. spoiled => spoiled'
            BY <2>1
        <3> QED BY <3>1, <3>2, BooksKept
    <2>3. CASE Post(<<"FindStarsDone">>)
        BY <1>1, <2>1, <2>3, Posts, PostsFit
    <2>4. CASE Post(<<"abort">>)
        BY <1>1, <2>1, <2>4, Posts, PostsFit
    <2> QED BY <2>1, <2>2, <2>3, <2>4
<1>12. CASE Process
    <2>1. running /\ startpos' = startpos
        BY <1>12, ProcessCases DEF setting
    <2>2. CASE \E a \in Arrows, i \in DOMAIN queue : Takes(a, i) /\ Enter(a[3], Rest(i))
        BY <2>1, <2>2, EnterKeepsBooks
    <2>3. CASE Stops
        BY <2>3 DEF Stops
    <2>4. CASE /\ \A i \in DOMAIN queue : ~Taken(queue[i])
               /\ queue' = <<>> /\ said' = "none"
               /\ UNCHANGED <<running, leaf, sweep, focuser, camera, solver,
                              misplaced, frames, spoiled>>
        <3>1. ~CutOff
            BY <2>4, TakenIs DEF CutOff
        <3>2. PointBooks /\ SweepBooks /\ BestBooks /\ FitBooks
            BY <2>1, <3>1 DEF Books
        <3>3. \A e : ~Queued(e)'
            BY <2>4 DEF Queued
        <3>4. TokensFit' /\ Whole(queue')
            BY <2>4 DEF TokensFit, Whole
        <3>5. PointBooks' /\ SweepBooks'
            BY <2>4, <3>2, <3>3 DEF PointBooks, SweepBooks, sweep
        <3>6. BestBooks' /\ FitBooks'
            BY <2>1, <2>4, <3>2 DEF BestBooks, FitBooks, sweep, Place
        <3> QED BY <3>4, <3>5, <3>6 DEF Books
    <2> QED BY <1>12, <2>2, <2>3, <2>4, ProcessCases
<1>13. CASE UNCHANGED vars
    BY <1>13, BooksKept DEF vars, setting, ghost
<1> QED BY <1>2, <1>3, <1>4, <1>5, <1>6, <1>7, <1>8, <1>9, <1>10, <1>11, <1>12, <1>13
        DEF Next, Commands, Devices

LEMMA BestFromBooks == Types /\ Books => BestIsOfSweep
<1> SUFFICES ASSUME Types, Books, Measured, ~Flat(hfds)
             PROVE  /\ \E i \in DOMAIN hfds :
                          /\ bestpos = Place(i - 1)
                          /\ \A j \in DOMAIN hfds : hfds[i] <= hfds[j] /\ (j < i => hfds[i] < hfds[j])
                    /\ leaf \in Final \ {"RequestBacklashBest"} =>
                          bestposfit \in Place(0) .. Place(Iterations - 1)
    BY DEF BestIsOfSweep
<1>1. BestBooks /\ FitBooks
    BY DEF Books, Measured
<1>2. ~(\A j \in DOMAIN hfds : hfds[j] = Worst)
    BY DEF Flat
<1> QED BY <1>1, <1>2 DEF BestBooks, FitBooks

-----------------------------------------------------------------------------
(* The devices, step by step                                                 *)

Has(s, e) == \E j \in DOMAIN s : s[j] = e

LEMMA AppendHas ==
    ASSUME NEW s \in Seq(Names), NEW t \in Names
    PROVE  \A e : Has(Append(s, t), e) <=> Has(s, e) \/ e = t
<1>1. /\ DOMAIN Append(s, t) = 1 .. (Len(s) + 1) /\ DOMAIN s = 1 .. Len(s) /\ Len(s) \in Nat
      /\ \A j \in DOMAIN s : Append(s, t)[j] = s[j]
      /\ Append(s, t)[Len(s) + 1] = t
    BY AppendIs
<1> DEFINE q == Append(s, t)
<1> HIDE DEF q
<1>2. /\ DOMAIN q = 1 .. (Len(s) + 1) /\ \A j \in DOMAIN s : q[j] = s[j]
      /\ q[Len(s) + 1] = t
    BY <1>1 DEF q
<1>3. \A e : Has(q, e) <=> Has(s, e) \/ e = t
    BY <1>1, <1>2 DEF Has
<1> QED BY <1>3 DEF q

(* What the chart takes from the queue and what it leaves.                   *)
LEMMA RestHas ==
    ASSUME Types, TokensFit, Whole(queue), NEW a, NEW i, Takes(a, i)
    PROVE  /\ \A e : Has(Rest(i), e) => Queued(e)
           /\ Queued(a[2])
           /\ ~Has(Rest(i), "abort") => ~Doomed
           /\ a[2] \in Tokens => ~Doomed
<1>1. /\ i \in DOMAIN queue /\ queue[i] = a[2] /\ a[2] # "abort"
      /\ \A j \in 1 .. (i - 1) : queue[j] # "abort"
      /\ queue \in Seq(Names) /\ DOMAIN queue = 1 .. Len(queue)
    <2>1. a \in Arrows /\ i \in DOMAIN queue /\ queue[i] = a[2]
        BY DEF Takes
    <2>2. a[2] # "abort"
        BY <2>1, ArrowCases
    <2> QED BY <2>1, <2>2, RestIsClean DEF Types
<1>2. \A e : Has(Rest(i), e) => Queued(e)
    BY <1>1, RestIs DEF Has, Queued
<1>3. ASSUME NEW p \in DOMAIN queue, queue[p] = "abort" PROVE p > i
    <2>1. p # i /\ ~(p \in 1 .. (i - 1))
        BY <1>1, <1>3
    <2> QED BY <1>1, <2>1
<1>4. ASSUME Doomed PROVE Has(Rest(i), "abort") /\ a[2] \notin Tokens
    <2>1. PICK p \in DOMAIN queue :
              queue[p] = "abort" /\ \A j \in 1 .. (p - 1) : queue[j] \notin Tokens
        BY <1>4 DEF Doomed
    <2>2. p > i /\ p \in Nat /\ i \in Nat /\ i >= 1
        BY <1>1, <1>3, <2>1
    <2>3. i \in 1 .. (p - 1)
        BY <2>2
    <2>4. p - i \in DOMAIN Rest(i) /\ Rest(i)[p - i] = queue[i + (p - i)] /\ i + (p - i) = p
        BY <1>1, <2>2, RestIs
    <2> QED BY <1>1, <2>1, <2>3, <2>4 DEF Has
<1> QED BY <1>1, <1>2, <1>4 DEF Queued

(* What an entry leaves in the queue.                                        *)
LEMMA QueueHas ==
    ASSUME NEW rest \in Seq(Names), NEW t \in Names, Submits(rest, t), Clean(rest)
    PROVE  /\ \A e : Queued(e)' => Has(rest, e) \/ (e = t /\ queue' = Append(rest, t))
           /\ \A e : Has(rest, e) => Queued(e)'
           /\ Has(rest, "abort") => Doomed'
           /\ t = "abort" /\ queue' = Append(rest, t) => Doomed'
<1>1. \A e : Has(Append(rest, t), e) <=> Has(rest, e) \/ e = t
    BY AppendHas
<1>2. \A e : Queued(e)' <=> Has(queue', e)
    BY DEF Queued, Has
<1>3. queue' = rest \/ queue' = Append(rest, t)
    BY DEF Submits
<1>4. \A e : Queued(e)' => Has(rest, e) \/ (e = t /\ queue' = Append(rest, t))
    BY <1>1, <1>2, <1>3
<1>5. \A e : Has(rest, e) => Queued(e)'
    BY <1>1, <1>2, <1>3
<1>6. DOMAIN rest = 1 .. Len(rest) /\ Len(rest) \in Nat
    OBVIOUS
<1>7. \A j \in DOMAIN rest : j \in DOMAIN queue' /\ queue'[j] = rest[j]
    <2>1. \A j \in DOMAIN rest : j \in DOMAIN Append(rest, t) /\ Append(rest, t)[j] = rest[j]
        BY AppendIs
    <2> QED BY <1>3, <2>1
<1>8. ASSUME Has(rest, "abort") PROVE Doomed'
    <2>1. PICK p \in DOMAIN rest : rest[p] = "abort"
        BY <1>8 DEF Has
    <2>2. \A j \in 1 .. (p - 1) : j \in DOMAIN rest
        BY <1>6
    <2>3. \A j \in 1 .. (p - 1) : queue'[j] \notin Tokens
        BY <1>7, <2>2 DEF Clean
    <2> QED BY <1>7, <2>1, <2>3 DEF Doomed
<1>9. ASSUME t = "abort", queue' = Append(rest, t) PROVE Doomed'
    <2> DEFINE p == Len(rest) + 1
    <2>1. p \in DOMAIN queue' /\ queue'[p] = "abort"
        <3>1. /\ DOMAIN Append(rest, t) = 1 .. (Len(rest) + 1)
              /\ Append(rest, t)[Len(rest) + 1] = t
            BY AppendIs
        <3> QED BY <1>6, <1>9, <3>1
    <2>2. \A j \in 1 .. (p - 1) : j \in DOMAIN rest
        BY <1>6
    <2> HIDE DEF p
    <2>3. \A j \in 1 .. (p - 1) : queue'[j] \notin Tokens
        BY <1>7, <2>2 DEF Clean
    <2> QED BY <2>1, <2>3 DEF Doomed
<1> QED BY <1>4, <1>5, <1>8, <1>9

(* An answer that was read before the move it is taken for is found out: the *)
(* Ok it belongs to ends in GotoStartDone.                                   *)
LEMMA UnreadShows ==
    ASSUME NEW rest \in Seq(Names), Whole(rest), ~Unread(rest)
    PROVE  /\ leaf \notin {"RequestBacklash", "RequestBacklashBest"} =>
                 ~Has(rest, "GotoNextDone") /\ ~Has(rest, "BacklashBestDone")
           /\ (rest # <<>> /\ rest[1] = "BacklashDone") => ~Has(rest, "GotoBestDone")
<1> DEFINE S == {j \in DOMAIN rest : rest[j] = "GotoStartDone"}
<1>1. DOMAIN rest = 1 .. Len(rest) /\ Len(rest) \in Nat /\ IsFiniteSet(S)
      /\ Cardinality(S) \in Nat
    <2>1. DOMAIN rest = 1 .. Len(rest) /\ Len(rest) \in Nat
        OBVIOUS
    <2>2. IsFiniteSet(1 .. Len(rest))
        BY <2>1, FS_Interval
    <2>3. IsFiniteSet(S)
        <3>1. S \subseteq 1 .. Len(rest)
            BY <2>1
        <3> QED BY <2>2, <3>1, FS_Subset
    <2> QED BY <2>1, <2>3, FS_CardinalityType
<1>2. ~(Cardinality(S) > IF leaf \in {"RequestBacklash", "RequestBacklashBest"} THEN 1 ELSE 0)
    BY DEF Unread
<1>3. ASSUME NEW j \in DOMAIN rest, rest[j] = "GotoNextDone" PROVE j + 1 \in S
    BY <1>3 DEF Whole
<1>4. ASSUME NEW j \in DOMAIN rest, rest[j] = "BacklashDone" PROVE j + 2 \in S
    <2>1. j + 1 \in DOMAIN rest /\ rest[j + 1] = "GotoNextDone"
        BY <1>4 DEF Whole
    <2>2. (j + 1) + 1 = j + 2
        BY <1>1
    <2> QED BY <1>3, <2>1, <2>2
<1>5. ASSUME NEW j \in DOMAIN rest, rest[j] = "BacklashBestDone" PROVE j + 3 \in S
    <2>1. j + 1 \in DOMAIN rest /\ rest[j + 1] = "BacklashDone"
        BY <1>5 DEF Whole
    <2>2. (j + 1) + 2 = j + 3
        BY <1>1
    <2> QED BY <1>4, <2>1, <2>2
<1>6. ASSUME NEW j \in DOMAIN rest, rest[j] = "GotoBestDone" PROVE j + 4 \in S
    <2>1. j + 1 \in DOMAIN rest /\ rest[j + 1] = "BacklashBestDone"
        BY <1>6 DEF Whole
    <2>2. (j + 1) + 3 = j + 4
        BY <1>1
    <2> QED BY <1>5, <2>1, <2>2
<1> HIDE DEF S
<1>7. ASSUME leaf \notin {"RequestBacklash", "RequestBacklashBest"}
      PROVE  ~Has(rest, "GotoNextDone") /\ ~Has(rest, "BacklashBestDone")
    <2>1. Cardinality(S) = 0
        BY <1>1, <1>2, <1>7
    <2>2. S = {}
        BY <1>1, <2>1, FS_EmptySet
    <2> QED BY <1>3, <1>5, <2>2 DEF Has
<1>8. ASSUME rest # <<>>, rest[1] = "BacklashDone", NEW j \in DOMAIN rest, rest[j] = "GotoBestDone"
      PROVE  FALSE
    <2>1. 1 \in DOMAIN rest
        BY <1>1, <1>8
    <2>2. 3 \in S /\ j + 4 \in S /\ j + 4 # 3
        <3>1. 1 + 2 = 3
            OBVIOUS
        <3> QED BY <1>1, <1>4, <1>6, <1>8, <2>1, <3>1
    <2>3. IsFiniteSet(S \ {3}) /\ Cardinality(S \ {3}) = Cardinality(S) - 1
        BY <1>1, <2>2, FS_RemoveElement
    <2>4. Cardinality(S \ {3}) # 0
        <3>1. S \ {3} # {}
            BY <2>2
        <3> QED BY <2>3, <3>1, FS_EmptySet
    <2>5. Cardinality(S) <= 1
        BY <1>1, <1>2
    <2>6. Cardinality(S \ {3}) \in Nat
        BY <2>3, FS_CardinalityType
    <2> QED BY <1>1, <2>3, <2>4, <2>5, <2>6
<1> QED BY <1>7, <1>8 DEF Has

(* Where the chart goes on from: whatever it waited for has come.            *)
LEMMA TakesOwn ==
    ASSUME Types, TokensFit, Whole(queue), Own, running, ~spoiled, NEW a, NEW i, Takes(a, i)
    PROVE  /\ \A x \in exposing : ~x.own
           /\ \A x \in solving : ~x.own
           /\ ~Has(Rest(i), "FindStarsDone")
           /\ Has(Rest(i), "ExposureDone") \/ Has(Rest(i), "ExposureBestDone")
                  => leaf \in {"RequestExposure", "RequestExposureBest"}
           /\ leaf \in {"RequestExposure", "RequestExposureBest", "FindStars",
                        "FindStarsFinal", "ComputeResult"}
                  => image # {} /\ (Settled => InPlace(image, Spot))
<1>1. FocuserFits /\ CameraFits /\ ImageFits /\ SolverFits
    BY DEF Own
<1>2. a \in Arrows /\ a[1] = leaf /\ i \in DOMAIN queue /\ queue[i] = a[2]
    BY DEF Takes
<1>3. Queued(a[2]) /\ \A e : Has(Rest(i), e) => Queued(e)
    BY RestHas
<1>4. leaf \in {"RequestExposure", "RequestExposureBest"} => FrameQueued
    BY <1>2, <1>3, ArrowCases DEF FrameQueued
<1>5. leaf \in {"FindStars", "FindStarsFinal"} => a[2] = "FindStarsDone"
    BY <1>2, ArrowCases
<1>6. \A x \in exposing : ~x.own
    BY <1>1, <1>4 DEF CameraFits
<1>7. \A x \in solving : ~x.own
    BY <1>1, <1>3, <1>5 DEF SolverFits
<1>8. ASSUME a[2] = "FindStarsDone", NEW j \in DOMAIN Rest(i)
      PROVE  Rest(i)[j] \notin {"FindStarsDone", "ExposureDone", "ExposureBestDone"}
    <2>1. i + j \in DOMAIN queue /\ Rest(i)[j] = queue[i + j] /\ i < i + j
        <3>1. i \in Nat /\ j \in Nat \ {0}
            BY <1>2, RestIs DEF Types
        <3> QED BY <1>2, <3>1, RestIs DEF Types
    <2> QED BY <1>1, <1>2, <1>8, <2>1 DEF SolverFits
<1>9. ~Has(Rest(i), "FindStarsDone")
    <2> SUFFICES ASSUME Has(Rest(i), "FindStarsDone") PROVE FALSE
        OBVIOUS
    <2>1. leaf \in {"FindStars", "FindStarsFinal"}
        BY <1>1, <1>3 DEF SolverFits
    <2> QED BY <1>5, <1>8, <2>1 DEF Has
<1>10. ASSUME Has(Rest(i), "ExposureDone") \/ Has(Rest(i), "ExposureBestDone")
       PROVE  leaf \in {"RequestExposure", "RequestExposureBest"}
    <2>1. FrameQueued
        BY <1>3, <1>10 DEF FrameQueued
    <2>2. ~(leaf \in {"FindStars", "FindStarsFinal"})
        BY <1>5, <1>8, <1>10 DEF Has
    <2> QED BY <1>1, <2>1, <2>2 DEF CameraFits
<1>11. leaf \in {"RequestExposure", "RequestExposureBest", "FindStars", "FindStarsFinal",
                 "ComputeResult"}
           => image # {} /\ (Settled => InPlace(image, Spot))
    BY <1>1, <1>4 DEF ImageFits
<1> QED BY <1>6, <1>7, <1>9, <1>10, <1>11

Stars == {"FindStars", "FindStarsFinal"}
Shots == {"RequestExposure", "RequestExposureBest"}

LEMMA OwnAfterEntry ==
    ASSUME Types, TokensFit, Whole(queue), Own, running, ~spoiled, NEW a, NEW i, Takes(a, i),
           leaf' = a[3], NEW t \in Names, Submits(Rest(i), t),
           t \notin {"ExposureDone", "ExposureBestDone"},
           t = "FindStarsDone" => a[3] \in Stars,
           FocuserFits',
           \A x \in exposing' :
               x.own => a[3] \in Shots /\ (Settled' => x.still /\ x.at = Spot'),
           image' = image,
           a[3] \in Stars \cup {"ComputeResult"} /\ Settled' => Settled /\ Spot' = Spot,
           \A x \in solving' : x.own => a[3] \in Stars /\ queue' = Rest(i),
           misplaced' \subseteq {0}
    PROVE  Own'
<1> DEFINE rest == Rest(i)
<1>1. a \in Arrows /\ a[1] = leaf /\ rest \in Seq(Names) /\ Clean(rest)
    BY RestIsClean DEF Takes
<1>2. /\ ~Has(rest, "FindStarsDone")
      /\ Has(rest, "ExposureDone") \/ Has(rest, "ExposureBestDone") => leaf \in Shots
      /\ leaf \in Shots \cup Stars \cup {"ComputeResult"}
             => image # {} /\ (Settled => InPlace(image, Spot))
    BY TakesOwn DEF Shots, Stars
<1>3. \A e : Queued(e)' => Has(rest, e) \/ (e = t /\ queue' = Append(rest, t))
    BY <1>1, QueueHas
<1> HIDE DEF rest
<1>4. FrameQueued' => leaf \in Shots /\ a[3] \in Stars
    <2>1. FrameQueued' => leaf \in Shots
        BY <1>2, <1>3 DEF FrameQueued
    <2>2. leaf \in Shots => a[3] \in Stars
        BY <1>1, ArrowCases DEF Shots, Stars
    <2> QED BY <2>1, <2>2
<1>5. CameraFits'
    BY <1>4 DEF CameraFits, Shots, Stars
<1>6. ImageFits'
    <2> SUFFICES ASSUME FrameQueued' \/ leaf' \in Stars \cup {"ComputeResult"}
                 PROVE  image' # {} /\ (Settled' => InPlace(image', Spot'))
        BY DEF ImageFits, Stars, InPlace
    <2>1. a[3] \in Stars \cup {"ComputeResult"}
        BY <1>4
    <2>2. leaf \in Shots \cup Stars
        BY <1>1, <2>1, ArrowCases DEF Shots, Stars
    <2> QED BY <1>2, <2>1, <2>2
<1>7. Queued("FindStarsDone")' => t = "FindStarsDone" /\ queue' = Append(rest, t)
    BY <1>2, <1>3
<1>8. ASSUME NEW x \in solving', x.own PROVE a[3] \in Stars /\ ~Queued("FindStarsDone")'
    <2>1. a[3] \in Stars /\ queue' = rest
        BY <1>8 DEF rest
    <2>2. ~Queued("FindStarsDone")'
        BY <1>2, <2>1 DEF Queued, Has
    <2> QED BY <2>1, <2>2
<1>9. ASSUME NEW j \in DOMAIN queue', NEW k \in DOMAIN queue', queue'[j] = "FindStarsDone", j < k
      PROVE  FALSE
    <2>1. Queued("FindStarsDone")'
        BY <1>9 DEF Queued
    <2>2. t = "FindStarsDone" /\ queue' = Append(rest, t)
        BY <1>7, <2>1
    <2>3. /\ DOMAIN queue' = 1 .. (Len(rest) + 1) /\ DOMAIN rest = 1 .. Len(rest)
          /\ \A m \in DOMAIN rest : queue'[m] = rest[m]
          /\ Len(rest) \in Nat
        BY <1>1, <2>2, AppendIs
    <2>4. j \in DOMAIN rest
        BY <1>9, <2>3
    <2> QED BY <1>2, <1>9, <2>3, <2>4 DEF Has
<1>10. SolverFits'
    BY <1>7, <1>8, <1>9 DEF SolverFits, Stars
<1> QED BY <1>5, <1>6, <1>10 DEF Own

(* A frame that is not the run's own stays so.                               *)
LEMMA UnsteadyOwn ==
    ASSUME NEW S, \A x \in S : x \in Frame /\ ~x.own
    PROVE  \A x \in Unsteady(S) : ~x.own
<1> SUFFICES ASSUME NEW x \in S PROVE ~[x EXCEPT !.still = FALSE].own
    BY DEF Unsteady
<1> QED BY DEF Frame

LEMMA MoveOwn ==
    ASSUME Types, \A x \in exposing : ~x.own, NEW p, NEW rest, Move(p, rest)
    PROVE  \A x \in exposing' : ~x.own
<1>1. exposing' = exposing \/ exposing' = Unsteady(exposing)
    BY DEF Move
<1>2. \A x \in exposing : x \in Frame
    BY DEF Types
<1> QED BY <1>1, <1>2, UnsteadyOwn

(* A move that is asked for, and not taken for done already.                 *)
LEMMA MoveFits ==
    ASSUME NEW rest \in Seq(Names), Whole(rest), Clean(rest), NEW p, Move(p, rest), ~spoiled',
           leaf' \in Moves1, Target' = p, ~Unread(rest) => ~Has(rest, Answer')
    PROVE  FocuserFits'
<1>1. ~Settled'
    BY DEF Settled, Moves1, Best, Point
<1>2. CASE goal' = p /\ moving' = TRUE /\ queue' = rest /\ spoiled' = (spoiled \/ Unread(rest))
    <2>1. ~Has(rest, Answer')
        BY <1>2
    <2>2. ~Queued(Answer)'
        BY <1>2, <2>1 DEF Queued, Has
    <2> QED BY <1>1, <1>2, <2>2 DEF FocuserFits
<1>3. CASE queue' = Append(rest, "abort")
    <2>1. "abort" \in Names
        BY DEF Names
    <2>2. Doomed'
        BY <1>3, <2>1, QueueHas DEF Submits
    <2> QED BY <1>1, <2>2 DEF FocuserFits
<1> QED BY <1>2, <1>3 DEF Move

LEMMA EnterKeepsOwn ==
    ASSUME Types, Books, Own, running, ~spoiled', NEW a, NEW i, Takes(a, i),
           Enter(a[3], Rest(i)), a[3] # "Final_1", startpos' = startpos, image' = image
    PROVE  Own'
<1> DEFINE rest == Rest(i)
<1>1. /\ TokensFit /\ Whole(queue) /\ ~spoiled /\ leaf' = a[3]
      /\ SweepBooks
    BY SpoiledStays DEF Books, Enter, CutOff
<1>2. a \in Arrows /\ a[1] = leaf /\ Queued(a[2])
      /\ rest \in Seq(Names) /\ Clean(rest) /\ Whole(rest)
    BY <1>1, RestIsClean, RestHas DEF Takes
<1>3. /\ \A x \in exposing : ~x.own
      /\ \A x \in solving : ~x.own
      /\ ~Has(rest, "FindStarsDone")
      /\ leaf \in Shots \cup Stars \cup {"ComputeResult"}
             => image # {} /\ (Settled => InPlace(image, Spot))
    BY <1>1, TakesOwn DEF Shots, Stars
<1>4. FocuserFits /\ misplaced \subseteq {0}
    BY <1>1 DEF Own
<1>5. \A t \in Names : Submits(rest, t) /\ ~Doomed' => ~Doomed
    BY <1>1, <1>2, QueueHas, RestHas
<1>6. a[2] \in Tokens => ~Doomed
    BY <1>1, RestHas
<1>7. "abort" \in Names /\ "abort" \notin {"ExposureDone", "ExposureBestDone", "FindStarsDone"}
    BY DEF Names
<1>8. \A p : Move(p, rest) => Submits(rest, "abort") /\ \A x \in exposing' : ~x.own
    BY <1>3, MovesSubmit, MoveOwn
<1> HIDE DEF rest
<1>9. ASSUME a[3] \notin Moves1 \cup Best \cup Point PROVE FocuserFits'
    BY <1>1, <1>9 DEF FocuserFits, Settled
<1>10. CASE a[3] = "RequestFrameReset" /\ SMRequestFrameReset(rest)
    <2>1. /\ Submits(rest, "FrameResetDone") /\ UNCHANGED <<exposing, solving, misplaced>>
          /\ "FrameResetDone" \in Names
        BY <1>10 DEF SMRequestFrameReset, Submits, solver, Names
    <2>2. FocuserFits'
        BY <1>9, <1>10 DEF Moves1, Best, Point
    <2> QED BY <1>1, <1>3, <1>4, <1>10, <2>1, <2>2, OwnAfterEntry DEF rest, Stars
<1>11. ASSUME NEW p, Moves(p, rest), a[3] \in {"RequestBacklash", "RequestGotoStart"}
       PROVE  Own'
    <2>1. Move(p, rest) /\ UNCHANGED <<solving, misplaced>>
        BY <1>11 DEF Moves, solver
    <2>2. FocuserFits'
        BY <1>9, <1>11 DEF Moves1, Best, Point
    <2> QED BY <1>1, <1>3, <1>4, <1>7, <1>8, <1>11, <2>1, <2>2, OwnAfterEntry DEF rest, Stars
<1>12. CASE a[3] = "InitLoopFrame" /\ SMInitLoopFrame(rest)
    <2>1. /\ Submits(rest, "InitLoopFrameDone") /\ UNCHANGED <<exposing, solving, misplaced>>
          /\ UNCHANGED <<iteration, at, goal, moving>>
          /\ "InitLoopFrameDone" \in Names
        BY <1>12 DEF SMInitLoopFrame, Submits, solver, Names, camera, focuser
    <2>2. FocuserFits'
        <3> SUFFICES ASSUME Settled' PROVE ~moving' /\ at' = Spot'
            BY <1>1, <1>12 DEF FocuserFits, Moves1
        <3>1. iteration > 0 /\ ~Doomed'
            BY <1>1, <1>12, <2>1 DEF Settled, Best
        <3>2. leaf = "RequestGotoNext" /\ a[2] = "GotoNextDone"
            <4>1. leaf # "RequestGotoStart"
                BY <1>1, <3>1 DEF SweepBooks, Before
            <4> QED BY <1>2, <1>12, <4>1, ArrowCases
        <3>3. ~Doomed
            BY <1>5, <2>1, <3>1
        <3>4. ~moving /\ at = Place(iteration)
            BY <1>2, <1>4, <3>2, <3>3 DEF FocuserFits, Moves1, Target, Answer
        <3> QED BY <1>1, <1>12, <2>1, <3>4 DEF Spot, Best, Place
    <2> QED BY <1>1, <1>3, <1>4, <1>12, <2>1, <2>2, OwnAfterEntry DEF rest, Stars
<1>13. CASE a[3] = "RequestExposure" /\ SMRequestExposure(FALSE, rest)
    <2>1. /\ Submits(rest, "abort") /\ UNCHANGED <<solving, misplaced, iteration, at, goal, moving>>
          /\ exposing' = exposing \/ Capture(exposing, TRUE)
        BY <1>13 DEF SMRequestExposure, Submits, solver, focuser, sweep
    <2>2. Settled' => ~moving /\ at = Place(iteration) /\ Spot' = Place(iteration)
        <3> SUFFICES ASSUME Settled' PROVE ~moving /\ at = Place(iteration) /\ Spot' = Place(iteration)
            OBVIOUS
        <3>1. iteration > 0
            BY <1>1, <1>13, <2>1 DEF Settled, Best
        <3>2. /\ leaf = "InitLoopFrame" /\ a[2] \in Tokens
              \/ leaf = "ComputeLoopFrame"
            BY <1>2, <1>13, ArrowCases DEF Tokens
        <3>3. Settled
            BY <1>6, <3>1, <3>2 DEF Settled, Point
        <3>4. ~moving /\ at = Place(iteration)
            BY <1>4, <3>2, <3>3 DEF FocuserFits, Spot, Best
        <3> QED BY <1>1, <1>13, <2>1, <3>4 DEF Spot, Best, Place
    <2>3. FocuserFits'
        BY <1>1, <1>13, <2>1, <2>2 DEF FocuserFits, Moves1
    <2>4. ASSUME NEW x \in exposing', x.own, Settled' PROVE x.still /\ x.at = Spot'
        <3>1. x = [own |-> TRUE, still |-> ~moving, at |-> at]
            BY <1>3, <2>1, <2>4 DEF Capture
        <3>2. x.still = ~moving /\ x.at = at
            BY <3>1
        <3> QED BY <2>2, <2>4, <3>2
    <2> QED BY <1>1, <1>3, <1>4, <1>7, <1>13, <2>1, <2>3, <2>4, OwnAfterEntry DEF rest, Stars, Shots
<1>14. CASE a[3] \in Stars /\ SMFindStars(rest)
    <2>1. /\ Submits(rest, "FindStarsDone") /\ "FindStarsDone" \in Names
          /\ UNCHANGED <<exposing, misplaced, iteration, bestposfit, at, goal, moving>>
          /\ \/ solving' = solving
             \/ queue' = rest
        BY <1>14 DEF SMFindStars, Submits, Names, camera, focuser, sweep
    <2>2. Settled' => Settled /\ Spot' = Spot
        <3>1. CASE a[3] = "FindStars"
            <4>1. leaf = "RequestExposure"
                BY <1>2, <3>1, ArrowCases
            <4> QED BY <1>1, <2>1, <3>1, <4>1 DEF Settled, Spot, Point, Best, Place
        <3>2. CASE a[3] = "FindStarsFinal"
            <4>1. leaf = "RequestExposureBest"
                BY <1>2, <3>2, ArrowCases
            <4>2. ~Doomed' => ~Doomed
                BY <1>5, <2>1
            <4> QED BY <1>1, <2>1, <3>2, <4>1, <4>2 DEF Settled, Spot, Point, Best, Place
        <3> QED BY <1>14, <3>1, <3>2 DEF Stars
    <2>3. FocuserFits'
        BY <1>1, <1>4, <1>14, <2>1, <2>2 DEF FocuserFits, Moves1, Stars
    <2> QED BY <1>1, <1>3, <1>4, <1>14, <2>1, <2>2, <2>3, OwnAfterEntry DEF rest, Stars, Shots
<1>15. CASE a[3] = "ComputeLoopFrame" /\ SMComputeLoopFrame(rest)
    <2> DEFINE t == IF loopIteration' < LoopIterations THEN "NextFrame" ELSE "LoopFrameDone"
    <2>1. /\ Submits(rest, t) /\ t \in Names
          /\ t \notin {"ExposureDone", "ExposureBestDone", "FindStarsDone"}
          /\ UNCHANGED <<exposing, solving, iteration, bestposfit, at, goal, moving>>
          /\ misplaced' = IF InPlace(image, Place(iteration)) THEN misplaced
                          ELSE misplaced \cup {iteration}
        BY <1>15 DEF SMComputeLoopFrame, Submits, Names, camera, focuser, solver
    <2> HIDE DEF t
    <2>2. leaf = "FindStars"
        BY <1>2, <1>15, ArrowCases
    <2>3. iteration > 0 => Settled /\ Spot = Place(iteration)
        BY <2>2 DEF Settled, Point, Spot, Best
    <2>4. Settled' => Settled /\ Spot' = Spot
        BY <1>1, <1>15, <2>1, <2>2 DEF Settled, Spot, Point, Best, Place
    <2>5. FocuserFits'
        BY <1>1, <1>4, <1>15, <2>1, <2>4 DEF FocuserFits, Moves1
    <2>6. misplaced' \subseteq {0}
        <3>1. CASE iteration > 0
            BY <1>3, <1>4, <2>1, <2>2, <2>3, <3>1 DEF Stars
        <3>2. CASE iteration = 0
            BY <1>4, <2>1, <3>2
        <3>3. iteration \in Nat
            BY DEF Types
        <3> QED BY <3>1, <3>2, <3>3
    <2> QED BY <1>1, <1>3, <1>15, <2>1, <2>5, <2>6, OwnAfterEntry DEF rest, Stars, Shots
<1>16. CASE a[3] = "Compute" /\ SMCompute(rest)
    <2> DEFINE t == IF GoesOn THEN "NextLoop" ELSE "LoopFinished"
    <2>1. /\ Submits(rest, t) /\ t \in Names
          /\ t \notin {"ExposureDone", "ExposureBestDone", "FindStarsDone"}
          /\ UNCHANGED <<exposing, solving, misplaced>>
        BY <1>16 DEF SMCompute, Submits, Names, camera, solver
    <2> HIDE DEF t
    <2>2. FocuserFits'
        BY <1>9, <1>16 DEF Moves1, Best, Point
    <2> QED BY <1>1, <1>3, <1>4, <1>16, <2>1, <2>2, OwnAfterEntry DEF rest, Stars
<1>17. ASSUME NEW p, Moves(p, rest),
              \/ a[3] = "RequestGotoNext" /\ p = Place(iteration)
              \/ a[3] = "RequestBacklashBest" /\ p = bestpos - Backlash
       PROVE  Own'
    <2>1. Move(p, rest) /\ UNCHANGED <<solving, misplaced, iteration, bestpos>>
        BY <1>17 DEF Moves, solver, sweep
    <2>2. leaf = "Compute"
        BY <1>2, <1>17, ArrowCases
    <2>3. /\ Target' = p /\ leaf' \in Moves1
          /\ ~Unread(rest) => ~Has(rest, Answer')
        <3>1. ~Unread(rest) => ~Has(rest, "GotoNextDone") /\ ~Has(rest, "BacklashBestDone")
            BY <1>2, <2>2, UnreadShows
        <3> QED BY <1>1, <1>17, <2>1, <3>1 DEF Target, Answer, Moves1, Place
    <2>4. FocuserFits'
        BY <1>2, <2>1, <2>3, MoveFits
    <2> QED BY <1>1, <1>3, <1>4, <1>7, <1>8, <1>17, <2>1, <2>4, OwnAfterEntry DEF rest, Stars
<1>18. CASE a[3] = "RequestGotoBest" /\ SMRequestGotoBest(rest)
    <2>1. PICK p : bestposfit' = p /\ Move(p, rest)
        BY <1>18 DEF SMRequestGotoBest
    <2>2. UNCHANGED <<solving, misplaced>>
        BY <1>18 DEF SMRequestGotoBest, solver
    <2>3. leaf = "RequestBacklashBest" /\ a[2] = "BacklashBestDone"
        BY <1>2, <1>18, ArrowCases
    <2>4. rest # <<>> /\ rest[1] = "BacklashDone"
        <3>1. i \in DOMAIN queue /\ queue[i] = "BacklashBestDone"
            BY <2>3 DEF Takes
        <3>2. i + 1 \in DOMAIN queue /\ queue[i + 1] = "BacklashDone"
            BY <1>1, <3>1 DEF Whole
        <3>3. 1 \in DOMAIN rest /\ rest[1] = queue[i + 1]
            <4>1. i \in Int /\ i + 1 > i /\ (i + 1) - i = 1
                BY <3>1 DEF Types
            <4> QED BY <3>1, <3>2, <4>1, RestIs DEF rest, Types
        <3> QED BY <3>2, <3>3
    <2>5. /\ Target' = p /\ leaf' \in Moves1
          /\ ~Unread(rest) => ~Has(rest, Answer')
        <3>1. ~Unread(rest) => ~Has(rest, "GotoBestDone")
            BY <1>2, <2>4, UnreadShows
        <3> QED BY <1>1, <1>18, <2>1, <3>1 DEF Target, Answer, Moves1
    <2>6. FocuserFits'
        BY <1>2, <2>1, <2>5, MoveFits
    <2> QED BY <1>1, <1>3, <1>4, <1>7, <1>8, <1>18, <2>1, <2>2, <2>6, OwnAfterEntry DEF rest, Stars
<1>19. CASE a[3] = "RequestExposureBest" /\ SMRequestExposure(TRUE, rest)
    <2>1. /\ Submits(rest, "abort") /\ UNCHANGED <<solving, misplaced, bestposfit, at, goal, moving>>
          /\ exposing' = exposing \/ Capture(exposing, TRUE)
        BY <1>19 DEF SMRequestExposure, Submits, solver, focuser, sweep
    <2>2. Settled' => ~moving /\ at = bestposfit /\ Spot' = bestposfit
        <3> SUFFICES ASSUME Settled' PROVE ~moving /\ at = bestposfit /\ Spot' = bestposfit
            OBVIOUS
        <3>1. ~Doomed
            BY <1>1, <1>5, <1>7, <1>19, <2>1 DEF Settled, Point
        <3>2. leaf = "RequestGotoBest" /\ a[2] = "GotoBestDone"
            BY <1>2, <1>19, ArrowCases
        <3>3. ~moving /\ at = bestposfit
            BY <1>2, <1>4, <3>1, <3>2 DEF FocuserFits, Moves1, Target, Answer
        <3> QED BY <1>1, <1>19, <2>1, <3>3 DEF Spot, Best
    <2>3. FocuserFits'
        BY <1>1, <1>19, <2>1, <2>2 DEF FocuserFits, Moves1
    <2>4. ASSUME NEW x \in exposing', x.own, Settled' PROVE x.still /\ x.at = Spot'
        <3>1. x = [own |-> TRUE, still |-> ~moving, at |-> at]
            BY <1>3, <2>1, <2>4 DEF Capture
        <3>2. x.still = ~moving /\ x.at = at
            BY <3>1
        <3> QED BY <2>2, <2>4, <3>2
    <2> QED BY <1>1, <1>3, <1>4, <1>7, <1>19, <2>1, <2>3, <2>4, OwnAfterEntry DEF rest, Stars, Shots
<1>20. CASE a[3] = "ComputeResult" /\ SMComputeResult(rest)
    <2>1. /\ Submits(rest, "ComputeResultDone") /\ "ComputeResultDone" \in Names
          /\ UNCHANGED <<exposing, solving, misplaced, bestposfit, at, goal, moving>>
        BY <1>20 DEF SMComputeResult, Submits, Names, camera, solver, sweep, focuser
    <2>2. Settled' => Settled /\ Spot' = Spot
        <3>1. leaf = "FindStarsFinal"
            BY <1>2, <1>20, ArrowCases
        <3>2. ~Doomed' => ~Doomed
            BY <1>5, <2>1
        <3> QED BY <1>1, <1>20, <2>1, <3>1, <3>2 DEF Settled, Spot, Point, Best
    <2>3. FocuserFits'
        BY <1>1, <1>4, <1>20, <2>1, <2>2 DEF FocuserFits, Moves1
    <2> QED BY <1>1, <1>3, <1>4, <1>20, <2>1, <2>2, <2>3, OwnAfterEntry DEF rest, Stars, Shots
<1> QED BY <1>10, <1>11, <1>12, <1>13, <1>14, <1>15, <1>16, <1>17, <1>18, <1>19, <1>20
        DEF Enter, rest, Stars

LEMMA PostHas ==
    ASSUME Types, TokensFit, Whole(queue), NEW es \in Seq(Names), Clean(es), Whole(es),
           queue' = queue \o es, leaf' = leaf
    PROVE  /\ \A e : Queued(e)' => Queued(e) \/ Has(es, e)
           /\ \A e : Queued(e) => Queued(e)'
           /\ Doomed => Doomed'
<1>1. /\ \A j \in DOMAIN queue : j \in DOMAIN queue' /\ queue'[j] = queue[j]
      /\ \A j \in DOMAIN queue' :
            j \in DOMAIN queue \/ (j - Len(queue) \in DOMAIN es /\ queue'[j] = es[j - Len(queue)])
    BY QueueAfterPost
<1>2. ASSUME Doomed PROVE Doomed'
    <2>1. PICK p \in DOMAIN queue :
              queue[p] = "abort" /\ \A j \in 1 .. (p - 1) : queue[j] \notin Tokens
        BY <1>2 DEF Doomed
    <2>2. \A j \in 1 .. (p - 1) : j \in DOMAIN queue
        BY DEF Types
    <2> QED BY <1>1, <2>1, <2>2 DEF Doomed
<1> QED BY <1>1, <1>2 DEF Queued, Has

(* What the devices say changes nothing but where the focuser is, which      *)
(* frame was taken and which stars were found.                               *)
LEMMA PostKeepsOwn ==
    ASSUME Types, TokensFit, Whole(queue), Own, running, ~spoiled,
           NEW es \in Seq(Names), Clean(es), Whole(es), queue' = queue \o es,
           UNCHANGED <<leaf, iteration, bestpos, bestposfit, startpos, image, misplaced>>,
           ~Has(es, "ExposureDone"), ~Has(es, "ExposureBestDone"), ~Has(es, "FindStarsDone"),
           \/ ~moving' /\ ((at' = at /\ ~moving) \/ (at' = goal /\ moving))
           \/ /\ UNCHANGED <<at, goal, moving>>
              /\ ~Has(es, Answer),
           \A x \in exposing' : x.own => x \in exposing,
           solving' \subseteq solving
    PROVE  Own'
<1>1. FocuserFits /\ CameraFits /\ ImageFits /\ SolverFits /\ misplaced \subseteq {0}
    BY DEF Own
<1>2. /\ \A e : Queued(e)' => Queued(e) \/ Has(es, e)
      /\ \A e : Queued(e) => Queued(e)'
      /\ Doomed => Doomed'
    BY PostHas
<1>3. /\ Settled' => Settled
      /\ Spot' = Spot /\ Target' = Target /\ Answer' = Answer
    BY <1>2 DEF Settled, Spot, Target, Answer, Place
<1>4. /\ Queued("FindStarsDone")' <=> Queued("FindStarsDone")
      /\ FrameQueued' <=> FrameQueued
    BY <1>2 DEF FrameQueued
<1>5. FocuserFits'
    BY <1>1, <1>2, <1>3 DEF FocuserFits
<1>6. CameraFits'
    BY <1>1, <1>3, <1>4 DEF CameraFits
<1>7. ImageFits'
    BY <1>1, <1>3, <1>4 DEF ImageFits, InPlace
<1>8. ASSUME NEW j \in DOMAIN queue', NEW k \in DOMAIN queue', queue'[j] = "FindStarsDone", j < k
      PROVE  queue'[k] \notin {"FindStarsDone", "ExposureDone", "ExposureBestDone"}
    <2>1. \A m \in DOMAIN queue' :
              queue'[m] \in {"FindStarsDone", "ExposureDone", "ExposureBestDone"}
                  => m \in DOMAIN queue /\ queue[m] = queue'[m]
        BY QueueAfterPost DEF Has
    <2> QED BY <1>1, <1>8, <2>1 DEF SolverFits
<1>9. SolverFits'
    BY <1>1, <1>4, <1>8 DEF SolverFits
<1> QED BY <1>1, <1>5, <1>6, <1>7, <1>9 DEF Own

(* Of the posts, only the frame's and the stars' answer for the camera.      *)
LEMMA PostsHave ==
    /\ \A e \in {"ExposureDone", "ExposureBestDone", "FindStarsDone"} :
          ~Has(Moved, e) /\ ~Has(<<"FrameResetDone">>, e) /\ ~Has(<<"abort">>, e) /\ ~Has(<<>>, e)
    /\ ~Has(<<"FrameResetDone">>, Answer) /\ ~Has(<<"abort">>, Answer) /\ ~Has(<<>>, Answer)
    /\ ~Has(<<"FindStarsDone">>, Answer)
    /\ ~Has(<<"ExposureDone", "ExposureBestDone">>, Answer)
    /\ ~Has(<<"ExposureDone", "ExposureBestDone">>, "FindStarsDone")
    /\ ~Has(<<"FindStarsDone">>, "ExposureDone") /\ ~Has(<<"FindStarsDone">>, "ExposureBestDone")
    /\ Clean(<<>>) /\ Whole(<<>>) /\ <<>> \in Seq(Names)
BY DEF Has, Moved, Answer, Clean, Whole

LEMMA FrameKeepsOwn ==
    ASSUME Types, TokensFit, Whole(queue), Own, running, ~spoiled, NEW x \in exposing, x.own,
           queue' = queue \o <<"ExposureDone", "ExposureBestDone">>, image' = {x}, exposing' = {},
           UNCHANGED <<leaf, iteration, bestpos, bestposfit, startpos, misplaced, at, goal,
                       moving, solving>>
    PROVE  Own'
<1> DEFINE es == <<"ExposureDone", "ExposureBestDone">>
<1>1. FocuserFits /\ CameraFits /\ ImageFits /\ SolverFits /\ misplaced \subseteq {0}
    BY DEF Own
<1>2. /\ \A e : Queued(e)' => Queued(e) \/ Has(es, e)
      /\ Doomed => Doomed'
    BY PostHas, Posts, PostsFit
<1>3. ~Has(es, Answer) /\ ~Has(es, "FindStarsDone")
    BY PostsHave
<1> HIDE DEF es
<1>4. /\ leaf \in {"RequestExposure", "RequestExposureBest"}
      /\ Settled => x.still /\ x.at = Spot
    BY <1>1 DEF CameraFits
<1>5. /\ Settled' => Settled
      /\ Spot' = Spot
    BY <1>2 DEF Settled, Spot, Place
<1>6. FocuserFits'
    BY <1>1, <1>4, <1>5 DEF FocuserFits, Moves1
<1>7. CameraFits'
    BY <1>4 DEF CameraFits
<1>8. ImageFits'
    BY <1>4, <1>5 DEF ImageFits, InPlace
<1>9. ~Queued("FindStarsDone")'
    BY <1>1, <1>2, <1>3, <1>4 DEF SolverFits
<1>10. SolverFits'
    BY <1>1, <1>4, <1>9 DEF SolverFits, Queued
<1> QED BY <1>1, <1>6, <1>7, <1>8, <1>10 DEF Own

LEMMA StarsKeepOwn ==
    ASSUME Types, TokensFit, Whole(queue), Own, running, ~spoiled,
           solving # {}, \A x \in solving : x.own, solving' = {},
           queue' = queue \o <<"FindStarsDone">>,
           UNCHANGED <<leaf, iteration, bestpos, bestposfit, startpos, image, misplaced, at, goal,
                       moving>>,
           \A x \in exposing' : x.own => x \in exposing
    PROVE  Own'
<1> DEFINE es == <<"FindStarsDone">>
<1>1. FocuserFits /\ CameraFits /\ ImageFits /\ SolverFits /\ misplaced \subseteq {0}
    BY DEF Own
<1>2. /\ \A e : Queued(e)' => Queued(e) \/ Has(es, e)
      /\ Doomed => Doomed'
    BY PostHas, Posts, PostsFit
<1>3. ~Has(es, "ExposureDone") /\ ~Has(es, "ExposureBestDone")
    BY PostsHave
<1> HIDE DEF es
<1>4. leaf \in {"FindStars", "FindStarsFinal"} /\ ~Queued("FindStarsDone")
    BY <1>1 DEF SolverFits
<1>5. /\ Settled' => Settled
      /\ Spot' = Spot
      /\ FrameQueued' => FrameQueued
    BY <1>2, <1>3 DEF Settled, Spot, Place, FrameQueued
<1>6. FocuserFits'
    BY <1>1, <1>4, <1>5 DEF FocuserFits, Moves1
<1>7. CameraFits'
    BY <1>1, <1>4, <1>5 DEF CameraFits
<1>8. ImageFits'
    BY <1>1, <1>4, <1>5 DEF ImageFits, InPlace
<1>9. queue' = Append(queue, "FindStarsDone") /\ "FindStarsDone" \in Names
    BY DEF Types, Names
<1>10. /\ DOMAIN queue' = 1 .. (Len(queue) + 1) /\ DOMAIN queue = 1 .. Len(queue)
       /\ \A j \in DOMAIN queue : queue'[j] = queue[j]
       /\ Len(queue) \in Nat
    BY <1>9, AppendIs DEF Types
<1>11. ASSUME NEW j \in DOMAIN queue', NEW k \in DOMAIN queue', queue'[j] = "FindStarsDone", j < k
       PROVE  FALSE
    <2>1. j \in DOMAIN queue
        BY <1>10, <1>11
    <2> QED BY <1>4, <1>10, <1>11, <2>1 DEF Queued
<1>12. SolverFits'
    BY <1>4, <1>11 DEF SolverFits
<1> QED BY <1>1, <1>6, <1>7, <1>8, <1>12 DEF Own

(* A step that leaves the chart, the sweep and the focuser alone.            *)
LEMMA OwnKept ==
    ASSUME Types, Books, Own,
           UNCHANGED <<machine, iteration, bestpos, bestposfit, startpos, image, misplaced,
                       focuser, solving>>,
           spoiled => spoiled', \A x \in exposing' : x.own => x \in exposing
    PROVE  Own'
<1> SUFFICES ASSUME running, ~spoiled PROVE Own'
    BY DEF Own, machine
<1>1. TokensFit /\ Whole(queue)
    BY DEF Books
<1>2. queue' = queue \o <<>>
    BY DEF machine, Types
<1> QED BY <1>1, <1>2, PostsHave, PostKeepsOwn DEF machine, focuser

LEMMA CaptureOwn ==
    ASSUME NEW busy, Capture(busy, FALSE)
    PROVE  \A x \in exposing' : x.own => x \in busy
BY DEF Capture

LEMMA OwnStays == Types /\ Books /\ Own /\ [Next]_vars => Own'
<1> SUFFICES ASSUME Types, Books, Own, [Next]_vars, running', ~spoiled' PROVE Own'
    BY DEF Own
<1>1. CASE Autofocus
    <2>1. /\ leaf' = "Init" /\ queue' = <<"start">> /\ misplaced' = {}
          /\ exposing' = NotOwn(exposing) /\ solving' = NotOwn(solving)
        <3>1. CASE spoiled' = running /\ running' = running
            BY <3>1
        <3> QED BY <1>1, <3>1 DEF Autofocus
    <2>2. /\ \A x \in exposing' : ~x.own
          /\ \A x \in solving' : ~x.own
        <3>1. ASSUME NEW S, S \subseteq Frame PROVE \A x \in NotOwn(S) : ~x.own
            BY <3>1 DEF NotOwn, Frame
        <3> QED BY <2>1, <3>1 DEF Types
    <2>3. \A e \in Names \ {"start"} : ~Queued(e)'
        BY <2>1 DEF Queued
    <2>4. ~Queued("FindStarsDone")' /\ ~FrameQueued'
        BY <2>3 DEF FrameQueued, Names
    <2>5. FocuserFits' /\ CameraFits' /\ ImageFits'
        BY <2>1, <2>2, <2>4 DEF FocuserFits, CameraFits, ImageFits, Settled, Moves1, Best, Point
    <2>6. SolverFits'
        BY <2>1, <2>2, <2>4 DEF SolverFits, Queued
    <2> QED BY <2>1, <2>5, <2>6 DEF Own
<1>2. CASE Loop
    <2>1. \A x \in exposing' : x.own => x \in exposing
        BY <1>2, CaptureOwn DEF Loop, LoopExposure
    <2> QED BY <1>2, <2>1, OwnKept DEF Loop, sweep, setting, solver
<1>3. CASE Abort
    BY <1>3 DEF Abort
<1>4. CASE Process
    <2>1. running /\ startpos' = startpos /\ image' = image
        BY <1>4, ProcessCases DEF setting
    <2>2. CASE \E a \in Arrows, i \in DOMAIN queue : Takes(a, i) /\ Enter(a[3], Rest(i))
        <3>1. PICK a \in Arrows, i \in DOMAIN queue : Takes(a, i) /\ Enter(a[3], Rest(i))
            BY <2>2
        <3>2. a[3] # "Final_1"
            BY <3>1 DEF Enter, Stops
        <3> QED BY <2>1, <3>1, <3>2, EnterKeepsOwn
    <2>3. CASE Stops
        BY <2>3 DEF Stops
    <2>4. CASE /\ \A i \in DOMAIN queue : ~Taken(queue[i])
               /\ queue' = <<>> /\ said' = "none"
               /\ UNCHANGED <<running, leaf, sweep, focuser, camera, solver,
                              misplaced, frames, spoiled>>
        <3>1. ~Doomed /\ ~spoiled
            BY <2>4, TakenIs DEF Doomed
        <3>2. FocuserFits /\ CameraFits /\ ImageFits /\ SolverFits /\ misplaced \subseteq {0}
            BY <2>1, <3>1 DEF Own
        <3>3. (\A e : ~Queued(e)') /\ ~FrameQueued'
            BY <2>4 DEF Queued, FrameQueued
        <3>4. UNCHANGED <<leaf, iteration, bestpos, bestposfit, startpos, at, goal, moving,
                          exposing, image, solving, misplaced>>
            BY <2>1, <2>4 DEF sweep, focuser, camera, solver
        <3>5. /\ Settled' => Settled
              /\ Spot' = Spot /\ Target' = Target
            BY <3>1, <3>4 DEF Settled, Spot, Target, Place
        <3>6. FocuserFits'
            BY <3>1, <3>2, <3>3, <3>4, <3>5 DEF FocuserFits
        <3>7. CameraFits'
            BY <3>2, <3>3, <3>4, <3>5 DEF CameraFits
        <3>8. ImageFits'
            BY <3>2, <3>3, <3>4, <3>5 DEF ImageFits, InPlace
        <3>9. SolverFits'
            BY <2>4, <3>2, <3>3, <3>4 DEF SolverFits
        <3> QED BY <3>2, <3>4, <3>6, <3>7, <3>8, <3>9 DEF Own
    <2> QED BY <1>4, <2>2, <2>3, <2>4, ProcessCases
<1>5. CASE UNCHANGED vars
    BY <1>5, OwnKept DEF vars, sweep, setting, solver, camera, ghost
<1>6. CASE ExposureIsLost
    BY <1>6, OwnKept DEF ExposureIsLost, sweep, setting, solver
<1> SUFFICES ASSUME Devices \/ SuccessSEP, ~ExposureIsLost PROVE Own'
    BY <1>1, <1>2, <1>3, <1>4, <1>5, <1>6 DEF Next, Commands
<1>7. running' = running /\ ~spoiled
    <2>1. running' = running
        BY DEF Devices, MoveEnds, StrayOk, FrameResetDone, ExposureEnds, ForeignFrame, SuccessSEP
    <2>2. ASSUME NEW x, NewBLOB(x, {}), spoiled PROVE spoiled'
        BY <2>2 DEF NewBLOB
    <2>3. spoiled => spoiled'
        BY <2>2 DEF Devices, MoveEnds, StrayOk, FrameResetDone, ExposureEnds, ForeignFrame,
                    SuccessSEP, ghost
    <2> QED BY <2>1, <2>3
<1>8. running /\ TokensFit /\ Whole(queue)
    BY <1>7 DEF Books
<1>9. CASE MoveEnds
    BY <1>7, <1>8, <1>9, Posts, PostsFit, PostsHave, PostKeepsOwn
       DEF MoveEnds, Post, sweep, setting, camera, solver, ghost
<1>10. CASE StrayOk
    <2>1. ~moving
        BY <1>10 DEF StrayOk
    <2>2. /\ queue' = queue \o Moved
          /\ UNCHANGED <<leaf, iteration, bestpos, bestposfit, startpos, image, misplaced,
                         at, goal, moving, exposing, solving>>
        BY <1>8, <1>10 DEF StrayOk, Post, sweep, setting, focuser, camera, solver
    <2>3. ~moving' /\ at' = at
        BY <2>1, <2>2
    <2>4. (\A x \in exposing' : x.own => x \in exposing) /\ solving' \subseteq solving
        BY <2>2
    <2>5. /\ ~Has(Moved, "ExposureDone") /\ ~Has(Moved, "ExposureBestDone")
          /\ ~Has(Moved, "FindStarsDone") /\ Moved \in Seq(Names) /\ Clean(Moved) /\ Whole(Moved)
        BY Posts, PostsFit, PostsHave
    <2> QED BY <1>7, <1>8, <2>1, <2>2, <2>3, <2>4, <2>5, PostKeepsOwn
<1>11. CASE FrameResetDone
    BY <1>7, <1>8, <1>11, Posts, PostsFit, PostsHave, PostKeepsOwn
       DEF FrameResetDone, Post, sweep, setting, focuser, solver, ghost
<1>12. CASE ExposureEnds
    <2>1. PICK x \in exposing : NewBLOB(x, {})
        BY <1>12 DEF ExposureEnds
    <2>2. /\ x.own /\ image' = {x} /\ exposing' = {} /\ solving' = solving
          /\ queue' = queue \o <<"ExposureDone", "ExposureBestDone">>
        BY <1>8, <2>1 DEF NewBLOB, Post, solver
    <2> QED BY <1>7, <1>8, <1>12, <2>2, FrameKeepsOwn DEF ExposureEnds, sweep, setting, focuser
<1>13. CASE ForeignFrame
    BY <1>13 DEF ForeignFrame
<1>14. CASE SuccessSEP
    <2>1. /\ solving # {} /\ \A x \in solving : x.own
          /\ solving' = {}
          /\ UNCHANGED <<leaf, iteration, bestpos, bestposfit, startpos, image, misplaced, at,
                         goal, moving>>
        BY <1>14 DEF SuccessSEP, Foreign, sweep, setting, focuser
    <2>2. \A x \in exposing' : x.own => x \in exposing
        BY <1>14, CaptureOwn DEF SuccessSEP, StarsFound, NoStars, LoopExposure
    <2>3. \/ queue' = queue \o <<"FindStarsDone">>
          \/ queue' = queue \o <<"abort">>
          \/ queue' = queue
        BY <1>8, <1>14 DEF SuccessSEP, StarsFound, NoStars, Post
    <2>4. CASE queue' = queue
        <3>1. queue' = queue \o <<>>
            BY <2>4 DEF Types
        <3> QED BY <1>7, <1>8, <2>1, <2>2, <3>1, PostsHave, PostKeepsOwn
    <2>5. CASE queue' = queue \o <<"abort">>
        BY <1>7, <1>8, <2>1, <2>2, <2>5, Posts, PostsFit, PostsHave, PostKeepsOwn
    <2>6. CASE queue' = queue \o <<"FindStarsDone">>
        BY <1>7, <1>8, <2>1, <2>2, <2>6, StarsKeepOwn
    <2> QED BY <2>3, <2>4, <2>5, <2>6
<1> QED BY <1>9, <1>10, <1>11, <1>12, <1>13, <1>14 DEF Devices

(* "focusdone" is said of a run whose last frame is the one of the spot.     *)
LEMMA DoneStays == Types /\ Books /\ Own /\ DoneIsFocused /\ [Next]_vars => DoneIsFocused'
<1> SUFFICES ASSUME Types, Books, Own, DoneIsFocused, [Next]_vars, said' = "focusdone", ~spoiled'
             PROVE  /\ at' = bestposfit' /\ ~moving'
                    /\ image' # {} /\ InPlace(image', bestposfit')
    BY DEF DoneIsFocused, InPlace
<1>1. CASE UNCHANGED vars
    BY <1>1 DEF DoneIsFocused, vars, sweep, focuser, ghost
<1>2. CASE Process
    <2>1. PICK a \in Arrows, i \in DOMAIN queue : Takes(a, i) /\ Enter(a[3], Rest(i))
        BY <1>2, ProcessCases
    <2>2. a[3] = "Final_1" /\ Stops /\ running /\ image' = image
        BY <1>2, <2>1, ProcessCases DEF Enter
    <2>3. leaf = "ComputeResult" /\ a[2] \in Tokens
        BY <2>1, <2>2, ArrowCases DEF Takes, Tokens
    <2>4. TokensFit /\ Whole(queue) /\ ~spoiled
        BY <2>2 DEF Books, Stops
    <2>5. FocuserFits /\ ImageFits
        BY <2>2, <2>4 DEF Own
    <2>6. ~Doomed
        BY <2>1, <2>3, <2>4, RestHas
    <2>7. Settled /\ Spot = bestposfit
        BY <2>3, <2>6 DEF Settled, Spot, Best
    <2>8. ~moving /\ at = bestposfit /\ image # {} /\ InPlace(image, bestposfit)
        BY <2>3, <2>5, <2>7 DEF FocuserFits, ImageFits
    <2> QED BY <2>2, <2>8 DEF Stops, sweep, focuser
<1>3. CASE Commands \/ Devices \/ SuccessSEP
    BY <1>3 DEF Commands, Devices, Autofocus, Loop, Abort, MoveEnds, StrayOk, FrameResetDone,
            ExposureEnds, ForeignFrame, ExposureIsLost, SuccessSEP, StarsFound, NoStars
<1> QED BY <1>1, <1>2, <1>3 DEF Next

-----------------------------------------------------------------------------
(* What the autofocus guarantees                                             *)

(* The inductive invariant of a run of the autofocus *)
FocusInv == Types /\ Books /\ Own

LEMMA InvAtFirst == Init => FocusInv /\ DoneIsFocused
<1> SUFFICES ASSUME Init PROVE FocusInv /\ DoneIsFocused
    OBVIOUS
<1>1. ~running /\ said # "focusdone"
    BY DEF Init
<1> QED BY <1>1, TypesAtFirst DEF FocusInv, Books, Own, DoneIsFocused

LEMMA InvStays == FocusInv /\ [Next]_vars => FocusInv'
BY TypesStay, BooksStay, OwnStays DEF FocusInv

(* The fields have their types (Types); the leaf, the queue, the recorded    *)
(* points and the frames counted agree (Books: the tables that               *)
(* SMAnalyseFinal() and the loop of frames fill); and in a run that is not   *)
(* spoiled the focuser and the frame are where the leaf supposes (Own).      *)
THEOREM InvHolds == Spec => []FocusInv
BY InvAtFirst, InvStays, PTL DEF Spec

(* The position retained is one of this run's sweep: _bestpos               *)
(* (focus.cpp:603) is the place of its first least point, and the vertex of *)
(* the fit (:674) is kept only between the ends of the sweep.               *)
THEOREM BestHolds == Spec => []BestIsOfSweep
<1>1. FocusInv => BestIsOfSweep
    BY BestFromBooks DEF FocusInv
<1> QED BY <1>1, InvHolds, PTL

(* The sweep that is fitted is whole: every point was recorded, each from   *)
(* its own frames, exposed with the focuser at rest where the point stands  *)
(* in the table (focus.cpp:575-615), the first excepted.                    *)
THEOREM SweepHolds == Spec => []SweepIsWhole
<1>1. FocusInv => SweepIsWhole
    <2> SUFFICES ASSUME FocusInv, Measured, ~spoiled
                 PROVE  /\ Len(hfds) = Iterations
                        /\ frames = Iterations * LoopIterations
                        /\ misplaced \subseteq {0}
        BY DEF SweepIsWhole
    <2>1. running /\ leaf \in Final /\ SweepBooks
        BY DEF FocusInv, Measured, Books, CutOff
    <2>2. misplaced \subseteq {0}
        BY <2>1 DEF FocusInv, Own
    <2> QED BY <2>1, <2>2 DEF SweepBooks
<1> QED BY <1>1, InvHolds, PTL

(* "focusdone" (focus.cpp:1190), which the sequencer goes on from, is said  *)
(* of a focuser at rest at the position retained and of a frame exposed     *)
(* there.                                                                   *)
THEOREM FocusedHolds == Spec => []DoneIsFocused
<1>1. FocusInv /\ DoneIsFocused /\ [Next]_vars => DoneIsFocused'
    BY DoneStays DEF FocusInv
<1> QED BY <1>1, InvAtFirst, InvHolds, PTL DEF Spec

=============================================================================
