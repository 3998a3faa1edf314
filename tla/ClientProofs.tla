---------------------------- MODULE ClientProofs ----------------------------
(***************************************************************************)
(* What TLAPS proves of the web client, for any modules, properties,       *)
(* values, limits, logs and numbers of sockets and events, of a page that  *)
(* connects when it is disconnected (~MayOverlap; the last theorem does    *)
(* without).                                                               *)
(*                                                                         *)
(* The page's state is compared with the server's through what is on the   *)
(* way between them.  ConnInv says that one connection lives at a time,    *)
(* Sayings what the messages under way will make the page know, Grants     *)
(* what they say of its grant.  Mirror follows the page's copy through     *)
(* those messages, one by one, to the server's modules; News does so with  *)
(* the length of its log.                                                  *)
(*                                                                         *)
(* The proof that a step keeps these has six cases, which WireSteps tells  *)
(* apart: a new or ended connection, a step that a live page does not hear *)
(* of, a row pushed on the INDI thread, an answer, a message read; and a   *)
(* message of the modules or the logger, which takes what the server holds *)
(* one step further, exactly as it will take the copy.                     *)
(***************************************************************************)
EXTENDS Client, FiniteSetTheorems, SequenceTheorems, TLAPS

-----------------------------------------------------------------------------
(* Sequences                                                                 *)

IsSeq(q) == q \in Seq({q[k] : k \in DOMAIN q})

LEMMA SeqIs ==
    ASSUME NEW q, IsSeq(q)
    PROVE  /\ Len(q) \in Nat /\ DOMAIN q = 1..Len(q)
           /\ q = <<>> <=> Len(q) = 0
           /\ q # <<>> => Len(q) >= 1 /\ Head(q) = q[1]
BY DEF IsSeq

LEMMA FunctionIsSeq ==
    ASSUME NEW n \in Nat, NEW q, q = [k \in 1..n |-> q[k]]
    PROVE  IsSeq(q) /\ Len(q) = n
<1>1. q \in [1..n -> {q[k] : k \in 1..n}] /\ DOMAIN q = 1..n
    OBVIOUS
<1> QED BY <1>1 DEF IsSeq

LEMMA SeqIsFunction ==
    ASSUME NEW S, NEW q \in Seq(S)
    PROVE  IsSeq(q)
<1>1. Len(q) \in Nat /\ q = [k \in 1..Len(q) |-> q[k]]
    OBVIOUS
<1> QED BY <1>1, FunctionIsSeq

LEMMA ConcatIs ==
    ASSUME NEW q, NEW r, IsSeq(q), IsSeq(r)
    PROVE  /\ IsSeq(q \o r)
           /\ Len(q \o r) = Len(q) + Len(r)
           /\ \A k \in 1..Len(q) : (q \o r)[k] = q[k]
           /\ \A k \in 1..Len(r) : (q \o r)[Len(q) + k] = r[k]
<1> DEFINE S == {q[k] : k \in DOMAIN q} \cup {r[k] : k \in DOMAIN r}
<1>1. q \in Seq(S) /\ r \in Seq(S)
    <2>1. q \in [1..Len(q) -> S] /\ r \in [1..Len(r) -> S] /\ Len(q) \in Nat /\ Len(r) \in Nat
        BY SeqIs DEF IsSeq
    <2> QED BY <2>1
<1> HIDE DEF S
<1>2. q \o r \in Seq(S)
    BY <1>1
<1>3. IsSeq(q \o r)
    BY <1>2, SeqIsFunction
<1> QED BY <1>1, <1>3

LEMMA AppendIs ==
    ASSUME NEW q, NEW x, IsSeq(q)
    PROVE  /\ IsSeq(Append(q, x))
           /\ Len(Append(q, x)) = Len(q) + 1
           /\ \A k \in 1..Len(q) : Append(q, x)[k] = q[k]
           /\ Append(q, x)[Len(q) + 1] = x
<1> DEFINE S == {q[k] : k \in DOMAIN q} \cup {x}
<1>1. q \in Seq(S) /\ x \in S
    <2>1. q \in [1..Len(q) -> S] /\ Len(q) \in Nat
        BY SeqIs DEF IsSeq
    <2> QED BY <2>1
<1> HIDE DEF S
<1>2. Append(q, x) \in Seq(S)
    BY <1>1
<1>3. IsSeq(Append(q, x))
    BY <1>2, SeqIsFunction
<1> QED BY <1>1, <1>3

LEMMA TailIs ==
    ASSUME NEW q, IsSeq(q), q # <<>>
    PROVE  /\ IsSeq(Tail(q))
           /\ Len(Tail(q)) = Len(q) - 1
           /\ \A k \in 1..(Len(q) - 1) : Tail(q)[k] = q[k + 1]
<1> DEFINE S == {q[k] : k \in DOMAIN q}
<1>1. q \in Seq(S)
    BY DEF IsSeq
<1> HIDE DEF S
<1>2. Tail(q) \in Seq(S)
    BY <1>1
<1>3. IsSeq(Tail(q))
    BY <1>2, SeqIsFunction
<1> QED BY <1>1, <1>3

LEMMA NothingForOthers ==
    ASSUME NEW m, posted = <<>>
    PROVE  PostedToOthers(m) = <<>>
<1> DEFINE Step(f) == [k \in 0..Len(posted) |->
               IF k = 0 THEN <<>>
               ELSE IF posted[k].m = m THEN f[k - 1] ELSE Append(f[k - 1], posted[k])]
           kept == CHOOSE f : f = Step(f)
<1>1. Len(posted) = 0
    OBVIOUS
<1>2. [k \in {0} |-> <<>>] = Step([k \in {0} |-> <<>>])
    BY <1>1
<1>3. kept = Step(kept)
    BY <1>2
<1>4. kept[0] = <<>>
    <2> HIDE DEF kept
    <2> QED BY <1>1, <1>3
<1> QED BY <1>1, <1>4 DEF PostedToOthers
-----------------------------------------------------------------------------
(* The inductive invariant                                                   *)

ReadyStates == {"unused", "connecting", "open", "closing", "closed"}
Statuses == {"disconnected", "connecting", "connected"}
Logs == {log \in Seq(Int) : Len(log) <= LogLimit}
IsMessage(x) ==
    /\ x.frame.kind = "d" => x.frame.body.logs \in Logs
    /\ x.frame.kind = "l" => x.frame.body \in Int

Types ==
    /\ socket \in 0..MaxSockets /\ events \in Nat
    /\ near \in [Sockets -> ReadyStates] /\ far \subseteq Sockets
    /\ down = [i \in Sockets |-> down[i]] /\ up = [i \in Sockets |-> up[i]]
    /\ \A i \in Sockets :
          IsSeq(down[i]) /\ \A k \in 1..Len(down[i]) : IsMessage(down[i][k])
    /\ history \in Logs /\ logs \in Logs /\ seenLogs = Len(logs)
    /\ status \in Statuses /\ pending \in BOOLEAN
    /\ raced \in BOOLEAN /\ beating \in BOOLEAN
    /\ IsWorld(world) /\ (~raced => IsSeq(posted))

(* One connection at a time: the sockets before this.socket are closed, those *)
(* after it unused, and the status tells how far this one is.                 *)
Line ==
    /\ \A i \in Sockets :
          /\ i < socket => near[i] = "closed"
          /\ i > socket => /\ near[i] = "unused" /\ i \notin far
                           /\ down[i] = <<>> /\ up[i] = <<>>
    /\ socket = 0 => status = "disconnected"
    /\ socket # 0 =>
          /\ near[socket] # "unused"
          /\ near[socket] = "closed" <=> status = "disconnected"
          /\ near[socket] = "open" => status = "connected"
          /\ near[socket] = "connecting" =>
                /\ status = "connecting" /\ up[socket] = <<>>
                /\ \A k \in 1..Len(down[socket]) : down[socket][k].frame.kind # "d"

Wire == down[socket]
IsDump(k) == Wire[k].frame.kind = "d"

(* The page is informed once it has read the k-th message on its way. *)
FollowsAt(k) == IF k = 0 THEN Informed ELSE Wire[k].says # {}
Live == socket # 0 /\ socket \in far /\ Open(socket) /\ FollowsAt(Len(Wire))

Sayings ==
    socket # 0 =>
        \A k \in 1..Len(Wire) :
            /\ IsDump(k) => /\ FollowsAt(k) <=> Wire[k].frame.body.grant # "-1"
                            /\ ~FollowsAt(k) => Wire[k].frame.body.logs = <<>>
            /\ ~IsDump(k) => (FollowsAt(k) <=> FollowsAt(k - 1))
            /\ near[socket] = "connecting" => ~FollowsAt(k)

(* What the last dump under way says of the grant, or what the page knows. *)
LastDump(k) == IsDump(k) /\ \A n \in 1..Len(Wire) : n > k => ~IsDump(n)
Known == socket # 0 /\ far = {socket} /\ Open(socket) /\ grant # ""
Grants ==
    Known =>
        /\ \A k \in 1..Len(Wire) : LastDump(k) => Wire[k].frame.body.grant = grant
        /\ ~pending /\ (\A k \in 1..Len(Wire) : ~IsDump(k)) => session = grant

ConnInv == Types /\ Line /\ NothingOutlives

-----------------------------------------------------------------------------
(* What is sent to a page                                                    *)

LEMMA Heard ==
    ASSUME Types, NEW sent, IsSeq(sent), Broadcast(sent), NEW i \in Sockets
    PROVE  /\ i \notin Reached => down'[i] = down[i]
           /\ i \in Reached =>
                /\ IsSeq(down'[i])
                /\ Len(down'[i]) = Len(down[i]) + Len(sent)
                /\ \A k \in 1..Len(down[i]) : down'[i][k] = down[i][k]
                /\ \A k \in 1..Len(sent) :
                      LET x == down'[i][Len(down[i]) + k]
                      IN  x.frame = sent[k].frame /\ (x.says # {} <=> Follows(i))
<1> DEFINE more == [k \in 1..Len(sent) |->
                       [frame |-> sent[k].frame,
                        says  |-> IF Follows(i) THEN {sent[k].says} ELSE {}]]
<1>1. down'[i] = IF i \in Reached THEN down[i] \o more ELSE down[i]
    BY DEF Broadcast
<1>2. Len(sent) \in Nat /\ more = [k \in 1..Len(sent) |-> more[k]]
    BY SeqIs
<1>3. \A k \in 1..Len(sent) : more[k].frame = sent[k].frame
                           /\ (more[k].says # {} <=> Follows(i))
    OBVIOUS
<1> HIDE DEF more
<1>4. IsSeq(more) /\ Len(more) = Len(sent)
    BY <1>2, FunctionIsSeq
<1>5. IsSeq(down[i])
    BY DEF Types
<1>6. ASSUME i \in Reached
      PROVE  /\ IsSeq(down'[i])
             /\ Len(down'[i]) = Len(down[i]) + Len(sent)
             /\ \A k \in 1..Len(down[i]) : down'[i][k] = down[i][k]
             /\ \A k \in 1..Len(sent) : down'[i][Len(down[i]) + k] = more[k]
    <2>1. down'[i] = down[i] \o more
        BY <1>1, <1>6
    <2>2. /\ IsSeq(down[i] \o more)
          /\ Len(down[i] \o more) = Len(down[i]) + Len(more)
          /\ \A k \in 1..Len(down[i]) : (down[i] \o more)[k] = down[i][k]
          /\ \A k \in 1..Len(more) : (down[i] \o more)[Len(down[i]) + k] = more[k]
        BY <1>4, <1>5, ConcatIs
    <2> QED BY <1>4, <2>1, <2>2
<1> QED BY <1>1, <1>3, <1>6

LEMMA HeardShape ==
    ASSUME Types, NEW sent, Broadcast(sent)
    PROVE  down' = [i \in Sockets |-> down'[i]]
BY DEF Broadcast
-----------------------------------------------------------------------------
(* The operators on worlds and rows                                          *)

LEMMA PutTwice ==
    ASSUME NEW f, NEW x, NEW v, NEW u
    PROVE  Put(Put(f, x, u), x, v) = Put(f, x, v)
BY DEF Put

LEMMA PropOfSet ==
    ASSUME NEW s, NEW m, NEW p, NEW prop
    PROVE  PropIn(SetProp(s, m, p, prop), m, p) = prop
<1>1. /\ m \in DOMAIN SetProp(s, m, p, prop)
      /\ SetProp(s, m, p, prop)[m] = Put(ModuleIn(s, m), p, prop)
    BY DEF SetProp, Put
<1>2. ModuleIn(SetProp(s, m, p, prop), m) = Put(ModuleIn(s, m), p, prop)
    BY <1>1 DEF ModuleIn
<1>3. /\ p \in DOMAIN Put(ModuleIn(s, m), p, prop)
      /\ Put(ModuleIn(s, m), p, prop)[p] = prop
    BY DEF Put
<1> QED BY <1>1, <1>2, <1>3 DEF PropIn

LEMMA SetTwice ==
    ASSUME NEW s, NEW m, NEW p, NEW prop, NEW old
    PROVE  SetProp(SetProp(s, m, p, old), m, p, prop) = SetProp(s, m, p, prop)
<1>1. /\ m \in DOMAIN SetProp(s, m, p, old)
      /\ SetProp(s, m, p, old)[m] = Put(ModuleIn(s, m), p, old)
    BY DEF SetProp, Put
<1>2. ModuleIn(SetProp(s, m, p, old), m) = Put(ModuleIn(s, m), p, old)
    BY <1>1 DEF ModuleIn
<1>3. Put(ModuleIn(SetProp(s, m, p, old), m), p, prop) = Put(ModuleIn(s, m), p, prop)
    BY <1>2, PutTwice
<1> QED BY <1>3, PutTwice DEF SetProp

LEMMA PropOfWorld ==
    ASSUME NEW m, NEW p, Has(m, p)
    PROVE  PropIn(world, m, p) = world[m][p]
BY DEF Has, PropIn, ModuleIn

LEMMA PropIsTyped ==
    ASSUME IsWorld(world), NEW m, NEW p, Has(m, p)
    PROVE  /\ world[m][p] \in Properties
           /\ world[m][p].val \in Values /\ world[m][p].rows \in Seq(Values)
<1>1. world[m][p] \in Properties
    BY DEF Has, IsWorld, IsModule
<1> QED BY <1>1 DEF Properties

LEMMA PutInModule ==
    ASSUME NEW mod, IsModule(mod), NEW p \in Props, NEW prop \in Properties
    PROVE  IsModule(Put(mod, p, prop))
BY DEF IsModule, Put

LEMMA PutInWorld ==
    ASSUME NEW w, IsWorld(w), NEW m \in Modules, NEW mod, IsModule(mod)
    PROVE  IsWorld(Put(w, m, mod))
<1>1. /\ DOMAIN Put(w, m, mod) = DOMAIN w \cup {m}
      /\ Put(w, m, mod) = [y \in DOMAIN w \cup {m} |-> Put(w, m, mod)[y]]
      /\ Put(w, m, mod)[m] = mod
      /\ \A y \in DOMAIN w : y # m => Put(w, m, mod)[y] = w[y]
    BY DEF Put
<1> HIDE DEF Put
<1>2. \A n \in DOMAIN Put(w, m, mod) : IsModule(Put(w, m, mod)[n])
    BY <1>1 DEF IsWorld
<1> QED BY <1>1, <1>2 DEF IsWorld

LEMMA NothingIsModule == IsModule(Nothing)
BY DEF IsModule, Nothing

LEMMA SetInWorld ==
    ASSUME NEW w, IsWorld(w), NEW m \in Modules, NEW p \in Props, NEW prop \in Properties
    PROVE  IsWorld(SetProp(w, m, p, prop))
<1>1. IsModule(ModuleIn(w, m))
    BY NothingIsModule DEF ModuleIn, IsWorld
<1>2. IsModule(Put(ModuleIn(w, m), p, prop))
    BY <1>1, PutInModule
<1> QED BY <1>2, PutInWorld DEF SetProp

LEMMA WithoutInModule ==
    ASSUME NEW mod, IsModule(mod), NEW p
    PROVE  IsModule(Without(mod, p))
BY DEF IsModule, Without

LEMMA WithoutInWorld ==
    ASSUME NEW w, IsWorld(w), NEW m
    PROVE  IsWorld(Without(w, m))
BY DEF IsWorld, Without

LEMMA ReplacedInWorld ==
    ASSUME NEW w, IsWorld(w), NEW m \in DOMAIN w, NEW mod, IsModule(mod)
    PROVE  IsWorld([w EXCEPT ![m] = mod])
BY DEF IsWorld

(* What a page does to its copy for a message of each kind *)
LEMMA ApplyDumpIs ==
    ASSUME NEW s, NEW m, NEW p, NEW i, NEW b
    PROVE  Apply(s, Frame("d", m, p, i, b)) =
               b.modules
BY DEF Apply, Frame

LEMMA ApplyAnnounceAllIs ==
    ASSUME NEW s, NEW m, NEW p, NEW i, NEW b
    PROVE  Apply(s, Frame("aa", m, p, i, b)) =
               Put(s, m, b)
BY DEF Apply, Frame

LEMMA ApplyGoneIs ==
    ASSUME NEW s, NEW m, NEW p, NEW i, NEW b
    PROVE  Apply(s, Frame("dm", m, p, i, b)) =
               Without(s, m)
BY DEF Apply, Frame

LEMMA ApplyAddPropIs ==
    ASSUME NEW s, NEW m, NEW p, NEW i, NEW b
    PROVE  Apply(s, Frame("ap", m, p, i, b)) =
               SetProp(s, m, p, b)
BY DEF Apply, Frame

LEMMA ApplyDelPropIs ==
    ASSUME NEW s, NEW m, NEW p, NEW i, NEW b, m \in DOMAIN s
    PROVE  Apply(s, Frame("dp", m, p, i, b)) =
               [s EXCEPT ![m] = Without(@, p)]
<1> DEFINE f == Frame("dp", m, p, i, b)
<1>1. f.kind = "dp" /\ f.m = m /\ f.p = p /\ f.i = i /\ f.body = b
    BY DEF Frame
<1> HIDE DEF f
<1>2. Apply(s, f) = ApplyPropertyDeleted(s, f)
    BY <1>1 DEF Apply
<1> QED BY <1>1, <1>2 DEF ApplyPropertyDeleted, f

LEMMA ApplyValuesIs ==
    ASSUME NEW s, NEW m, NEW p, NEW i, NEW b
    PROVE  Apply(s, Frame("ea", m, p, i, b)) =
               SetProp(s, m, p, [PropIn(s, m, p) EXCEPT !.val = b])
<1> DEFINE f == Frame("ea", m, p, i, b)
<1>1. f.kind = "ea" /\ f.m = m /\ f.p = p /\ f.i = i /\ f.body = b
    BY DEF Frame
<1> HIDE DEF f
<1>2. Apply(s, f) = ApplyElementValues(s, f)
    BY <1>1 DEF Apply
<1> QED BY <1>1, <1>2 DEF ApplyElementValues, f

LEMMA ApplyCreateIs ==
    ASSUME NEW s, NEW m, NEW p, NEW i, NEW b
    PROVE  Apply(s, Frame("gc", m, p, i, b)) =
               SetProp(s, m, p, [PropIn(s, m, p) EXCEPT !.rows = InsertRow(@, i, b)])
<1> DEFINE f == Frame("gc", m, p, i, b)
<1>1. f.kind = "gc" /\ f.m = m /\ f.p = p /\ f.i = i /\ f.body = b
    BY DEF Frame
<1> HIDE DEF f
<1>2. Apply(s, f) = ApplyGridCreate(s, f)
    BY <1>1 DEF Apply
<1> QED BY <1>1, <1>2 DEF ApplyGridCreate, f

LEMMA ApplyUpdateIs ==
    ASSUME NEW s, NEW m, NEW p, NEW i, NEW b, i <= Len(PropIn(s, m, p).rows)
    PROVE  Apply(s, Frame("gu", m, p, i, b)) =
               SetProp(s, m, p, [PropIn(s, m, p) EXCEPT !.rows = [@ EXCEPT ![i] = b]])
<1> DEFINE f == Frame("gu", m, p, i, b)
<1>1. f.kind = "gu" /\ f.m = m /\ f.p = p /\ f.i = i /\ f.body = b
    BY DEF Frame
<1> HIDE DEF f
<1>2. Apply(s, f) = ApplyGridUpdate(s, f)
    BY <1>1 DEF Apply
<1> QED BY <1>1, <1>2 DEF ApplyGridUpdate, f

LEMMA ApplyDeleteIs ==
    ASSUME NEW s, NEW m, NEW p, NEW i, NEW b
    PROVE  Apply(s, Frame("gd", m, p, i, b)) =
               SetProp(s, m, p, [PropIn(s, m, p) EXCEPT !.rows = RemoveRow(@, i)])
<1> DEFINE f == Frame("gd", m, p, i, b)
<1>1. f.kind = "gd" /\ f.m = m /\ f.p = p /\ f.i = i /\ f.body = b
    BY DEF Frame
<1> HIDE DEF f
<1>2. Apply(s, f) = ApplyGridDelete(s, f)
    BY <1>1 DEF Apply
<1> QED BY <1>1, <1>2 DEF ApplyGridDelete, f

LEMMA ApplyResetIs ==
    ASSUME NEW s, NEW m, NEW p, NEW i, NEW b
    PROVE  Apply(s, Frame("gr", m, p, i, b)) =
               SetProp(s, m, p, [PropIn(s, m, p) EXCEPT !.rows = <<>>])
<1> DEFINE f == Frame("gr", m, p, i, b)
<1>1. f.kind = "gr" /\ f.m = m /\ f.p = p /\ f.i = i /\ f.body = b
    BY DEF Frame
<1> HIDE DEF f
<1>2. Apply(s, f) = ApplyGridReset(s, f)
    BY <1>1 DEF Apply
<1> QED BY <1>1, <1>2 DEF ApplyGridReset, f

(* A new row goes to the end, and the first one out is the tail. *)
LEMMA RowsAre ==
    ASSUME NEW S, NEW rows \in Seq(S), NEW v \in S
    PROVE  /\ InsertRow(rows, Len(rows) + 1, v) = Append(rows, v)
           /\ rows # <<>> => RemoveRow(rows, 1) = Tail(rows)
<1>1. InsertRow(rows, Len(rows) + 1, v) = Append(rows, v)
    <2>1. InsertRow(rows, Len(rows) + 1, v)
            = [j \in 1..(Len(rows) + 1) |-> IF j < Len(rows) + 1 THEN rows[j] ELSE v]
        BY DEF InsertRow
    <2> QED BY <2>1
<1>2. rows # <<>> => RemoveRow(rows, 1) = Tail(rows)
    <2> SUFFICES ASSUME rows # <<>> PROVE RemoveRow(rows, 1) = Tail(rows)
        OBVIOUS
    <2>1. RemoveRow(rows, 1) = [j \in 1..(Len(rows) - 1) |-> rows[j + 1]]
        BY DEF RemoveRow
    <2> QED BY <2>1
<1> QED BY <1>1, <1>2

LEMMA RemovedIs ==
    ASSUME NEW S, NEW rows \in Seq(S), NEW i \in DOMAIN rows
    PROVE  RemoveRow(rows, i) \in Seq(S)
<1>1. i \in 1..Len(rows) /\ Len(rows) \in Nat
    OBVIOUS
<1>2. RemoveRow(rows, i) \in [1..(Len(rows) - 1) -> S]
    BY <1>1 DEF RemoveRow
<1>3. Len(rows) - 1 \in Nat
    BY <1>1
<1> QED BY <1>2, <1>3

LEMMA PropUpdates ==
    ASSUME NEW prop \in Properties
    PROVE  /\ \A v \in Values : [prop EXCEPT !.val = v] \in Properties
           /\ \A rows \in Seq(Values) : [prop EXCEPT !.rows = rows] \in Properties
BY DEF Properties
-----------------------------------------------------------------------------
(* What the modules broadcast, said of any page: each message takes the copy *)
(* one step further, from what the server held to what it holds              *)

Proper(sent) ==
    IsSeq(sent) /\ \A k \in 1..Len(sent) : sent[k].frame.kind \notin {"d", "l"}
Truthful(from, sent, to) ==
    \E c : /\ c[0] = from /\ c[Len(sent)] = to
           /\ \A k \in 1..Len(sent) : c[k] = Apply(c[k - 1], sent[k].frame)
Announcement(w, sent) ==
    /\ Announces(w, sent) /\ IsWorld(w)
    /\ Proper(sent) /\ Truthful(world, sent, w)
    /\ posted = <<>> => posted' = <<>>

LEMMA OneFrame ==
    ASSUME NEW from, NEW f, f.kind \notin {"d", "l"}
    PROVE  LET w == Apply(from, f) sent == <<Sent(f, w)>>
           IN  Proper(sent) /\ Truthful(from, sent, w)
<1> DEFINE w == Apply(from, f)
           sent == <<Sent(f, w)>>
           c == [k \in 0..1 |-> IF k = 0 THEN from ELSE w]
<1>1. Len(sent) = 1 /\ sent[1].frame = f /\ sent = [k \in 1..1 |-> sent[k]]
    BY DEF Sent
<1>2. c[0] = from /\ c[1] = w
    OBVIOUS
<1>3. w = Apply(from, f)
    OBVIOUS
<1> HIDE DEF sent, c, w
<1>4. IsSeq(sent)
    BY <1>1, FunctionIsSeq
<1>5. \A k \in 1..Len(sent) : k = 1
    BY <1>1
<1>6. Proper(sent)
    BY <1>1, <1>4, <1>5 DEF Proper
<1>7. \A k \in 1..Len(sent) : c[k] = Apply(c[k - 1], sent[k].frame)
    BY <1>1, <1>2, <1>3
<1>8. Truthful(from, sent, w)
    BY <1>1, <1>2, <1>7 DEF Truthful
<1> QED BY <1>6, <1>8 DEF sent, w

LEMMA TwoFrames ==
    ASSUME NEW from, NEW f, f.kind \notin {"d", "l"}, NEW g, g.kind \notin {"d", "l"}
    PROVE  LET w == Apply(from, f) u == Apply(w, g) sent == <<Sent(f, w), Sent(g, u)>>
           IN  Proper(sent) /\ Truthful(from, sent, u)
<1> DEFINE w == Apply(from, f)
           u == Apply(w, g)
           sent == <<Sent(f, w), Sent(g, u)>>
           c == [k \in 0..2 |-> IF k = 0 THEN from ELSE IF k = 1 THEN w ELSE u]
<1>1. /\ Len(sent) = 2 /\ sent[1].frame = f /\ sent[2].frame = g
      /\ sent = [k \in 1..2 |-> sent[k]]
    BY DEF Sent
<1>2. c[0] = from /\ c[1] = w /\ c[2] = u
    OBVIOUS
<1>3. w = Apply(from, f) /\ u = Apply(w, g)
    OBVIOUS
<1> HIDE DEF sent, c, w, u
<1>4. IsSeq(sent)
    BY <1>1, FunctionIsSeq
<1>5. \A k \in 1..Len(sent) : k = 1 \/ k = 2
    BY <1>1
<1>6. Proper(sent)
    BY <1>1, <1>4, <1>5 DEF Proper
<1>7. \A k \in 1..Len(sent) : c[k] = Apply(c[k - 1], sent[k].frame)
    BY <1>1, <1>2, <1>3, <1>5
<1>8. Truthful(from, sent, u)
    BY <1>1, <1>2, <1>7 DEF Truthful
<1> QED BY <1>6, <1>8 DEF sent, w, u

LEMMA ThreeFrames ==
    ASSUME NEW from, NEW f, f.kind \notin {"d", "l"}, NEW g, g.kind \notin {"d", "l"},
           NEW h, h.kind \notin {"d", "l"}
    PROVE  LET w == Apply(from, f) u == Apply(w, g) v == Apply(u, h)
               sent == <<Sent(f, w), Sent(g, u), Sent(h, v)>>
           IN  Proper(sent) /\ Truthful(from, sent, v)
<1> DEFINE w == Apply(from, f)
           u == Apply(w, g)
           v == Apply(u, h)
           sent == <<Sent(f, w), Sent(g, u), Sent(h, v)>>
           c == [k \in 0..3 |-> IF k = 0 THEN from
                                ELSE IF k = 1 THEN w ELSE IF k = 2 THEN u ELSE v]
<1>1. /\ Len(sent) = 3 /\ sent[1].frame = f /\ sent[2].frame = g /\ sent[3].frame = h
      /\ sent = [k \in 1..3 |-> sent[k]]
    BY DEF Sent
<1>2. c[0] = from /\ c[1] = w /\ c[2] = u /\ c[3] = v
    OBVIOUS
<1>3. w = Apply(from, f) /\ u = Apply(w, g) /\ v = Apply(u, h)
    OBVIOUS
<1> HIDE DEF sent, c, w, u, v
<1>4. IsSeq(sent)
    BY <1>1, FunctionIsSeq
<1>5. \A k \in 1..Len(sent) : k = 1 \/ k = 2 \/ k = 3
    BY <1>1
<1>6. Proper(sent)
    BY <1>1, <1>4, <1>5 DEF Proper
<1>7. \A k \in 1..Len(sent) : c[k] = Apply(c[k - 1], sent[k].frame)
    BY <1>1, <1>2, <1>3, <1>5
<1>8. Truthful(from, sent, v)
    BY <1>1, <1>2, <1>7 DEF Truthful
<1> QED BY <1>6, <1>8 DEF sent, w, u, v

LEMMA KindIs == \A kind, m, p, i, b : Frame(kind, m, p, i, b).kind = kind
BY DEF Frame

(* One message about one property, which sets it to what the server holds *)
LEMMA PropAnnounced ==
    ASSUME IsWorld(world), NEW kind, kind \notin {"d", "l"},
           NEW m \in Modules, NEW p \in Props, NEW i, NEW b, NEW prop \in Properties,
           Apply(world, Frame(kind, m, p, i, b)) = SetProp(world, m, p, prop),
           AnnouncesProp(kind, m, p, i, b, prop)
    PROVE  \E w, sent : Announcement(w, sent)
<1> DEFINE f == Frame(kind, m, p, i, b)
           w == SetProp(world, m, p, prop)
<1>1. Announces(w, <<Sent(f, w)>>) /\ posted' = posted
    BY DEF AnnouncesProp
<1>2. f.kind \notin {"d", "l"} /\ w = Apply(world, f)
    BY KindIs
<1>3. IsWorld(w)
    BY SetInWorld
<1> HIDE DEF f, w
<1>4. Proper(<<Sent(f, w)>>) /\ Truthful(world, <<Sent(f, w)>>, w)
    BY <1>2, OneFrame
<1> QED BY <1>1, <1>3, <1>4 DEF Announcement

LEMMA SendPropertyAnnounces ==
    ASSUME IsWorld(world), NEW m \in Modules, NEW p \in Props, NEW prop \in Contents,
           SendProperty(m, p, prop)
    PROVE  \E w, sent : Announcement(w, sent)
<1>1. prop \in Properties
    <2>1. PICK v \in Values : prop \in {[val |-> v, rows |-> <<>>], [val |-> v, rows |-> <<v>>]}
        BY DEF Contents
    <2>2. <<>> \in Seq(Values) /\ <<v>> \in Seq(Values)
        BY <2>1
    <2>3. \A rows \in Seq(Values) : [val |-> v, rows |-> rows] \in Properties
        BY <2>1 DEF Properties
    <2> QED BY <2>1, <2>2, <2>3
<1>2. AnnouncesProp("ap", m, p, 0, prop, prop)
    BY DEF SendProperty
<1>3. Apply(world, Frame("ap", m, p, 0, prop)) = SetProp(world, m, p, prop)
    BY ApplyAddPropIs
<1> QED BY <1>1, <1>2, <1>3, PropAnnounced

LEMMA SetValueAnnounces ==
    ASSUME IsWorld(world), NEW m \in Modules, NEW p \in Props, NEW v \in Values,
           SetValue(m, p, v)
    PROVE  \E w, sent : Announcement(w, sent)
<1> DEFINE prop == [world[m][p] EXCEPT !.val = v]
<1>1. Has(m, p) /\ AnnouncesProp("ea", m, p, 0, v, prop)
    BY DEF SetValue
<1>2. prop \in Properties
    BY <1>1, PropIsTyped, PropUpdates
<1>3. Apply(world, Frame("ea", m, p, 0, v)) = SetProp(world, m, p, prop)
    BY <1>1, ApplyValuesIs, PropOfWorld
<1> HIDE DEF prop
<1> QED BY <1>1, <1>2, <1>3, PropAnnounced

LEMMA DeleteLineAnnounces ==
    ASSUME IsWorld(world), NEW m \in Modules, NEW p \in Props, NEW i, DeleteLine(m, p, i)
    PROVE  \E w, sent : Announcement(w, sent)
<1> DEFINE prop == [world[m][p] EXCEPT !.rows = RemoveRow(@, i)]
<1>1. /\ Has(m, p) /\ i \in DOMAIN world[m][p].rows
      /\ AnnouncesProp("gd", m, p, i, {}, prop)
    BY DEF DeleteLine
<1>2. RemoveRow(world[m][p].rows, i) \in Seq(Values)
    <2>1. world[m][p].rows \in Seq(Values)
        BY <1>1, PropIsTyped
    <2> QED BY <1>1, <2>1, RemovedIs
<1>3. prop \in Properties
    BY <1>1, <1>2, PropIsTyped, PropUpdates
<1>4. Apply(world, Frame("gd", m, p, i, {})) = SetProp(world, m, p, prop)
    BY <1>1, ApplyDeleteIs, PropOfWorld
<1> HIDE DEF prop
<1> QED BY <1>1, <1>3, <1>4, PropAnnounced

LEMMA ClearGridAnnounces ==
    ASSUME IsWorld(world), NEW m \in Modules, NEW p \in Props, ClearGrid(m, p)
    PROVE  \E w, sent : Announcement(w, sent)
<1> DEFINE prop == [world[m][p] EXCEPT !.rows = <<>>]
<1>1. Has(m, p) /\ AnnouncesProp("gr", m, p, 0, {}, prop)
    BY DEF ClearGrid
<1>2. prop \in Properties
    <2>1. <<>> \in Seq(Values)
        OBVIOUS
    <2> QED BY <1>1, <2>1, PropIsTyped, PropUpdates
<1>3. Apply(world, Frame("gr", m, p, 0, {})) = SetProp(world, m, p, prop)
    BY <1>1, ApplyResetIs, PropOfWorld
<1> HIDE DEF prop
<1> QED BY <1>1, <1>2, <1>3, PropAnnounced

LEMMA SwapLinesAnnounces ==
    ASSUME IsWorld(world), NEW m \in Modules, NEW p \in Props, NEW i, NEW j,
           SwapLines(m, p, i, j)
    PROVE  \E w, sent : Announcement(w, sent)
<1> DEFINE rows == world[m][p].rows
           swapped == [rows EXCEPT ![i] = rows[j], ![j] = rows[i]]
           prop == [world[m][p] EXCEPT !.rows = swapped]
<1>1. /\ Has(m, p) /\ i \in DOMAIN rows /\ j \in DOMAIN rows
      /\ AnnouncesProp("ap", m, p, 0, prop, prop)
    BY DEF SwapLines
<1>2. rows \in Seq(Values)
    BY <1>1, PropIsTyped
<1>3. swapped \in Seq(Values)
    <2> HIDE DEF rows
    <2>1. Len(rows) \in Nat /\ rows \in [1..Len(rows) -> Values] /\ DOMAIN rows = 1..Len(rows)
        BY <1>2
    <2>2. swapped \in [1..Len(rows) -> Values]
        BY <1>1, <2>1
    <2>3. \A n \in Nat : [1..n -> Values] \subseteq Seq(Values)
        OBVIOUS
    <2> QED BY <2>1, <2>2, <2>3
<1>4. prop \in Properties
    <2> HIDE DEF swapped
    <2> QED BY <1>1, <1>3, PropIsTyped, PropUpdates
<1>5. Apply(world, Frame("ap", m, p, 0, prop)) = SetProp(world, m, p, prop)
    BY ApplyAddPropIs
<1> HIDE DEF prop
<1> QED BY <1>1, <1>4, <1>5, PropAnnounced
LEMMA DeletePropertyAnnounces ==
    ASSUME IsWorld(world), NEW m \in Modules, NEW p \in Props, DeleteProperty(m, p)
    PROVE  \E w, sent : Announcement(w, sent)
<1> DEFINE f == Frame("dp", m, p, 0, {})
           w == [world EXCEPT ![m] = Without(@, p)]
<1>1. m \in DOMAIN world /\ Announces(w, <<Sent(f, w)>>) /\ posted' = posted
    BY DEF DeleteProperty, Has
<1>2. f.kind \notin {"d", "l"} /\ w = Apply(world, f)
    BY <1>1, KindIs, ApplyDelPropIs
<1>3. IsWorld(w)
    <2>1. IsModule(world[m])
        BY <1>1 DEF IsWorld
    <2> QED BY <1>1, <2>1, WithoutInModule, ReplacedInWorld
<1> HIDE DEF f, w
<1>4. Proper(<<Sent(f, w)>>) /\ Truthful(world, <<Sent(f, w)>>, w)
    BY <1>2, OneFrame
<1> QED BY <1>1, <1>3, <1>4 DEF Announcement

LEMMA LoadModuleAnnounces ==
    ASSUME IsWorld(world), NEW m \in Modules, NEW v \in Values, NEW early \in SUBSET Props,
           LoadModule(m, v, early)
    PROVE  \E w, sent : Announcement(w, sent)
<1> DEFINE mod == [p \in Props |-> [val |-> v, rows |-> <<>>]]
           whole == Put(world, m, mod)
           aa == Frame("aa", m, "", 0, mod)
<1>1. m \notin DOMAIN world /\ posted' = posted
    BY DEF LoadModule
<1>2. IsModule(mod)
    <2>1. <<>> \in Seq(Values)
        OBVIOUS
    <2> QED BY <2>1 DEF IsModule, Properties
<1>3. IsWorld(whole)
    BY <1>2, PutInWorld
<1>4. aa.kind \notin {"d", "l"}
    <2> HIDE DEF mod
    <2> QED BY DEF Frame
<1>5. CASE Announces(whole, <<Sent(aa, whole)>>)
    <2>1. whole = Apply(world, aa)
        BY ApplyAnnounceAllIs
    <2> HIDE DEF aa, whole, mod
    <2>2. Proper(<<Sent(aa, whole)>>) /\ Truthful(world, <<Sent(aa, whole)>>, whole)
        BY <1>4, <2>1, OneFrame
    <2> QED BY <1>1, <1>3, <1>5, <2>2 DEF Announcement
<1>6. ASSUME NEW p \in early,
             Announces(whole, <<Sent(Frame("ea", m, p, 0, v),
                                     SetProp(world, m, p, [Bare EXCEPT !.val = v])),
                                Sent(aa, whole)>>)
      PROVE  \E w, sent : Announcement(w, sent)
    <2> DEFINE ea == Frame("ea", m, p, 0, v)
               first == SetProp(world, m, p, [Bare EXCEPT !.val = v])
    <2>1. PropIn(world, m, p) = Bare
        BY <1>1 DEF PropIn, ModuleIn, Nothing
    <2>2. first = Apply(world, ea)
        BY <2>1, ApplyValuesIs
    <2>3. whole = Apply(first, aa)
        <3>1. Apply(first, aa) = Put(first, m, mod)
            BY ApplyAnnounceAllIs
        <3>2. first = Put(world, m, Put(ModuleIn(world, m), p, [Bare EXCEPT !.val = v]))
            BY DEF SetProp
        <3> DEFINE u == Put(ModuleIn(world, m), p, [Bare EXCEPT !.val = v])
        <3>3. Put(Put(world, m, u), m, mod) = whole
            <4> HIDE DEF u, mod
            <4> QED BY PutTwice
        <3> HIDE DEF mod, aa, whole, first
        <3> QED BY <3>1, <3>2, <3>3
    <2>4. ea.kind \notin {"d", "l"}
        BY KindIs
    <2> HIDE DEF aa, whole, mod, ea, first
    <2>5. LET sent == <<Sent(ea, first), Sent(aa, whole)>>
          IN  Proper(sent) /\ Truthful(world, sent, whole)
        BY <1>4, <2>2, <2>3, <2>4, TwoFrames
    <2>6. Announces(whole, <<Sent(ea, first), Sent(aa, whole)>>)
        BY <1>6 DEF ea, first
    <2> QED BY <1>1, <1>3, <2>5, <2>6 DEF Announcement
<1> QED BY <1>5, <1>6 DEF LoadModule

LEMMA UpdateLineAnnounces ==
    ASSUME IsWorld(world), NEW m \in Modules, NEW p \in Props, NEW i, NEW v \in Values,
           UpdateLine(m, p, i, v)
    PROVE  \E w, sent : Announcement(w, sent)
<1> DEFINE set == [world[m][p] EXCEPT !.val = v]
           new == [set EXCEPT !.rows[i] = v]
           first == SetProp(world, m, p, set)
           w == SetProp(world, m, p, new)
           ea == Frame("ea", m, p, 0, v)
           gu == Frame("gu", m, p, i, v)
<1>1. /\ Has(m, p) /\ i \in DOMAIN world[m][p].rows /\ posted' = posted
      /\ Announces(w, <<Sent(ea, first), Sent(gu, w)>>)
    BY DEF UpdateLine
<1>2. world[m][p] \in Properties /\ world[m][p].rows \in Seq(Values)
    BY <1>1, PropIsTyped
<1>3. set.rows = world[m][p].rows /\ set \in Properties
    BY <1>2 DEF Properties
<1>4. i <= Len(set.rows)
    BY <1>1, <1>2, <1>3
<1>5. new = [set EXCEPT !.rows = [@ EXCEPT ![i] = v]]
    OBVIOUS
<1>6. new \in Properties
    <2> HIDE DEF set
    <2>1. [set.rows EXCEPT ![i] = v] \in Seq(Values)
        BY <1>1, <1>2, <1>3, ExceptSeq
    <2> QED BY <1>3, <2>1, PropUpdates
<1>7. IsWorld(w)
    BY <1>6, SetInWorld
<1>8. ea.kind \notin {"d", "l"} /\ gu.kind \notin {"d", "l"}
    BY KindIs
<1>9. first = Apply(world, ea)
    BY <1>1, PropOfWorld, ApplyValuesIs
<1>10. w = Apply(first, gu)
    <2> HIDE DEF set
    <2>1. PropIn(first, m, p) = set
        BY PropOfSet
    <2>2. Apply(first, gu) = SetProp(first, m, p, [set EXCEPT !.rows = [@ EXCEPT ![i] = v]])
        BY <1>4, <2>1, ApplyUpdateIs
    <2> QED BY <1>5, <2>2, SetTwice
<1> HIDE DEF first, w, ea, gu
<1>11. LET sent == <<Sent(ea, first), Sent(gu, w)>>
       IN  Proper(sent) /\ Truthful(world, sent, w)
    BY <1>8, <1>9, <1>10, TwoFrames
<1> QED BY <1>1, <1>7, <1>11 DEF Announcement
LEMMA ExceptSame ==
    ASSUME NEW f, f = [x \in DOMAIN f |-> f[x]], NEW y \in DOMAIN f
    PROVE  [f EXCEPT ![y] = f[y]] = f
<1>1. [f EXCEPT ![y] = f[y]] = [x \in DOMAIN f |-> f[x]]
    OBVIOUS
<1> QED BY <1>1

LEMMA NewLineAnnounces ==
    ASSUME IsWorld(world), NEW m \in Modules, NEW p \in Props, NEW v \in Values,
           NewLine(m, p, v)
    PROVE  \E w, sent : Announcement(w, sent)
<1> DEFINE old == world[m][p]
           set == [old EXCEPT !.val = v]
           cut == [set EXCEPT !.rows = Tail(@)]
           grown == [set EXCEPT !.rows = Append(@, v)]
           over == [cut EXCEPT !.rows = Append(@, v)]
           W(prop) == SetProp(world, m, p, prop)
           ea == Frame("ea", m, p, 0, v)
           n == Len(old.rows)
           gd == Frame("gd", m, p, 1, {})
           gc == Frame("gc", m, p, n, v)
           more == Frame("gc", m, p, n + 1, v)
<1>1. /\ Has(m, p) /\ posted' = posted
      /\ IF GridLimit > 0 /\ n + 1 > GridLimit
         THEN Announces(W(over), <<Sent(ea, W(set)), Sent(gd, W(cut)), Sent(gc, W(over))>>)
         ELSE Announces(W(grown), <<Sent(ea, W(set)), Sent(more, W(grown))>>)
    BY DEF NewLine
<1>2. old \in Properties /\ old.rows \in Seq(Values) /\ n \in Nat
    BY <1>1, PropIsTyped
<1>3. set.rows = old.rows /\ set \in Properties
    BY <1>2 DEF Properties
<1>4. ea.kind \notin {"d", "l"} /\ gd.kind \notin {"d", "l"} /\ gc.kind \notin {"d", "l"}
      /\ more.kind \notin {"d", "l"}
    BY KindIs
<1>5. W(set) = Apply(world, ea)
    BY <1>1, PropOfWorld, ApplyValuesIs
<1>6. PropIn(W(set), m, p) = set
    BY PropOfSet
<1>7. CASE GridLimit > 0 /\ n + 1 > GridLimit
    <2>1. old.rows # <<>>
        <3>1. GridLimit >= 1
            BY <1>7, ClientAssumption
        <3> QED BY <1>2, <1>7, <3>1, ClientAssumption
    <2>2. Tail(old.rows) \in Seq(Values) /\ Len(Tail(old.rows)) + 1 = n
        BY <1>2, <2>1
    <2>3. cut.rows = Tail(old.rows) /\ cut \in Properties
        <3> HIDE DEF set
        <3>1. cut \in Properties
            BY <1>3, <2>2, PropUpdates
        <3>2. cut.rows = Tail(old.rows)
            BY <1>3 DEF Properties
        <3> QED BY <3>1, <3>2
    <2>4. over \in Properties
        <3> HIDE DEF cut
        <3>1. Append(cut.rows, v) \in Seq(Values)
            BY <2>2, <2>3
        <3> QED BY <2>3, <3>1, PropUpdates
    <2>5. W(cut) = Apply(W(set), gd)
        <3> HIDE DEF set
        <3>1. Apply(W(set), gd) = SetProp(W(set), m, p, [set EXCEPT !.rows = RemoveRow(@, 1)])
            BY <1>6, ApplyDeleteIs
        <3>2. RemoveRow(set.rows, 1) = Tail(set.rows)
            BY <1>2, <1>3, <2>1, RowsAre
        <3>3. [set EXCEPT !.rows = RemoveRow(@, 1)] = cut
            BY <3>2
        <3> QED BY <3>1, <3>3, SetTwice
    <2>6. W(over) = Apply(W(cut), gc)
        <3> HIDE DEF cut
        <3>1. PropIn(W(cut), m, p) = cut
            BY PropOfSet
        <3>2. Apply(W(cut), gc) = SetProp(W(cut), m, p, [cut EXCEPT !.rows = InsertRow(@, n, v)])
            BY <3>1, ApplyCreateIs
        <3>3. InsertRow(cut.rows, n, v) = Append(cut.rows, v)
            BY <2>2, <2>3, RowsAre
        <3>4. [cut EXCEPT !.rows = InsertRow(@, n, v)] = over
            BY <3>3
        <3> QED BY <3>2, <3>4, SetTwice
    <2>7. IsWorld(W(over))
        BY <2>4, SetInWorld
    <2> DEFINE a == W(set)
               b == W(cut)
               c == W(over)
    <2>8. Announces(c, <<Sent(ea, a), Sent(gd, b), Sent(gc, c)>>)
        BY <1>1, <1>7
    <2>9. a = Apply(world, ea) /\ b = Apply(a, gd) /\ c = Apply(b, gc) /\ IsWorld(c)
        BY <1>5, <2>5, <2>6, <2>7
    <2> HIDE DEF a, b, c, ea, gd, gc
    <2>10. LET sent == <<Sent(ea, a), Sent(gd, b), Sent(gc, c)>>
           IN  Proper(sent) /\ Truthful(world, sent, c)
        BY <1>4, <2>9, ThreeFrames
    <2> QED BY <1>1, <2>8, <2>9, <2>10 DEF Announcement
<1>8. CASE ~(GridLimit > 0 /\ n + 1 > GridLimit)
    <2>1. grown \in Properties
        <3> HIDE DEF set
        <3>1. Append(set.rows, v) \in Seq(Values)
            BY <1>2, <1>3
        <3> QED BY <1>3, <3>1, PropUpdates
    <2>2. W(grown) = Apply(W(set), more)
        <3> HIDE DEF set
        <3>1. Apply(W(set), more)
                = SetProp(W(set), m, p, [set EXCEPT !.rows = InsertRow(@, n + 1, v)])
            BY <1>6, ApplyCreateIs
        <3>2. InsertRow(set.rows, n + 1, v) = Append(set.rows, v)
            BY <1>2, <1>3, RowsAre
        <3>3. [set EXCEPT !.rows = InsertRow(@, n + 1, v)] = grown
            BY <3>2
        <3> QED BY <3>1, <3>3, SetTwice
    <2>3. IsWorld(W(grown))
        BY <2>1, SetInWorld
    <2> DEFINE a == W(set)
               b == W(grown)
    <2>4. Announces(b, <<Sent(ea, a), Sent(more, b)>>)
        BY <1>1, <1>8
    <2>5. a = Apply(world, ea) /\ b = Apply(a, more) /\ IsWorld(b)
        BY <1>5, <2>2, <2>3
    <2> HIDE DEF a, b, ea, more
    <2>6. LET sent == <<Sent(ea, a), Sent(more, b)>>
          IN  Proper(sent) /\ Truthful(world, sent, b)
        BY <1>4, <2>5, TwoFrames
    <2> QED BY <1>1, <2>4, <2>5, <2>6 DEF Announcement
<1> QED BY <1>7, <1>8

LEMMA KillModuleAnnounces ==
    ASSUME IsWorld(world), NEW m \in Modules, KillModule(m)
    PROVE  \E w, sent : Announcement(w, sent)
<1> DEFINE keys == InOrder(DOMAIN world[m])
           n == Len(keys)
           gone == Without(world, m)
           Left(k) == [world EXCEPT ![m] = [p \in DOMAIN @ \ {keys[j] : j \in 1..k} |-> @[p]]]
           F(k) == IF k <= n THEN Frame("dp", m, keys[k], 0, {}) ELSE Frame("dm", m, "", 0, {})
           sent == [k \in 1..(n + 1) |->
               IF k <= n THEN Sent(Frame("dp", m, keys[k], 0, {}), Left(k))
               ELSE Sent(Frame("dm", m, "", 0, {}), gone)]
           c == [k \in 0..(n + 1) |-> IF k <= n THEN Left(k) ELSE gone]
<1>1. m \in DOMAIN world /\ posted' = PostedToOthers(m) /\ Announces(gone, sent)
    BY DEF KillModule
<1>2. n \in Nat
    <2> DEFINE S == DOMAIN world[m]
    <2>1. IsFiniteSet(S)
        <3>1. S \subseteq Props
            BY <1>1 DEF IsWorld, IsModule
        <3> QED BY <3>1, WorldsAssumption, FS_Subset
    <2>2. PICK N \in Nat : ExistsBijection(1..N, S) /\ Cardinality(S) = N
        BY <2>1, FS_CardinalityType, FS_NatBijection
    <2>3. PICK q : q \in Bijection(1..N, S)
        BY <2>2 DEF ExistsBijection
    <2>4. q \in [1..N -> S] /\ \A x \in S : \E k \in DOMAIN q : q[k] = x
        BY <2>3 DEF Bijection, Injection, Surjection
    <2>5. \E f \in [1..Cardinality(S) -> S] : \A x \in S : \E k \in DOMAIN f : f[k] = x
        BY <2>2, <2>4
    <2>6. keys \in [1..Cardinality(S) -> S]
        BY <2>5 DEF InOrder
    <2> HIDE DEF keys, S
    <2> QED BY <2>2, <2>6
<1>3. IsWorld(gone)
    BY WithoutInWorld
<1>4. \A k \in 1..(n + 1) : sent[k].frame = F(k) /\ F(k).kind \notin {"d", "l"}
    <2> HIDE DEF keys, Left, gone
    <2>1. \A k \in 1..(n + 1) : F(k).kind \notin {"d", "l"}
        BY DEF Frame
    <2>2. \A k \in 1..(n + 1) : sent[k].frame = F(k)
        BY DEF Sent
    <2> QED BY <2>1, <2>2
<1>5. sent = [k \in 1..(n + 1) |-> sent[k]]
    OBVIOUS
<1>6. c[0] = world /\ c[n + 1] = gone
    <2>1. Left(0) = world
        <3>1. {keys[j] : j \in 1..0} = {}
            OBVIOUS
        <3>2. [p \in DOMAIN world[m] |-> world[m][p]] = world[m]
            BY <1>1 DEF IsWorld, IsModule
        <3> HIDE DEF keys
        <3>3. Left(0) = [world EXCEPT ![m] = world[m]]
            BY <3>1, <3>2
        <3>4. [world EXCEPT ![m] = world[m]] = world
            BY <1>1, ExceptSame DEF IsWorld
        <3> QED BY <3>3, <3>4
    <2> HIDE DEF keys
    <2> QED BY <1>2, <2>1
<1>7. ASSUME NEW k \in 1..n PROVE Left(k) = Apply(Left(k - 1), Frame("dp", m, keys[k], 0, {}))
    <2> DEFINE gonesofar == {keys[j] : j \in 1..(k - 1)}
               then == {keys[j] : j \in 1..k}
               rest == [p \in DOMAIN world[m] \ gonesofar |-> world[m][p]]
    <2>1. then = gonesofar \cup {keys[k]}
        <3> HIDE DEF keys
        <3> QED BY <1>2, <1>7
    <2>2. /\ Left(k - 1) = [world EXCEPT ![m] = rest]
          /\ Left(k) = [world EXCEPT ![m] = [p \in DOMAIN world[m] \ then |-> world[m][p]]]
        BY <1>2, <1>7
    <2> HIDE DEF gonesofar, then, keys, Left
    <2>3. [p \in DOMAIN world[m] \ then |-> world[m][p]] = Without(rest, keys[k])
        BY <2>1 DEF Without
    <2> HIDE DEF rest
    <2>4. m \in DOMAIN Left(k - 1) /\ Left(k - 1)[m] = rest
        BY <1>1, <2>2
    <2>5. Apply(Left(k - 1), Frame("dp", m, keys[k], 0, {}))
            = [Left(k - 1) EXCEPT ![m] = Without(@, keys[k])]
        BY <2>4, ApplyDelPropIs
    <2>6. [Left(k - 1) EXCEPT ![m] = Without(@, keys[k])]
            = [world EXCEPT ![m] = Without(rest, keys[k])]
        BY <1>1, <2>2, <2>4
    <2> QED BY <2>2, <2>3, <2>5, <2>6
<1>8. gone = Apply(Left(n), Frame("dm", m, "", 0, {}))
    <2>1. Apply(Left(n), Frame("dm", m, "", 0, {})) = Without(Left(n), m)
        BY ApplyGoneIs
    <2> HIDE DEF keys
    <2>2. Without([world EXCEPT ![m] = [p \in DOMAIN @ \ {keys[j] : j \in 1..n} |-> @[p]]], m)
              = Without(world, m)
        BY DEF Without
    <2> QED BY <2>1, <2>2
<1>9. \A k \in 1..(n + 1) : c[k] = Apply(c[k - 1], F(k))
    <2> SUFFICES ASSUME NEW k \in 1..(n + 1) PROVE c[k] = Apply(c[k - 1], F(k))
        OBVIOUS
    <2>1. CASE k \in 1..n
        <3>1. c[k] = Left(k) /\ c[k - 1] = Left(k - 1) /\ F(k) = Frame("dp", m, keys[k], 0, {})
            <4> HIDE DEF Left, keys
            <4> QED BY <1>2, <2>1
        <3> QED BY <1>7, <2>1, <3>1
    <2>2. CASE k = n + 1
        <3>1. c[k] = gone /\ c[k - 1] = Left(n) /\ F(k) = Frame("dm", m, "", 0, {})
            <4> HIDE DEF Left, keys, gone
            <4>1. k \in 0..(n + 1) /\ k - 1 \in 0..(n + 1) /\ ~(k <= n) /\ k - 1 = n /\ n <= n
                BY <1>2, <2>2
            <4>2. c[k] = gone
                BY <4>1
            <4>3. c[k - 1] = Left(n)
                BY <4>1
            <4>4. F(k) = Frame("dm", m, "", 0, {})
                BY <4>1
            <4> QED BY <4>2, <4>3, <4>4
        <3> QED BY <1>8, <3>1
    <2> HIDE DEF keys, c, F
    <2> QED BY <1>2, <2>1, <2>2
<1> HIDE DEF sent, c, F, Left, keys, gone
<1>10. n \in Nat
    BY <1>2
<1>11. IsSeq(sent) /\ Len(sent) = n + 1
    BY <1>5, <1>10, FunctionIsSeq
<1>12. Proper(sent)
    BY <1>4, <1>11 DEF Proper
<1>13. \A k \in 1..Len(sent) : c[k] = Apply(c[k - 1], sent[k].frame)
    BY <1>4, <1>9, <1>11
<1>14. Truthful(world, sent, gone)
    BY <1>6, <1>11, <1>13 DEF Truthful
<1>15. posted = <<>> => posted' = <<>>
    BY <1>1, NothingForOthers
<1> QED BY <1>1, <1>3, <1>12, <1>14, <1>15 DEF Announcement
-----------------------------------------------------------------------------
(* What the server does, seen from a page                                    *)

LEMMA LoggedIs ==
    ASSUME NEW log \in Logs, NEW e \in Int
    PROVE  /\ Logged(log, e) \in Logs
           /\ Len(Logged(log, e)) = IF Len(log) < LogLimit THEN Len(log) + 1 ELSE Len(log)
           /\ Len(log) < LogLimit => Logged(log, e) = Append(log, e)
<1>1. log \in Seq(Int) /\ Len(log) <= LogLimit /\ Len(log) \in Nat /\ LogLimit \in Nat \ {0}
    BY ClientAssumption DEF Logs
<1>2. CASE Len(log) < LogLimit
    <2>1. Append(log, e) \in Seq(Int) /\ Len(Append(log, e)) = Len(log) + 1
        BY <1>1
    <2> QED BY <1>1, <1>2, <2>1 DEF Logged, Logs
<1>3. CASE ~(Len(log) < LogLimit)
    <2>1. log # <<>>
        BY <1>1, <1>3
    <2>2. Tail(log) \in Seq(Int) /\ Len(Tail(log)) = Len(log) - 1
        BY <1>1, <2>1
    <2>3. Append(Tail(log), e) \in Seq(Int) /\ Len(Append(Tail(log), e)) = Len(log)
        BY <1>1, <2>2
    <2> QED BY <1>1, <1>3, <2>3 DEF Logged, Logs
<1> QED BY <1>2, <1>3

LEMMA ServerCases ==
    ASSUME Server, IsWorld(world)
    PROVE  \/ \E w, sent : Announcement(w, sent)
           \/ \E m \in Modules, p \in Props : PushInThread(m, p)
           \/ LogError
           \/ PostedDelivered
<1>1. ASSUME NEW m \in Modules, NEW v \in Values, NEW early \in SUBSET Props,
             LoadModule(m, v, early)
      PROVE  \E w, sent : Announcement(w, sent)
    BY <1>1, LoadModuleAnnounces
<1>2. ASSUME NEW m \in Modules, KillModule(m) PROVE \E w, sent : Announcement(w, sent)
    BY <1>2, KillModuleAnnounces
<1>3. ASSUME NEW m \in Modules, NEW p \in Props,
             \/ \E prop \in Contents : SendProperty(m, p, prop)
             \/ DeleteProperty(m, p) \/ ClearGrid(m, p)
             \/ \E v \in Values : SetValue(m, p, v) \/ NewLine(m, p, v)
      PROVE  \E w, sent : Announcement(w, sent)
    BY <1>3, SendPropertyAnnounces, DeletePropertyAnnounces, ClearGridAnnounces,
       SetValueAnnounces, NewLineAnnounces
<1>4. ASSUME NEW m \in Modules, NEW p \in Props, NEW i \in 1..(MaxEvents + 1),
             \/ \E v \in Values : UpdateLine(m, p, i, v)
             \/ DeleteLine(m, p, i)
             \/ \E j \in 1..(MaxEvents + 1) : SwapLines(m, p, i, j)
      PROVE  \E w, sent : Announcement(w, sent)
    BY <1>4, UpdateLineAnnounces, DeleteLineAnnounces, SwapLinesAnnounces
<1> QED BY <1>1, <1>2, <1>3, <1>4 DEF Server

Silent == UNCHANGED <<grant, near, far, up, socket, status, beating, data, shell>>
Spoken(sent) ==
    /\ Broadcast(sent) /\ IsSeq(sent)
    /\ \A k \in 1..Len(sent) :
          sent[k].frame.kind # "d" /\ (sent[k].frame.kind = "l" => sent[k].frame.body \in Int)
ServerTypes ==
    /\ history' \in Logs /\ events' \in Nat /\ raced' \in BOOLEAN
    /\ IsWorld(world)' /\ (~raced' => IsSeq(posted'))

LEMMA SingleIsSeq ==
    ASSUME NEW x
    PROVE  IsSeq(<<x>>) /\ Len(<<x>>) = 1 /\ <<x>>[1] = x
<1>1. <<x>> \in Seq({x})
    OBVIOUS
<1> QED BY <1>1, SeqIsFunction

LEMMA EmptyIsSeq == IsSeq(<<>>) /\ Len(<<>>) = 0
<1>1. <<>> \in Seq({})
    OBVIOUS
<1> QED BY <1>1, SeqIsFunction

LEMMA AnnouncementIs ==
    ASSUME Types, NEW w, NEW sent, Announcement(w, sent)
    PROVE  /\ Spoken(sent) /\ Silent /\ ServerTypes
           /\ history' = history /\ raced' = (raced \/ posted # <<>>) /\ world' = w
<1>1. Announces(w, sent) /\ IsWorld(w) /\ Proper(sent)
    BY DEF Announcement
<1>2. Silent /\ history' = history /\ raced' = (raced \/ posted # <<>>) /\ world' = w
    BY <1>1 DEF Announces, Silent
<1>3. Spoken(sent)
    BY <1>1 DEF Announces, Spoken, Proper
<1>4. events' \in Nat
    BY <1>1 DEF Announces, Occurs, Types
<1>5. raced' \in BOOLEAN
    BY <1>2 DEF Types
<1>6. ~raced' => IsSeq(posted')
    <2> SUFFICES ASSUME ~raced' PROVE IsSeq(posted')
        OBVIOUS
    <2>1. posted = <<>>
        BY <1>2
    <2> QED BY <2>1, EmptyIsSeq DEF Announcement
<1> QED BY <1>1, <1>2, <1>3, <1>4, <1>5, <1>6 DEF ServerTypes, Types

LEMMA LogErrorIs ==
    ASSUME Types, LogError
    PROVE  /\ Spoken(<<Sent(Frame("l", "", "", 0, events'), world)>>) /\ Silent /\ ServerTypes
           /\ UNCHANGED <<world, posted, raced>>
<1> DEFINE x == Sent(Frame("l", "", "", 0, events'), world)
<1>1. events' \in Nat /\ events' \in Int
    <2>1. events' = events + 1
        BY DEF LogError, Occurs
    <2>2. events \in Nat
        BY DEF Types
    <2> QED BY <2>1, <2>2
<1>2. x.frame.kind = "l" /\ x.frame.body = events'
    BY DEF Sent, Frame
<1>3. Broadcast(<<x>>) /\ Silent /\ UNCHANGED <<world, posted, raced>> /\ history' = Logged(history, events')
    BY DEF LogError, Silent
<1> HIDE DEF x
<1>4. Spoken(<<x>>)
    BY <1>1, <1>2, <1>3, SingleIsSeq DEF Spoken
<1>5. ServerTypes
    BY <1>1, <1>3, LoggedIs DEF ServerTypes, Types
<1> QED BY <1>3, <1>4, <1>5 DEF x

(* The message that is made of a posted event *)
Told(w, e) ==
    LET rows == w[e.m][e.p].rows
    IN  CASE e.kind = "gd"                       -> Frame("gd", e.m, e.p, e.i, {})
          [] e.kind = "gc" /\ e.i \in DOMAIN rows -> Frame("gc", e.m, e.p, e.i, rows[e.i])
          [] OTHER                               -> Frame("gc", e.m, e.p, 0, NoValue)

LEMMA PostedDeliveredIs ==
    ASSUME Types, PostedDelivered
    PROVE  /\ Spoken(<<Sent(Told(world, Head(posted)), world)>>) /\ Silent /\ ServerTypes
           /\ posted # <<>> /\ posted' = Tail(posted)
           /\ UNCHANGED <<world, raced, history>>
<1> DEFINE x == Sent(Told(world, Head(posted)), world)
<1>1. /\ Broadcast(<<x>>) /\ Silent /\ UNCHANGED <<world, raced, history, events>>
      /\ posted # <<>> /\ posted' = Tail(posted)
    BY DEF PostedDelivered, Silent, Told
<1>2. x.frame.kind \notin {"d", "l"}
    BY DEF Sent, Told, Frame
<1> HIDE DEF x
<1>3. Spoken(<<x>>)
    BY <1>1, <1>2, SingleIsSeq DEF Spoken
<1>4. ServerTypes
    <2>1. ~raced => IsSeq(Tail(posted))
        BY <1>1, TailIs DEF Types
    <2> QED BY <1>1, <2>1 DEF ServerTypes, Types
<1> QED BY <1>1, <1>3, <1>4 DEF x

Row(kind, m, p, i) == [kind |-> kind, m |-> m, p |-> p, i |-> i]

LEMMA PushInThreadIs ==
    ASSUME Types, NEW m \in Modules, NEW p \in Props, PushInThread(m, p)
    PROVE  /\ down' = down /\ Silent /\ ServerTypes /\ history' = history
           /\ raced' = (raced \/ posted # <<>>)
<1> DEFINE prop == world[m][p]
           n == Len(prop.rows)
           full == GridLimit > 0 /\ n + 1 > GridLimit
           kept == IF full THEN Tail(prop.rows) ELSE prop.rows
           first == IF full THEN <<Row("gd", m, p, 1)>> ELSE <<>>
           then == <<Row("gc", m, p, Len(kept) + 1)>>
           new == [prop EXCEPT !.rows = Append(kept, prop.val)]
<1>1. /\ Has(m, p) /\ Occurs /\ world' = SetProp(world, m, p, new)
      /\ posted' = posted \o first \o then
      /\ raced' = (raced \/ posted # <<>>)
    BY DEF PushInThread, Row
<1>2. Silent /\ down' = down /\ history' = history
    BY DEF PushInThread, Silent, wire
<1>3. prop \in Properties /\ prop.val \in Values /\ prop.rows \in Seq(Values) /\ n \in Nat
    BY <1>1, PropIsTyped DEF Types
<1>4. kept \in Seq(Values)
    <2>1. full => prop.rows # <<>>
        <3> SUFFICES ASSUME full PROVE prop.rows # <<>>
            OBVIOUS
        <3>1. GridLimit >= 1
            BY ClientAssumption
        <3> QED BY <1>3, <3>1, ClientAssumption
    <2> QED BY <1>3, <2>1
<1>5. IsWorld(world')
    <2> HIDE DEF kept, prop
    <2>1. Append(kept, prop.val) \in Seq(Values)
        BY <1>3, <1>4
    <2>2. new \in Properties
        BY <1>3, <2>1, PropUpdates
    <2> QED BY <1>1, <2>2, SetInWorld DEF Types
<1>6. ~raced' => IsSeq(posted')
    <2> SUFFICES ASSUME ~raced' PROVE IsSeq(posted')
        OBVIOUS
    <2>1. IsSeq(posted)
        BY <1>1 DEF Types
    <2>2. IsSeq(first) /\ IsSeq(then)
        BY SingleIsSeq, EmptyIsSeq
    <2> HIDE DEF first, then
    <2>3. IsSeq(posted \o first)
        BY <2>1, <2>2, ConcatIs
    <2> QED BY <1>1, <2>2, <2>3, ConcatIs
<1>7. events' \in Nat /\ raced' \in BOOLEAN
    BY <1>1 DEF Occurs, Types
<1>8. IsWorld(world)'
    BY <1>5
<1> QED BY <1>1, <1>2, <1>6, <1>7, <1>8 DEF ServerTypes, Types

(* To a page the server is silent, or speaks of something else than a dump. *)
LEMMA ServerSpeaks ==
    ASSUME Types, Server
    PROVE  /\ Silent /\ ServerTypes
           /\ down' = down \/ \E sent : Spoken(sent)
<1>1. IsWorld(world)
    BY DEF Types
<1> QED BY <1>1, ServerCases, AnnouncementIs, PushInThreadIs, LogErrorIs, PostedDeliveredIs
-----------------------------------------------------------------------------
(* One connection at a time, and nothing outlives it                         *)

LEMMA SocketIs ==
    ASSUME Types
    PROVE  /\ Sockets = 1..MaxSockets /\ MaxSockets \in Nat /\ socket \in Nat
           /\ socket # 0 => socket \in Sockets
           /\ \A i \in Sockets : i \in Int
BY ClientAssumption DEF Types, Sockets

(* A socket that is not closed or unused is this.socket. *)
LEMMA OnlyThisSocket ==
    ASSUME Types, Line, NEW i \in Sockets, near[i] \in {"connecting", "open", "closing"}
    PROVE  i = socket /\ socket # 0
<1>1. i \in Nat \ {0} /\ socket \in Nat
    BY SocketIs
<1>2. ~(i < socket) /\ ~(i > socket)
    BY DEF Line
<1> QED BY <1>1, <1>2

LEMMA ConnAtFirst == Init => ConnInv
<1> SUFFICES ASSUME Init PROVE ConnInv
    OBVIOUS
<1>1. history \in Logs
    BY ClientAssumption DEF Init, Logs
<1>2. <<>> \in Logs /\ Len(<<>>) = 0
    <2>1. <<>> \in Seq(Int) /\ Len(<<>>) = 0
        OBVIOUS
    <2> QED BY <2>1, ClientAssumption DEF Logs
<1>3. socket \in 0..MaxSockets /\ socket = 0
    <2>1. socket = 0 /\ MaxSockets \in Nat
        BY ClientAssumption DEF Init
    <2> QED BY <2>1
<1>4. /\ near = [i \in Sockets |-> "unused"] /\ far = {} /\ down = [i \in Sockets |-> <<>>]
      /\ up = [i \in Sockets |-> <<>>] /\ status = "disconnected" /\ beating = FALSE
      /\ store = Nothing /\ logs = <<>> /\ session = "null" /\ pending = TRUE
      /\ seenLogs = 0 /\ events = 0 /\ posted = <<>> /\ raced = FALSE
    BY DEF Init
<1>5. IsWorld(world)
    BY WorldsAssumption DEF Init
<1>6. near \in [Sockets -> ReadyStates]
    BY <1>4 DEF ReadyStates
<1>7. \A i \in Sockets : down[i] = <<>> /\ up[i] = <<>> /\ near[i] = "unused"
    BY <1>4
<1>8. \A i \in Sockets : i > 0
    BY DEF Sockets
<1>9. Types
    <2>1. \A i \in Sockets :
              IsSeq(down[i]) /\ \A k \in 1..Len(down[i]) : IsMessage(down[i][k])
        BY <1>7, EmptyIsSeq
    <2>2. down = [i \in Sockets |-> down[i]] /\ up = [i \in Sockets |-> up[i]]
        BY <1>4
    <2>3. IsSeq(posted)
        BY <1>4, EmptyIsSeq
    <2> QED BY <1>1, <1>2, <1>3, <1>4, <1>5, <1>6, <2>1, <2>2, <2>3 DEF Types, Statuses
<1>10. Line
    BY <1>3, <1>4, <1>7, <1>8 DEF Line
<1>11. NothingOutlives
    BY <1>4 DEF NothingOutlives
<1> QED BY <1>9, <1>10, <1>11 DEF ConnInv

LEMMA ConnectStays ==
    ASSUME ConnInv, ~MayOverlap, Connect
    PROVE  ConnInv'
<1> USE DEF ConnInv
<1>1. /\ status = "disconnected" /\ socket < MaxSockets /\ socket' = socket + 1
      /\ near' = [near EXCEPT ![socket + 1] = "connecting"] /\ status' = "connecting"
      /\ UNCHANGED <<world, posted, raced, history, far, down, up, beating, events>>
    BY DEF Connect, server
<1>2. /\ store' = Nothing /\ logs' = <<>> /\ session' = "null" /\ pending' = TRUE
      /\ seenLogs' = 0
    BY DEF Connect, Reset
<1>3. socket' \in 1..MaxSockets /\ socket' \in Sockets /\ socket \in Nat
    BY <1>1, SocketIs
<1>4. /\ near' \in [Sockets -> ReadyStates] /\ near'[socket'] = "connecting"
      /\ \A i \in Sockets : i # socket' => near'[i] = near[i]
    BY <1>1, <1>3 DEF Types, ReadyStates
<1>5. <<>> \in Logs /\ Len(<<>>) = 0
    <2>1. <<>> \in Seq(Int) /\ Len(<<>>) = 0
        OBVIOUS
    <2> QED BY <2>1, ClientAssumption DEF Logs
<1>6. Types'
    BY <1>1, <1>2, <1>3, <1>4, <1>5 DEF Types, Statuses
<1>7. down'[socket'] = <<>> /\ up'[socket'] = <<>>
    BY <1>1, <1>3 DEF Line
<1>8. \A i \in Sockets : i < socket' => near'[i] = "closed"
    <2> SUFFICES ASSUME NEW i \in Sockets, i < socket' PROVE near'[i] = "closed"
        OBVIOUS
    <2>1. i \in Nat \ {0} /\ (i < socket \/ i = socket)
        BY <1>1, SocketIs
    <2>2. near[i] = "closed"
        BY <1>1, <2>1 DEF Line
    <2> QED BY <1>3, <1>4, <2>1, <2>2
<1>9. \A i \in Sockets : i > socket' => /\ near'[i] = "unused" /\ i \notin far'
                                        /\ down'[i] = <<>> /\ up'[i] = <<>>
    <2> SUFFICES ASSUME NEW i \in Sockets, i > socket'
                 PROVE  /\ near'[i] = "unused" /\ i \notin far'
                        /\ down'[i] = <<>> /\ up'[i] = <<>>
        OBVIOUS
    <2>1. i > socket /\ i # socket'
        BY <1>1, <1>3, SocketIs
    <2> QED BY <1>1, <1>4, <2>1 DEF Line
<1>10. Line'
    <2>1. Len(down'[socket']) = 0
        BY <1>7
    <2> QED BY <1>1, <1>3, <1>4, <1>7, <1>8, <1>9, <2>1 DEF Line
<1>11. NothingOutlives'
    BY <1>1, <1>2 DEF NothingOutlives
<1> QED BY <1>6, <1>10, <1>11

LEMMA AcceptStays ==
    ASSUME ConnInv, NEW i \in Sockets, Accept(i)
    PROVE  ConnInv'
<1> USE DEF ConnInv
<1>1. /\ near[i] = "connecting" /\ far' = far \cup {i}
      /\ UNCHANGED <<world, posted, raced, history, near, down, up, socket, status,
                     beating, store, logs, session, pending, seenLogs, events>>
    BY DEF Accept, data, shell
<1>2. i = socket
    BY <1>1, OnlyThisSocket
<1>3. Types'
    BY <1>1 DEF Types
<1>4. Line'
    BY <1>1, <1>2, SocketIs DEF Line
<1>5. NothingOutlives'
    BY <1>1 DEF NothingOutlives, Open
<1> QED BY <1>3, <1>4, <1>5

LEMMA OpenedStays ==
    ASSUME ConnInv, NEW i \in Sockets, Opened(i)
    PROVE  ConnInv'
<1> USE DEF ConnInv
<1>1. /\ near[i] = "connecting" /\ near' = [near EXCEPT ![i] = "open"]
      /\ status' = "connected" /\ beating' = TRUE
      /\ UNCHANGED <<world, posted, raced, history, far, down, socket,
                     store, logs, session, pending, seenLogs, events>>
    BY DEF Opened, server, data, shell
<1>2. i = socket /\ socket # 0
    BY <1>1, OnlyThisSocket
<1>3. near' \in [Sockets -> ReadyStates] /\ near'[i] = "open"
      /\ \A j \in Sockets : j # i => near'[j] = near[j]
    BY <1>1 DEF Types, ReadyStates
<1>4. up' = [up EXCEPT ![socket] = Append(@, "DU")]
    BY <1>2, <1>3 DEF Opened, Command
<1>5. up' = [j \in Sockets |-> up'[j]] /\ \A j \in Sockets : j # i => up'[j] = up[j]
    BY <1>2, <1>4 DEF Types
<1>6. Types'
    BY <1>1, <1>3, <1>5 DEF Types, Statuses
<1>7. Line'
    BY <1>1, <1>2, <1>3, <1>5, SocketIs DEF Line
<1>8. NothingOutlives'
    BY <1>1, <1>2, <1>3 DEF NothingOutlives, Open
<1> QED BY <1>6, <1>7, <1>8

LEMMA ClosedStays ==
    ASSUME ConnInv, NEW i \in Sockets, Closed(i)
    PROVE  ConnInv'
<1> USE DEF ConnInv
<1>1. /\ near[i] \in {"connecting", "open", "closing"} /\ near' = [near EXCEPT ![i] = "closed"]
      /\ status' = "disconnected" /\ beating' = FALSE
      /\ down' = [down EXCEPT ![i] = <<>>]
      /\ UNCHANGED <<world, posted, raced, history, far, up, socket, events>>
    BY DEF Closed, Ends, server
<1>2. /\ store' = Nothing /\ logs' = <<>> /\ session' = "null" /\ pending' = TRUE
      /\ seenLogs' = 0
    BY DEF Closed, Ends, Reset
<1>3. i = socket /\ socket # 0
    BY <1>1, OnlyThisSocket
<1>4. near' \in [Sockets -> ReadyStates] /\ near'[i] = "closed"
      /\ \A j \in Sockets : j # i => near'[j] = near[j]
    BY <1>1 DEF Types, ReadyStates
<1>5. /\ down' = [j \in Sockets |-> down'[j]] /\ down'[i] = <<>>
      /\ \A j \in Sockets : j # i => down'[j] = down[j]
    BY <1>1 DEF Types
<1>6. <<>> \in Logs /\ Len(<<>>) = 0
    <2>1. <<>> \in Seq(Int) /\ Len(<<>>) = 0
        OBVIOUS
    <2> QED BY <2>1, ClientAssumption DEF Logs
<1>7. \A j \in Sockets :
          IsSeq(down'[j]) /\ \A k \in 1..Len(down'[j]) : IsMessage(down'[j][k])
    BY <1>5, <1>6, EmptyIsSeq DEF Types
<1>8. Types'
    BY <1>1, <1>2, <1>4, <1>5, <1>6, <1>7 DEF Types, Statuses
<1>9. Line'
    BY <1>1, <1>3, <1>4, <1>5, SocketIs DEF Line
<1>10. NothingOutlives'
    BY <1>1, <1>2 DEF NothingOutlives, Open
<1> QED BY <1>8, <1>9, <1>10

LEMMA DisconnectStays ==
    ASSUME ConnInv, Disconnect
    PROVE  ConnInv'
<1> USE DEF ConnInv
<1>1. /\ socket # 0 /\ (near[socket] \in {"connecting", "open"} \/ beating)
      /\ near' = IF near[socket] = "closed" THEN near ELSE [near EXCEPT ![socket] = "closing"]
      /\ beating' = FALSE
      /\ UNCHANGED <<world, posted, raced, history, far, down, up, socket, status,
                     store, logs, session, pending, seenLogs, events>>
    BY DEF Disconnect, server, data, shell
<1>2. socket \in Sockets /\ near[socket] \in {"connecting", "open"}
    <2>1. beating => near[socket] = "open"
        BY DEF NothingOutlives, Open
    <2>2. socket # 0
        BY DEF Disconnect
    <2> QED BY <1>1, <2>1, <2>2, SocketIs
<1>3. near' \in [Sockets -> ReadyStates] /\ near'[socket] = "closing"
      /\ \A j \in Sockets : j # socket => near'[j] = near[j]
    BY <1>1, <1>2 DEF Types, ReadyStates
<1>4. Types'
    BY <1>1, <1>3 DEF Types
<1>5. Line'
    BY <1>1, <1>2, <1>3, SocketIs DEF Line
<1>6. NothingOutlives'
    BY <1>1, <1>3 DEF NothingOutlives, Open
<1> QED BY <1>4, <1>5, <1>6

LEMMA SocketDisconnectedStays ==
    ASSUME ConnInv, NEW i \in Sockets, SocketDisconnected(i)
    PROVE  ConnInv'
<1> USE DEF ConnInv
<1>1. /\ i \in far /\ near[i] # "connecting" /\ far' = far \ {i}
      /\ up' = [up EXCEPT ![i] = <<>>]
      /\ UNCHANGED <<world, posted, raced, history, near, down, socket, status,
                     beating, store, logs, session, pending, seenLogs, events>>
    BY DEF SocketDisconnected, data, shell
<1>2. /\ up' = [j \in Sockets |-> up'[j]] /\ up'[i] = <<>>
      /\ \A j \in Sockets : j # i => up'[j] = up[j]
    BY <1>1 DEF Types
<1>3. Types'
    BY <1>1, <1>2 DEF Types
<1>4. Line'
    BY <1>1, <1>2, SocketIs DEF Line
<1>5. NothingOutlives'
    BY <1>1 DEF NothingOutlives, Open
<1> QED BY <1>3, <1>4, <1>5

LEMMA SendStays ==
    ASSUME ConnInv, NEW c, Send(c)
    PROVE  ConnInv'
<1> USE DEF ConnInv
<1>1. /\ socket # 0 /\ Open(socket) /\ up' = [up EXCEPT ![socket] = Append(@, c)]
      /\ UNCHANGED <<world, posted, raced, history, near, far, down, socket, status,
                     beating, store, logs, session, pending, seenLogs, events>>
    BY DEF Send, Command, server, data, shell
<1>2. socket \in Sockets
    BY <1>1, SocketIs
<1>3. /\ up' = [j \in Sockets |-> up'[j]]
      /\ \A j \in Sockets : j # socket => up'[j] = up[j]
    BY <1>1, <1>2 DEF Types
<1>4. Types'
    BY <1>1, <1>3 DEF Types
<1>5. Line'
    BY <1>1, <1>2, <1>3, SocketIs DEF Line, Open
<1>6. NothingOutlives'
    BY <1>1 DEF NothingOutlives, Open
<1> QED BY <1>4, <1>5, <1>6

LEMMA SelectViewStays ==
    ASSUME ConnInv, NEW v, SelectView(v)
    PROVE  ConnInv'
BY DEF ConnInv, Types, Line, NothingOutlives, Open, SelectView, server, wire, data
(* A page that is sent a dump *)
Answer(g) ==
    [frame |-> Frame("d", "", "", 0, Dump(g)), says |-> IF g = "-1" THEN {} ELSE {world}]

LEMMA AnswerIs ==
    ASSUME Types, NEW g
    PROVE  /\ IsMessage(Answer(g)) /\ Answer(g).frame.kind = "d"
           /\ Answer(g).frame.body.grant = g
           /\ Answer(g).says # {} <=> g # "-1"
           /\ g # "-1" => Answer(g).frame.body.logs = history
           /\ g = "-1" => Answer(g).frame.body.logs = <<>>
           /\ g # "-1" => Apply({}, Answer(g).frame) = world
<1>1. /\ Answer(g).frame.kind = "d" /\ Answer(g).frame.body = Dump(g)
      /\ Answer(g).says = IF g = "-1" THEN {} ELSE {world}
    BY DEF Answer, Frame
<1>2. /\ Dump(g).grant = g
      /\ Dump(g).logs = IF g = "-1" THEN <<>> ELSE history
      /\ Dump(g).modules = IF g = "-1" THEN Nothing ELSE world
    BY DEF Dump
<1>3. <<>> \in Logs
    <2>1. <<>> \in Seq(Int) /\ Len(<<>>) = 0
        OBVIOUS
    <2> QED BY <2>1, ClientAssumption DEF Logs
<1>4. Dump(g).logs \in Logs
    BY <1>2, <1>3 DEF Types
<1> QED BY <1>1, <1>2, <1>4 DEF IsMessage, Apply

LEMMA AnsweredIs ==
    ASSUME Types, NEW i \in Sockets, ProcessTextMessage(i)
    PROVE  /\ i \in far /\ up[i] # <<>>
           /\ up' = [j \in Sockets |-> up'[j]] /\ \A j \in Sockets : j # i => up'[j] = up[j]
           /\ down' = [j \in Sockets |-> down'[j]] /\ \A j \in Sockets : j # i => down'[j] = down[j]
           /\ i \notin Reached => down' = down
           /\ i \in Reached => down'[i] = Append(down[i], Answer(grant'))
           /\ raced' = (raced \/ posted # <<>>)
           /\ UNCHANGED <<world, posted, history, near, far, socket, status, beating, store,
                          logs, session, pending, seenLogs, events>>
<1>1. /\ i \in far /\ up[i] # <<>> /\ up' = [up EXCEPT ![i] = Tail(@)]
      /\ raced' = (raced \/ posted # <<>>)
      /\ UNCHANGED <<world, posted, history, near, far, socket, status, beating, store,
                          logs, session, pending, seenLogs, events>>
    BY DEF ProcessTextMessage, data, shell
<1>2. down' = IF i \in Reached THEN [down EXCEPT ![i] = Append(@, Answer(grant'))] ELSE down
    BY DEF ProcessTextMessage, SendTo, Answer
<1> HIDE DEF Answer
<1> QED BY <1>1, <1>2 DEF Types

LEMMA ProcessTextMessageStays ==
    ASSUME ConnInv, NEW i \in Sockets, ProcessTextMessage(i)
    PROVE  ConnInv'
<1> USE DEF ConnInv
<1> DEFINE a == Answer(grant')
<1>1. IsMessage(a) /\ IsSeq(down[i])
    BY AnswerIs DEF Types
<1> HIDE DEF a
<1>2. down'[i] = down[i] \/ down'[i] = Append(down[i], a)
    BY AnsweredIs DEF a
<1>3. IsSeq(down'[i]) /\ \A k \in 1..Len(down'[i]) : IsMessage(down'[i][k])
    <2>1. CASE down'[i] = down[i]
        BY <2>1 DEF Types
    <2>2. CASE down'[i] = Append(down[i], a)
        <3>1. IsSeq(down'[i]) /\ Len(down'[i]) = Len(down[i]) + 1 /\ Len(down[i]) \in Nat
            BY <1>1, <2>2, AppendIs, SeqIs
        <3>2. \A k \in 1..Len(down[i]) : down'[i][k] = down[i][k]
            BY <1>1, <2>2, AppendIs
        <3>3. down'[i][Len(down[i]) + 1] = a
            BY <1>1, <2>2, AppendIs
        <3>4. ASSUME NEW k \in 1..Len(down'[i]) PROVE IsMessage(down'[i][k])
            <4>1. k \in 1..Len(down[i]) \/ k = Len(down[i]) + 1
                BY <3>1
            <4> QED BY <1>1, <3>2, <3>3, <4>1 DEF Types
        <3> QED BY <3>1, <3>4
    <2> QED BY <1>2, <2>1, <2>2
<1>4. \A j \in Sockets :
          IsSeq(down'[j]) /\ \A k \in 1..Len(down'[j]) : IsMessage(down'[j][k])
    BY <1>3, AnsweredIs DEF Types
<1>5. raced' \in BOOLEAN /\ (~raced' => IsSeq(posted'))
    BY AnsweredIs DEF Types
<1>6. IsWorld(world)'
    BY AnsweredIs DEF Types
<1>7. Types'
    BY <1>4, <1>5, <1>6, AnsweredIs DEF Types
<1>8. i <= socket
    BY AnsweredIs, SocketIs DEF Line
<1>9. i = socket => near[socket] # "connecting"
    BY AnsweredIs, SocketIs DEF Line
<1>10. Line'
    BY <1>8, <1>9, AnsweredIs, SocketIs DEF Line
<1>11. NothingOutlives'
    BY AnsweredIs DEF NothingOutlives, Open
<1> QED BY <1>7, <1>10, <1>11

(* What a page does with the next message *)
LEMMA MessageIs ==
    ASSUME ConnInv, NEW i \in Sockets, Message(i)
    PROVE  LET f == Head(down[i]).frame
           IN  /\ i = socket /\ socket # 0 /\ near[socket] = "open" /\ status = "connected"
               /\ down[i] # <<>> /\ down' = [down EXCEPT ![i] = Tail(@)]
               /\ IsSeq(down[i]) /\ 1 \in 1..Len(down[i]) /\ Head(down[i]) = down[i][1]
               /\ IsMessage(down[i][1]) /\ f = down[i][1].frame
               /\ f.kind = "d" => ApplyFullDump(f)
               /\ f.kind = "l" => ApplyLog(f)
               /\ f.kind \notin {"d", "l"} => ApplyModules(f)
               /\ UNCHANGED <<world, posted, raced, history, grant, near, far, up, socket,
                              status, beating, events>>
<1> USE DEF ConnInv
<1> DEFINE f == Head(down[i]).frame
<1>1. /\ near[i] = "open" /\ down[i] # <<>> /\ down' = [down EXCEPT ![i] = Tail(@)]
      /\ UNCHANGED <<world, posted, raced, history, grant, near, far, up, socket,
                     status, beating, events>>
    BY DEF Message, Open, server
<1>2. (CASE f.kind = "d" -> ApplyFullDump(f)
         [] f.kind = "l" -> ApplyLog(f)
         [] OTHER        -> ApplyModules(f))
    BY DEF Message
<1>3. /\ f.kind = "d" => ApplyFullDump(f)
      /\ f.kind = "l" => ApplyLog(f)
      /\ f.kind \notin {"d", "l"} => ApplyModules(f)
    <2> HIDE DEF f
    <2> QED BY <1>2
<1>4. i = socket /\ socket # 0
    BY <1>1, OnlyThisSocket
<1>5. status = "connected"
    BY <1>1, <1>4 DEF Line
<1>6. IsSeq(down[i]) /\ 1 \in 1..Len(down[i]) /\ Head(down[i]) = down[i][1]
    BY <1>1, SeqIs DEF Types
<1>7. IsMessage(down[i][1])
    BY <1>6 DEF Types
<1> QED BY <1>1, <1>3, <1>4, <1>5, <1>6, <1>7

LEMMA ReadIs ==
    ASSUME ConnInv, NEW i \in Sockets, Message(i)
    PROVE  /\ down' = [j \in Sockets |-> down'[j]]
           /\ \A j \in Sockets : j # i => down'[j] = down[j]
           /\ IsSeq(down'[i]) /\ Len(down[i]) \in Nat /\ Len(down'[i]) = Len(down[i]) - 1
           /\ \A k \in 1..Len(down'[i]) : down'[i][k] = down[i][k + 1] /\ k + 1 \in 1..Len(down[i])
<1> USE DEF ConnInv
<1>1. IsSeq(down[i]) /\ down[i] # <<>> /\ down' = [down EXCEPT ![i] = Tail(@)]
    BY MessageIs
<1>2. /\ down' = [j \in Sockets |-> down'[j]]
      /\ \A j \in Sockets : j # i => down'[j] = down[j]
      /\ down'[i] = Tail(down[i])
    BY <1>1 DEF Types
<1>3. /\ IsSeq(Tail(down[i])) /\ Len(down[i]) \in Nat
      /\ Len(Tail(down[i])) = Len(down[i]) - 1
    BY <1>1, TailIs, SeqIs
<1>4. \A k \in 1..(Len(down[i]) - 1) : Tail(down[i])[k] = down[i][k + 1]
    BY <1>1, TailIs
<1> QED BY <1>2, <1>3, <1>4

LEMMA ShownIs ==
    ASSUME ConnInv, NEW i \in Sockets, Message(i)
    PROVE  /\ logs' \in Logs /\ seenLogs' = Len(logs') /\ pending' \in BOOLEAN
           /\ (Head(down[i]).frame.kind \notin {"d", "l"} => logs' = logs)
<1> DEFINE f == Head(down[i]).frame
<1>1. IsMessage(down[i][1]) /\ f = down[i][1].frame
    BY MessageIs
<1>2. CASE f.kind = "d"
    <2>1. ApplyFullDump(f) /\ f.body.logs \in Logs
        BY <1>1, <1>2, MessageIs DEF IsMessage
    <2> HIDE DEF f
    <2> QED BY <1>2, <2>1 DEF ApplyFullDump, ShowNews, f
<1>3. CASE f.kind = "l"
    <2>1. ApplyLog(f) /\ f.body \in Int
        BY <1>1, <1>3, MessageIs DEF IsMessage
    <2>2. logs \in Logs /\ pending \in BOOLEAN
        BY DEF ConnInv, Types
    <2> HIDE DEF f
    <2> QED BY <1>3, <2>1, <2>2, LoggedIs DEF ApplyLog, ShowNews, f
<1>4. CASE f.kind \notin {"d", "l"}
    <2>1. ApplyModules(f)
        BY <1>4, MessageIs
    <2>2. logs' = logs /\ seenLogs' = seenLogs /\ pending' = pending
        BY <2>1 DEF ApplyModules
    <2> QED BY <2>2 DEF ConnInv, Types
<1> QED BY <1>2, <1>3, <1>4

LEMMA MessageStays ==
    ASSUME ConnInv, NEW i \in Sockets, Message(i)
    PROVE  ConnInv'
<1>1. \A k \in 1..Len(down'[i]) : IsMessage(down'[i][k])
    BY ReadIs DEF ConnInv, Types
<1>2. \A j \in Sockets :
          IsSeq(down'[j]) /\ \A k \in 1..Len(down'[j]) : IsMessage(down'[j][k])
    BY <1>1, ReadIs DEF ConnInv, Types
<1>3. UNCHANGED <<world, posted, raced, history, near, far, up, socket, status, beating, events>>
    BY MessageIs
<1>4. Types'
    BY <1>2, <1>3, ReadIs, ShownIs DEF ConnInv, Types
<1>5. i = socket /\ near[socket] = "open" /\ status = "connected"
    BY MessageIs
<1>6. Line'
    BY <1>3, <1>5, ReadIs, SocketIs DEF ConnInv, Line
<1>7. NothingOutlives'
    BY <1>3, <1>5 DEF ConnInv, NothingOutlives, Open
<1> QED BY <1>4, <1>6, <1>7 DEF ConnInv
LEMMA ServerStays ==
    ASSUME ConnInv, Server
    PROVE  ConnInv'
<1> USE DEF ConnInv
<1>1. Silent /\ ServerTypes
    BY ServerSpeaks
<1> DEFINE WireFits ==
               /\ down' = [i \in Sockets |-> down'[i]]
               /\ \A i \in Sockets :
                     IsSeq(down'[i]) /\ \A k \in 1..Len(down'[i]) : IsMessage(down'[i][k])
               /\ \A i \in Sockets : i > socket => down'[i] = down[i]
               /\ socket # 0 /\ near[socket] = "connecting" =>
                     \A k \in 1..Len(down'[socket]) : down'[socket][k].frame.kind # "d"
<1>2. WireFits
    <2>1. CASE down' = down
        BY <2>1 DEF Types, Line
    <2>2. ASSUME NEW sent, Spoken(sent) PROVE WireFits
        <3>1. Broadcast(sent) /\ IsSeq(sent) /\ Len(sent) \in Nat
            BY <2>2, SeqIs DEF Spoken
        <3>2. ASSUME NEW i \in Sockets, NEW k \in 1..Len(down'[i]), i \in Reached,
                     k \notin 1..Len(down[i])
              PROVE  \E n \in 1..Len(sent) : down'[i][k].frame = sent[n].frame
            <4>1. Len(down[i]) \in Nat /\ Len(down'[i]) = Len(down[i]) + Len(sent)
                BY <3>1, <3>2, Heard, SeqIs DEF Types
            <4>2. PICK n \in 1..Len(sent) : k = Len(down[i]) + n
                <5>1. k - Len(down[i]) \in 1..Len(sent)
                    BY <3>1, <3>2, <4>1
                <5>2. k = Len(down[i]) + (k - Len(down[i]))
                    BY <4>1
                <5> QED BY <5>1, <5>2
            <4>3. down'[i][Len(down[i]) + n].frame = sent[n].frame
                BY <3>1, <3>2, Heard
            <4> QED BY <4>2, <4>3
        <3>3. ASSUME NEW i \in Sockets, NEW k \in 1..Len(down'[i])
              PROVE  IsMessage(down'[i][k])
            <4>1. CASE i \notin Reached
                BY <3>1, <3>3, <4>1, Heard DEF Types
            <4>2. CASE i \in Reached /\ k \in 1..Len(down[i])
                BY <3>1, <4>2, Heard DEF Types
            <4>3. CASE i \in Reached /\ k \notin 1..Len(down[i])
                <5>1. PICK n \in 1..Len(sent) : down'[i][k].frame = sent[n].frame
                    BY <3>2, <3>3, <4>3
                <5> QED BY <2>2, <5>1 DEF Spoken, IsMessage
            <4> QED BY <4>1, <4>2, <4>3
        <3>4. \A i \in Sockets : IsSeq(down'[i])
            BY <3>1, Heard DEF Types
        <3>5. \A i \in Sockets : i > socket => down'[i] = down[i]
            BY <3>1, Heard, SocketIs DEF Line, Reached
        <3>6. ASSUME socket # 0, near[socket] = "connecting", NEW k \in 1..Len(down'[socket])
              PROVE  down'[socket][k].frame.kind # "d"
            <4>1. socket \in Sockets
                BY <3>6, SocketIs
            <4>2. CASE socket \notin Reached
                BY <3>1, <3>6, <4>1, <4>2, Heard DEF Line
            <4>3. CASE socket \in Reached /\ k \in 1..Len(down[socket])
                BY <3>1, <3>6, <4>1, <4>3, Heard DEF Line
            <4>4. CASE socket \in Reached /\ k \notin 1..Len(down[socket])
                <5>1. PICK n \in 1..Len(sent) : down'[socket][k].frame = sent[n].frame
                    BY <3>2, <3>6, <4>1, <4>4
                <5> QED BY <2>2, <5>1 DEF Spoken
            <4> QED BY <4>2, <4>3, <4>4
        <3> QED BY <3>1, <3>3, <3>4, <3>5, <3>6, HeardShape
    <2> QED BY <2>1, <2>2, ServerSpeaks
<1>3. UNCHANGED <<near, far, up, socket, status, beating, store, logs, session, pending,
                  seenLogs>>
    BY <1>1 DEF Silent, data, shell
<1>4. Types'
    BY <1>1, <1>2, <1>3 DEF Types, ServerTypes
<1>5. Line'
    BY <1>2, <1>3 DEF Line
<1>6. NothingOutlives'
    BY <1>3 DEF NothingOutlives, Open
<1> QED BY <1>4, <1>5, <1>6

LEMMA ConnStays ==
    ASSUME ConnInv, ~MayOverlap, [Next]_vars
    PROVE  ConnInv'
<1>1. CASE Browser
    BY <1>1, ConnectStays, DisconnectStays, SendStays, SelectViewStays DEF Browser
<1>2. ASSUME NEW i \in Sockets, Network(i) PROVE ConnInv'
    BY <1>2, AcceptStays, OpenedStays, ClosedStays, SocketDisconnectedStays,
       ProcessTextMessageStays, MessageStays DEF Network
<1>3. CASE Server
    BY <1>3, ServerStays
<1>4. CASE UNCHANGED vars
    BY <1>4 DEF ConnInv, Types, Line, NothingOutlives, Open, vars, server, wire, data, shell
<1> QED BY <1>1, <1>2, <1>3, <1>4 DEF Next
-----------------------------------------------------------------------------
(* The ways a step can change what is under way to the page                  *)

(* The connection is a new one, or it ended. *)
FreshStep == Wire' = <<>> /\ pending'

(* Nothing is sent or read, and the server does nothing a live page hears of. *)
QuietStep ==
    /\ socket' = socket /\ Wire' = Wire /\ UNCHANGED <<data, seenLogs>>
    /\ raced => raced'
    /\ Live' => Live /\ UNCHANGED <<world, posted, history>>
    /\ near'[socket] = "connecting" => near[socket] = "connecting"
    /\ Known' => \/ Known /\ grant' = grant
                 \/ pending /\ \A k \in 1..Len(Wire) : ~IsDump(k)

PushStep ==
    /\ socket' = socket /\ Wire' = Wire /\ Silent
    /\ \E m \in Modules, p \in Props : PushInThread(m, p)

SpokenStep(sent) == Spoken(sent) /\ Silent /\ socket \in Reached

AnswerStep == socket \in Reached /\ ProcessTextMessage(socket)

LEMMA LastIsIn == \A n \in Nat : n # 0 => n \in 1..n
OBVIOUS

LEMMA QuietCases ==
    ASSUME ConnInv, ConnInv', Sayings, socket # 0, socket' = socket,
           Wire' = Wire, UNCHANGED <<data, seenLogs>>, raced => raced',
           \/ ~Open(socket)'
           \/ ~Open(socket) /\ near[socket] = "connecting"
           \/ socket \notin far'
           \/ /\ UNCHANGED <<near, world, posted, history>> /\ far' \subseteq far
              /\ grant' = "" \/ (far' = far /\ grant' = grant)
           \/ near' = near /\ far' # {socket} /\ UNCHANGED <<world, posted, history, far>>,
           near'[socket] = "connecting" => near[socket] = "connecting"
    PROVE  QuietStep
<1>1. Informed' <=> Informed
    BY DEF data, Informed
<1>2. Len(Wire) \in Nat
    BY SocketIs, SeqIs DEF ConnInv, Types, Wire
<1>3. Live' => FollowsAt(Len(Wire))
    BY <1>1 DEF Live, FollowsAt
<1>4. CASE ~Open(socket)'
    BY <1>4 DEF QuietStep, Live, Known
<1>5. CASE ~Open(socket) /\ near[socket] = "connecting"
    <2>1. pending
        BY <1>5 DEF ConnInv, Line, NothingOutlives
    <2>2. ~FollowsAt(Len(Wire))
        <3>1. CASE Len(Wire) = 0
            BY <2>1, <3>1 DEF FollowsAt, Informed
        <3>2. CASE Len(Wire) # 0
            <4>1. \A n \in Nat : n # 0 => n \in 1..n
                BY LastIsIn
            <4>2. \A k \in 1..Len(Wire) : ~FollowsAt(k)
                BY <1>5 DEF Sayings
            <4> QED BY <1>2, <3>2, <4>1, <4>2
        <3> QED BY <3>1, <3>2
    <2>3. \A k \in 1..Len(Wire) : ~IsDump(k)
        BY <1>5 DEF ConnInv, Line, Wire, IsDump
    <2> QED BY <1>3, <2>1, <2>2, <2>3 DEF QuietStep
<1>6. CASE socket \notin far'
    BY <1>6 DEF QuietStep, Live, Known
<1>7. CASE /\ UNCHANGED <<near, world, posted, history>> /\ far' \subseteq far
           /\ grant' = "" \/ (far' = far /\ grant' = grant)
    <2>1. Live' => Live
        BY <1>3, <1>7 DEF Live, Open
    <2>2. Known' => Known /\ grant' = grant
        BY <1>7 DEF Known, Open
    <2> QED BY <1>7, <2>1, <2>2 DEF QuietStep
<1>8. CASE near' = near /\ far' # {socket} /\ UNCHANGED <<world, posted, history, far>>
    BY <1>3, <1>8 DEF QuietStep, Live, Known, Open
<1> QED BY <1>4, <1>5, <1>6, <1>7, <1>8

LEMMA ServerRaces ==
    ASSUME Types, Server
    PROVE  raced => raced'
<1>1. IsWorld(world)
    BY DEF Types
<1> QED BY <1>1, ServerCases, AnnouncementIs, PushInThreadIs, LogErrorIs, PostedDeliveredIs

LEMMA WireSteps ==
    ASSUME ConnInv, ConnInv', Sayings, ~MayOverlap, [Next]_vars, socket' # 0
    PROVE  \/ FreshStep \/ QuietStep \/ PushStep \/ AnswerStep
           \/ Message(socket) /\ socket \in Sockets
           \/ Server /\ ~PushStep /\ socket \in Reached /\ Silent
<1>1. CASE Connect
    <2>1. socket' = socket + 1 /\ down' = down /\ pending'
        BY <1>1 DEF Connect, Reset
    <2>2. socket' \in Sockets /\ socket' > socket
        BY <2>1, SocketIs DEF ConnInv, Types, Sockets
    <2>3. down'[socket'] = <<>>
        BY <2>1, <2>2 DEF ConnInv, Line
    <2> QED BY <2>1, <2>3 DEF FreshStep, Wire
<1>2. ASSUME NEW i \in Sockets, Closed(i) PROVE FreshStep
    <2>1. near[i] \in {"connecting", "open", "closing"} /\ down' = [down EXCEPT ![i] = <<>>]
          /\ pending' /\ socket' = socket
        BY <1>2 DEF Closed, Ends, Reset
    <2>2. i = socket
        BY <2>1, OnlyThisSocket DEF ConnInv
    <2>3. down'[i] = <<>>
        BY <2>1 DEF ConnInv, Types
    <2> QED BY <2>1, <2>2, <2>3 DEF FreshStep, Wire
<1>3. CASE Disconnect
    <2>1. socket # 0 /\ UNCHANGED <<server, far, down, socket, data, shell>>
          /\ near' = IF near[socket] = "closed" THEN near ELSE [near EXCEPT ![socket] = "closing"]
        BY <1>3 DEF Disconnect
    <2>2. near'[socket] = "closing" \/ near'[socket] = "closed"
        BY <2>1, SocketIs DEF ConnInv, Types
    <2>3. ~Open(socket)' /\ near'[socket] # "connecting"
        BY <2>1, <2>2 DEF Open
    <2> QED BY <2>1, <2>3, QuietCases DEF Wire, server, shell
<1>4. ASSUME NEW c, Send(c) PROVE QuietStep
    BY <1>4, QuietCases DEF Send, Wire, server, shell
<1>5. ASSUME NEW v, SelectView(v) PROVE QuietStep
    BY <1>5, QuietCases DEF SelectView, Wire, server, wire
<1>6. ASSUME NEW i \in Sockets, Accept(i) PROVE QuietStep
    <2>1. near[i] = "connecting" /\ UNCHANGED <<raced, near, down, socket, data, shell>>
        BY <1>6 DEF Accept
    <2>2. i = socket
        BY <2>1, OnlyThisSocket DEF ConnInv
    <2> QED BY <2>1, <2>2, QuietCases DEF Wire, Open, shell
<1>7. ASSUME NEW i \in Sockets, Opened(i) PROVE QuietStep
    <2>1. near[i] = "connecting" /\ UNCHANGED <<raced, down, socket, data, shell>>
          /\ near' = [near EXCEPT ![i] = "open"]
        BY <1>7 DEF Opened, server
    <2>2. i = socket
        BY <2>1, OnlyThisSocket DEF ConnInv
    <2> QED BY <2>1, <2>2, QuietCases DEF Wire, Open, shell
<1>8. ASSUME NEW i \in Sockets, SocketDisconnected(i) PROVE QuietStep
    <2>1. /\ UNCHANGED <<world, posted, raced, history, near, down, socket, data, shell>>
          /\ far' = far \ {i} /\ grant' = ""
        BY <1>8 DEF SocketDisconnected
    <2> QED BY <2>1, QuietCases DEF Wire, shell
<1>9. ASSUME NEW i \in Sockets, ProcessTextMessage(i) PROVE QuietStep \/ AnswerStep
    <2>1. /\ UNCHANGED <<world, posted, history, near, far, socket, data, shell>>
          /\ raced' = (raced \/ posted # <<>>) /\ i \in far
          /\ \A j \in Sockets : j # i => down'[j] = down[j]
          /\ i \notin Reached => down' = down
          /\ up[i] # <<>>
        BY <1>9, AnsweredIs DEF ConnInv, ProcessTextMessage
    <2>2. socket \in Sockets
        BY <2>1, SocketIs DEF ConnInv
    <2>3. raced => raced'
        BY <2>1
    <2>4. CASE i # socket
        <3>1. Wire' = Wire /\ socket' = socket /\ UNCHANGED <<data, seenLogs>>
            BY <2>1, <2>2, <2>4 DEF Wire, shell
        <3>2. far' # {socket} /\ near' = near /\ UNCHANGED <<world, posted, history, far>>
            BY <2>1, <2>4
        <3>3. socket # 0
            BY <3>1
        <3> QED BY <2>3, <3>1, <3>2, <3>3, QuietCases
    <2>5. CASE i = socket /\ i \notin Reached
        <3>1. near[socket] # "connecting"
            BY <2>1, <2>5 DEF ConnInv, Line
        <3>2. ~Open(socket)'
            BY <2>1, <2>5 DEF Reached, Open
        <3> QED BY <2>1, <2>3, <2>5, <3>1, <3>2, QuietCases DEF Wire, shell
    <2> QED BY <1>9, <2>4, <2>5 DEF AnswerStep
<1>10. ASSUME NEW i \in Sockets, Message(i) PROVE Message(socket) /\ socket \in Sockets
    <2>1. i = socket
        BY <1>10, MessageIs
    <2> QED BY <1>10, <2>1
<1>11. CASE Server
    <2>1. Silent
        BY <1>11, ServerSpeaks DEF ConnInv
    <2>2. socket \in Sockets /\ socket' = socket
        BY <2>1, SocketIs DEF ConnInv, Silent
    <2>3. raced => raced'
        BY <1>11, ServerRaces DEF ConnInv
    <2>4. CASE ~PushStep /\ socket \notin Reached
        <3>1. down'[socket] = down[socket]
            BY <1>11, <2>2, <2>4, ServerSpeaks, Heard DEF ConnInv, Spoken
        <3>2. socket \notin far \/ ~Open(socket)
            BY <2>4 DEF Reached, Open
        <3> QED BY <2>1, <2>2, <2>3, <3>1, <3>2, QuietCases DEF Silent, Wire, Open, shell
    <2>5. CASE PushStep
        BY <2>5
    <2>6. CASE ~PushStep /\ socket \in Reached
        BY <1>11, <2>1, <2>6
    <2> QED BY <2>4, <2>5, <2>6
<1>12. CASE UNCHANGED vars
    BY <1>12, QuietCases DEF vars, Wire, server, wire, shell
<1> QED BY <1>1, <1>2, <1>3, <1>4, <1>5, <1>6, <1>7, <1>8, <1>9, <1>10, <1>11, <1>12
        DEF Next, Browser, Network
-----------------------------------------------------------------------------
(* What is under way after a step                                            *)

LEMMA WireIs ==
    ASSUME ConnInv, socket # 0
    PROVE  IsSeq(Wire) /\ Len(Wire) \in Nat /\ socket \in Sockets /\ DOMAIN Wire = 1..Len(Wire)
BY SocketIs, SeqIs DEF ConnInv, Types, Wire

(* The page is informed after the messages under way iff Follows() says so. *)
LEMMA FollowsIs ==
    ASSUME ConnInv, socket \in Reached, socket # 0
    PROVE  Follows(socket) <=> FollowsAt(Len(Wire))
<1>1. IsSeq(Wire) /\ Len(Wire) \in Nat
    BY WireIs
<1>2. near[socket] \in {"connecting", "open"}
    BY DEF Reached
<1>3. ~Open(socket) => pending
    BY <1>2 DEF Open, ConnInv, Line, NothingOutlives
<1>4. CASE Wire = <<>>
    <2>1. Len(Wire) = 0
        BY <1>4
    <2> QED BY <1>3, <1>4, <2>1 DEF Follows, FollowsAt, Informed, Wire
<1>5. CASE Wire # <<>>
    <2>1. Len(Wire) # 0
        BY <1>1, <1>5, SeqIs
    <2> QED BY <1>5, <2>1 DEF Follows, FollowsAt, Wire, Last
<1> QED BY <1>4, <1>5

LEMMA SpokenWire ==
    ASSUME ConnInv, NEW sent, SpokenStep(sent), socket # 0
    PROVE  /\ IsSeq(sent) /\ Len(sent) \in Nat
           /\ Len(Wire') = Len(Wire) + Len(sent)
           /\ \A k \in 1..Len(Wire) : Wire'[k] = Wire[k]
           /\ \A k \in 1..Len(sent) :
                 LET x == Wire'[Len(Wire) + k]
                 IN  x.frame = sent[k].frame /\ (x.says # {} <=> FollowsAt(Len(Wire)))
           /\ \A k \in 1..Len(sent) : sent[k].frame.kind # "d"
<1>1. Broadcast(sent) /\ IsSeq(sent) /\ socket \in Reached /\ socket' = socket
      /\ \A k \in 1..Len(sent) : sent[k].frame.kind # "d"
    BY DEF SpokenStep, Spoken, Silent
<1>2. Len(sent) \in Nat /\ socket \in Sockets /\ Wire' = down'[socket] /\ Wire = down[socket]
    BY <1>1, SeqIs, WireIs DEF Wire
<1>3. Follows(socket) <=> FollowsAt(Len(Wire))
    BY <1>1, FollowsIs
<1>4. /\ Len(down'[socket]) = Len(down[socket]) + Len(sent)
      /\ \A k \in 1..Len(down[socket]) : down'[socket][k] = down[socket][k]
      /\ \A k \in 1..Len(sent) :
                 LET x == down'[socket][Len(down[socket]) + k]
                 IN  x.frame = sent[k].frame /\ (x.says # {} <=> Follows(socket))
    BY <1>1, <1>2, Heard DEF ConnInv
<1> QED BY <1>1, <1>2, <1>3, <1>4

LEMMA AnsweredWire ==
    ASSUME ConnInv, AnswerStep, socket # 0
    PROVE  /\ Len(Wire') = Len(Wire) + 1
           /\ \A k \in 1..Len(Wire) : Wire'[k] = Wire[k]
           /\ Wire'[Len(Wire) + 1] = Answer(grant')
           /\ near[socket] = "open"
<1>1. socket \in Sockets /\ IsSeq(Wire)
    BY WireIs
<1>2. Wire' = Append(Wire, Answer(grant')) /\ up[socket] # <<>> /\ socket \in Reached
    BY <1>1, AnsweredIs DEF AnswerStep, Wire, ConnInv
<1> HIDE DEF Answer
<1>3. near[socket] = "open"
    BY <1>2 DEF Reached, ConnInv, Line
<1> QED BY <1>1, <1>2, <1>3, AppendIs

LEMMA ReadWire ==
    ASSUME ConnInv, Message(socket), socket \in Sockets
    PROVE  /\ Len(Wire) \in Nat /\ Len(Wire') = Len(Wire) - 1
           /\ \A k \in 1..Len(Wire') : Wire'[k] = Wire[k + 1] /\ k + 1 \in 1..Len(Wire)
           /\ 1 \in 1..Len(Wire) /\ socket # 0 /\ socket' = socket /\ near' = near
           /\ near[socket] = "open"
<1>1. socket' = socket /\ near' = near /\ near[socket] = "open" /\ 1 \in 1..Len(down[socket])
      /\ socket # 0
    BY MessageIs
<1> QED BY <1>1, ReadIs DEF Wire

(* Reading a message makes the page as informed as it was foreseen. *)
LEMMA ReadInforms ==
    ASSUME ConnInv, Sayings, Message(socket), socket \in Sockets
    PROVE  Informed' <=> FollowsAt(1)
<1> DEFINE f == Wire[1].frame
<1>1. 1 \in 1..Len(Wire) /\ socket # 0
    BY ReadWire
<1>2. f = Head(down[socket]).frame
    BY MessageIs DEF Wire
<1>3. CASE IsDump(1)
    <2>1. FollowsAt(1) <=> f.body.grant # "-1"
        BY <1>1, <1>3 DEF Sayings
    <2>2. ApplyFullDump(f)
        BY <1>2, <1>3, MessageIs DEF IsDump
    <2>3. session' = f.body.grant /\ pending' = FALSE
        BY <2>2 DEF ApplyFullDump
    <2> QED BY <2>1, <2>3 DEF Informed
<1>4. CASE ~IsDump(1)
    <2>1. FollowsAt(1) <=> FollowsAt(1 - 1)
        BY <1>1, <1>4 DEF Sayings
    <2>2. FollowsAt(1 - 1) <=> Informed
        BY DEF FollowsAt
    <2>3. ApplyLog(f) \/ ApplyModules(f)
        BY <1>2, <1>4, MessageIs DEF IsDump
    <2>4. session' = session /\ pending' = pending
        BY <2>3 DEF ApplyLog, ApplyModules
    <2> QED BY <2>1, <2>2, <2>4 DEF Informed
<1> QED BY <1>3, <1>4

LEMMA SpokenSayings ==
    ASSUME ConnInv, Sayings, NEW sent, SpokenStep(sent), socket # 0
    PROVE  Sayings'
<1> SUFFICES ASSUME socket' # 0, NEW k \in 1..Len(Wire')
             PROVE  /\ IsDump(k)' => /\ FollowsAt(k)' <=> Wire'[k].frame.body.grant # "-1"
                                     /\ ~FollowsAt(k)' => Wire'[k].frame.body.logs = <<>>
                    /\ ~IsDump(k)' => (FollowsAt(k)' <=> FollowsAt(k - 1)')
                    /\ near'[socket'] = "connecting" => ~FollowsAt(k)'
    BY DEF Sayings
<1>1. near' = near /\ socket' = socket /\ (Informed' <=> Informed)
    BY DEF SpokenStep, Silent, data, Informed
<1>2. Len(Wire) \in Nat /\ Len(sent) \in Nat /\ Len(Wire') = Len(Wire) + Len(sent)
    BY WireIs, SpokenWire
<1>3. CASE k \in 1..Len(Wire)
    <2>1. Wire'[k] = Wire[k] /\ (k - 1 # 0 => k - 1 \in 1..Len(Wire))
        BY <1>2, <1>3, SpokenWire
    <2>2. k - 1 # 0 => Wire'[k - 1] = Wire[k - 1]
        BY <2>1, SpokenWire
    <2>3. (FollowsAt(k)' <=> FollowsAt(k)) /\ (FollowsAt(k - 1)' <=> FollowsAt(k - 1))
          /\ (IsDump(k)' <=> IsDump(k))
        BY <1>1, <2>1, <2>2 DEF FollowsAt, IsDump
    <2> QED BY <1>1, <1>3, <2>1, <2>3 DEF Sayings
<1>4. CASE k \notin 1..Len(Wire)
    <2>1. PICK n \in 1..Len(sent) : k = Len(Wire) + n
        <3>1. k - Len(Wire) \in 1..Len(sent) /\ k = Len(Wire) + (k - Len(Wire))
            BY <1>2, <1>4
        <3> QED BY <3>1
    <2>2. Wire'[k].frame = sent[n].frame /\ (Wire'[k].says # {} <=> FollowsAt(Len(Wire)))
        BY <2>1, SpokenWire
    <2>3. ~IsDump(k)'
        BY <2>2, SpokenWire DEF IsDump
    <2>4. FollowsAt(k)' <=> FollowsAt(Len(Wire))
        BY <1>2, <2>1, <2>2 DEF FollowsAt
    <2>5. FollowsAt(k - 1)' <=> FollowsAt(Len(Wire))
        <3>1. CASE n = 1
            <4>1. k - 1 = Len(Wire)
                BY <1>2, <2>1, <3>1
            <4>2. Len(Wire) # 0 => Wire'[Len(Wire)] = Wire[Len(Wire)]
                BY <1>2, SpokenWire
            <4> QED BY <1>1, <4>1, <4>2 DEF FollowsAt
        <3>2. CASE n # 1
            <4>1. n - 1 \in 1..Len(sent) /\ k - 1 = Len(Wire) + (n - 1) /\ k - 1 # 0
                BY <1>2, <2>1, <3>2
            <4>2. Wire'[k - 1].says # {} <=> FollowsAt(Len(Wire))
                BY <4>1, SpokenWire
            <4> QED BY <4>1, <4>2 DEF FollowsAt
        <3> QED BY <3>1, <3>2
    <2>6. near[socket] = "connecting" => ~FollowsAt(Len(Wire))
        <3>1. CASE Len(Wire) = 0
            BY <3>1 DEF FollowsAt, Informed, ConnInv, Line, NothingOutlives
        <3>2. CASE Len(Wire) # 0
            <4>1. \A m \in Nat : m # 0 => m \in 1..m
                BY LastIsIn
            <4>2. near[socket] = "connecting" => \A m \in 1..Len(Wire) : ~FollowsAt(m)
                BY DEF Sayings
            <4> QED BY <1>2, <3>2, <4>1, <4>2
        <3> QED BY <3>1, <3>2
    <2> QED BY <1>1, <2>3, <2>4, <2>5, <2>6
<1> QED BY <1>3, <1>4
LEMMA AnsweredSayings ==
    ASSUME ConnInv, Sayings, AnswerStep, socket # 0
    PROVE  Sayings'
<1> SUFFICES ASSUME socket' # 0, NEW k \in 1..Len(Wire')
             PROVE  /\ IsDump(k)' => /\ FollowsAt(k)' <=> Wire'[k].frame.body.grant # "-1"
                                     /\ ~FollowsAt(k)' => Wire'[k].frame.body.logs = <<>>
                    /\ ~IsDump(k)' => (FollowsAt(k)' <=> FollowsAt(k - 1)')
                    /\ near'[socket'] = "connecting" => ~FollowsAt(k)'
    BY DEF Sayings
<1>1. near' = near /\ socket' = socket /\ (Informed' <=> Informed) /\ near[socket] = "open"
    BY AnsweredIs, AnsweredWire, WireIs DEF AnswerStep, ConnInv, Informed
<1>2. Len(Wire) \in Nat /\ Len(Wire') = Len(Wire) + 1
    BY WireIs, AnsweredWire
<1>3. CASE k \in 1..Len(Wire)
    <2>1. Wire'[k] = Wire[k] /\ (k - 1 # 0 => k - 1 \in 1..Len(Wire))
        BY <1>2, <1>3, AnsweredWire
    <2>2. k - 1 # 0 => Wire'[k - 1] = Wire[k - 1]
        BY <2>1, AnsweredWire
    <2>3. (FollowsAt(k)' <=> FollowsAt(k)) /\ (FollowsAt(k - 1)' <=> FollowsAt(k - 1))
          /\ (IsDump(k)' <=> IsDump(k))
        BY <1>1, <2>1, <2>2 DEF FollowsAt, IsDump
    <2> QED BY <1>1, <1>3, <2>1, <2>3 DEF Sayings
<1>4. CASE k \notin 1..Len(Wire)
    <2>1. k = Len(Wire) + 1 /\ k # 0
        BY <1>2, <1>4
    <2>2. Wire'[k] = Answer(grant')
        BY <2>1, AnsweredWire
    <2>3. /\ Answer(grant').frame.kind = "d" /\ Answer(grant').frame.body.grant = grant'
          /\ Answer(grant').says # {} <=> grant' # "-1"
          /\ grant' = "-1" => Answer(grant').frame.body.logs = <<>>
        BY AnswerIs DEF ConnInv
    <2> HIDE DEF Answer
    <2> QED BY <1>1, <2>1, <2>2, <2>3 DEF FollowsAt, IsDump
<1> QED BY <1>3, <1>4

LEMMA ReadSayings ==
    ASSUME ConnInv, Sayings, Message(socket), socket \in Sockets
    PROVE  Sayings'
<1> SUFFICES ASSUME socket' # 0, NEW k \in 1..Len(Wire')
             PROVE  /\ IsDump(k)' => /\ FollowsAt(k)' <=> Wire'[k].frame.body.grant # "-1"
                                     /\ ~FollowsAt(k)' => Wire'[k].frame.body.logs = <<>>
                    /\ ~IsDump(k)' => (FollowsAt(k)' <=> FollowsAt(k - 1)')
                    /\ near'[socket'] = "connecting" => ~FollowsAt(k)'
    BY DEF Sayings
<1>1. /\ Wire'[k] = Wire[k + 1] /\ k + 1 \in 1..Len(Wire) /\ k \in Nat \ {0}
      /\ socket' = socket /\ near' = near /\ near[socket] = "open" /\ socket # 0
    BY ReadWire
<1>2. k - 1 # 0 => Wire'[k - 1] = Wire[k]
    <2> SUFFICES ASSUME k - 1 # 0 PROVE Wire'[k - 1] = Wire[k]
        OBVIOUS
    <2>1. k - 1 \in 1..Len(Wire') /\ (k - 1) + 1 = k
        BY <1>1, ReadWire
    <2> QED BY <2>1, ReadWire
<1>3. FollowsAt(k)' <=> FollowsAt(k + 1)
    BY <1>1 DEF FollowsAt
<1>4. FollowsAt(k - 1)' <=> FollowsAt(k)
    <2>1. CASE k - 1 = 0
        <3>1. k = 1
            BY <1>1, <2>1
        <3>2. FollowsAt(k - 1)' <=> Informed'
            BY <2>1 DEF FollowsAt
        <3> QED BY <3>1, <3>2, ReadInforms
    <2>2. CASE k - 1 # 0
        BY <1>1, <1>2, <2>2 DEF FollowsAt
    <2> QED BY <2>1, <2>2
<1>5. (k + 1) - 1 = k
    BY <1>1
<1>6. IsDump(k)' <=> IsDump(k + 1)
    BY <1>1 DEF IsDump
<1>7. /\ IsDump(k + 1) => /\ FollowsAt(k + 1) <=> Wire[k + 1].frame.body.grant # "-1"
                          /\ ~FollowsAt(k + 1) => Wire[k + 1].frame.body.logs = <<>>
      /\ ~IsDump(k + 1) => (FollowsAt(k + 1) <=> FollowsAt(k))
    BY <1>1, <1>5 DEF Sayings
<1> QED BY <1>1, <1>3, <1>4, <1>6, <1>7

LEMMA SayingsStay ==
    ASSUME ConnInv, ConnInv', Sayings, ~MayOverlap, [Next]_vars
    PROVE  Sayings'
<1> SUFFICES ASSUME socket' # 0 PROVE Sayings'
    BY DEF Sayings
<1>1. CASE FreshStep
    <2>1. Len(Wire') = 0
        BY <1>1 DEF FreshStep
    <2> QED BY <2>1 DEF Sayings
<1>2. CASE QuietStep \/ PushStep
    <2>1. socket' = socket /\ Wire' = Wire /\ (Informed' <=> Informed)
          /\ (near'[socket] = "connecting" => near[socket] = "connecting")
        BY <1>2 DEF QuietStep, PushStep, Silent, data, Informed
    <2>2. \A k : (FollowsAt(k)' <=> FollowsAt(k)) /\ (IsDump(k)' <=> IsDump(k))
        BY <2>1 DEF FollowsAt, IsDump
    <2> QED BY <2>1, <2>2 DEF Sayings
<1>3. CASE AnswerStep
    <2>1. socket # 0
        BY <1>3, AnsweredIs, SocketIs DEF AnswerStep, Reached, ConnInv, Types
    <2> QED BY <1>3, <2>1, AnsweredSayings
<1>4. CASE Message(socket) /\ socket \in Sockets
    BY <1>4, ReadSayings
<1>5. CASE Server /\ ~PushStep /\ socket \in Reached /\ Silent
    <2>1. socket' = socket /\ socket # 0
        BY <1>5 DEF Silent
    <2>2. CASE \E sent : Spoken(sent)
        BY <1>5, <2>1, <2>2, SpokenSayings DEF SpokenStep
    <2>3. CASE down' = down
        <3>1. socket' = socket /\ Wire' = Wire /\ (Informed' <=> Informed) /\ near' = near
            BY <1>5, <2>3 DEF Silent, data, Informed, Wire
        <3>2. \A k : (FollowsAt(k)' <=> FollowsAt(k)) /\ (IsDump(k)' <=> IsDump(k))
            BY <3>1 DEF FollowsAt, IsDump
        <3> QED BY <3>1, <3>2 DEF Sayings
    <2> QED BY <1>5, <2>2, <2>3, ServerSpeaks DEF ConnInv
<1> QED BY <1>1, <1>2, <1>3, <1>4, <1>5, WireSteps
-----------------------------------------------------------------------------
(* What the page knows of its grant                                          *)

LEMMA SpokenGrants ==
    ASSUME ConnInv, Grants, NEW sent, SpokenStep(sent), socket # 0
    PROVE  Grants'
<1> SUFFICES ASSUME Known'
             PROVE  /\ \A k \in 1..Len(Wire') : LastDump(k)' => Wire'[k].frame.body.grant = grant'
                    /\ ~pending' /\ (\A k \in 1..Len(Wire') : ~IsDump(k)') => session' = grant'
    BY DEF Grants
<1>1. grant' = grant /\ pending' = pending /\ session' = session /\ Known
    BY DEF SpokenStep, Silent, data, Known, Open
<1>2. Len(Wire) \in Nat /\ Len(sent) \in Nat /\ Len(Wire') = Len(Wire) + Len(sent)
    BY WireIs, SpokenWire
<1>3. \A k \in 1..Len(Wire) : k \in 1..Len(Wire') /\ Wire'[k] = Wire[k] /\ (IsDump(k)' <=> IsDump(k))
    BY <1>2, SpokenWire DEF IsDump
<1>4. ASSUME NEW k \in 1..Len(Wire'), IsDump(k)' PROVE k \in 1..Len(Wire)
    <2> SUFFICES ASSUME k \notin 1..Len(Wire) PROVE FALSE
        OBVIOUS
    <2>1. PICK n \in 1..Len(sent) : k = Len(Wire) + n
        <3>1. k - Len(Wire) \in 1..Len(sent) /\ k = Len(Wire) + (k - Len(Wire))
            BY <1>2
        <3> QED BY <3>1
    <2>2. Wire'[k].frame = sent[n].frame /\ sent[n].frame.kind # "d"
        BY <2>1, SpokenWire
    <2> QED BY <1>4, <2>2 DEF IsDump
<1>5. ASSUME NEW k \in 1..Len(Wire'), LastDump(k)' PROVE Wire'[k].frame.body.grant = grant'
    <2>1. k \in 1..Len(Wire)
        BY <1>4, <1>5 DEF LastDump
    <2>2. LastDump(k)
        BY <1>3, <1>5, <2>1 DEF LastDump
    <2> QED BY <1>1, <1>3, <2>1, <2>2 DEF Grants
<1>6. (\A k \in 1..Len(Wire') : ~IsDump(k)') => \A k \in 1..Len(Wire) : ~IsDump(k)
    BY <1>3
<1> QED BY <1>1, <1>5, <1>6 DEF Grants

LEMMA AnsweredGrants ==
    ASSUME ConnInv, AnswerStep, socket # 0
    PROVE  Grants'
<1>1. Len(Wire) \in Nat /\ Len(Wire') = Len(Wire) + 1 /\ Wire'[Len(Wire) + 1] = Answer(grant')
    BY WireIs, AnsweredWire
<1>2. Answer(grant').frame.kind = "d" /\ Answer(grant').frame.body.grant = grant'
    BY AnswerIs DEF ConnInv
<1> HIDE DEF Answer
<1>3. PICK n \in Nat : n = Len(Wire) + 1 /\ n # 0 /\ Len(Wire') = n
    <2>1. Len(Wire) + 1 \in Nat /\ Len(Wire) + 1 # 0
        BY <1>1
    <2> QED BY <1>1, <2>1
<1>4. Wire'[n].frame.kind = "d" /\ Wire'[n].frame.body.grant = grant'
    BY <1>1, <1>2, <1>3
<1>5. n \in 1..Len(Wire') /\ IsDump(n)'
    BY <1>3, <1>4, LastIsIn DEF IsDump
<1>6. ASSUME NEW k \in 1..Len(Wire'), LastDump(k)' PROVE Wire'[k].frame.body.grant = grant'
    <2>1. k \in 1..n
        BY <1>3
    <2>2. k = n \/ n > k
        BY <2>1
    <2>3. \A j \in 1..Len(Wire') : j > k => ~IsDump(j)'
        BY <1>6 DEF LastDump
    <2>4. ~(n > k)
        BY <1>5, <2>3
    <2>5. k = n
        BY <2>2, <2>4
    <2> QED BY <1>4, <2>5
<1> QED BY <1>5, <1>6 DEF Grants

LEMMA ReadGrants ==
    ASSUME ConnInv, Grants, Message(socket), socket \in Sockets
    PROVE  Grants'
<1> SUFFICES ASSUME Known'
             PROVE  /\ \A k \in 1..Len(Wire') : LastDump(k)' => Wire'[k].frame.body.grant = grant'
                    /\ ~pending' /\ (\A k \in 1..Len(Wire') : ~IsDump(k)') => session' = grant'
    BY DEF Grants
<1> DEFINE f == Wire[1].frame
<1>1. grant' = grant /\ Known
    BY MessageIs DEF Known, Open
<1>2. /\ Len(Wire) \in Nat /\ Len(Wire') = Len(Wire) - 1 /\ 1 \in 1..Len(Wire)
      /\ \A k \in 1..Len(Wire') : Wire'[k] = Wire[k + 1] /\ k + 1 \in 1..Len(Wire)
    BY ReadWire
<1>3. \A k \in 1..Len(Wire') : IsDump(k)' <=> IsDump(k + 1)
    BY <1>2 DEF IsDump
<1>4. ASSUME NEW n \in 1..Len(Wire), n # 1 PROVE \E k \in 1..Len(Wire') : n = k + 1
    <2>1. n - 1 \in 1..Len(Wire') /\ n = (n - 1) + 1
        BY <1>2, <1>4
    <2> QED BY <2>1
<1>5. ASSUME NEW k \in 1..Len(Wire'), LastDump(k)' PROVE Wire'[k].frame.body.grant = grant'
    <2>1. IsDump(k + 1)
        BY <1>3, <1>5 DEF LastDump
    <2>2. ASSUME NEW n \in 1..Len(Wire), n > k + 1 PROVE ~IsDump(n)
        <3>1. PICK m \in 1..Len(Wire') : n = m + 1
            BY <1>2, <1>4, <2>2
        <3>2. m > k
            BY <1>2, <2>2, <3>1
        <3> QED BY <1>3, <1>5, <3>1, <3>2 DEF LastDump
    <2>3. LastDump(k + 1)
        BY <2>1, <2>2 DEF LastDump
    <2> QED BY <1>1, <1>2, <2>3 DEF Grants
<1>6. ASSUME ~pending', \A k \in 1..Len(Wire') : ~IsDump(k)' PROVE session' = grant'
    <2>1. \A n \in 1..Len(Wire) : n # 1 => ~IsDump(n)
        BY <1>3, <1>4, <1>6
    <2>2. f = Head(down[socket]).frame
        BY MessageIs DEF Wire
    <2>3. CASE IsDump(1)
        <3>1. LastDump(1)
            BY <1>2, <2>1, <2>3 DEF LastDump
        <3>2. f.body.grant = grant
            BY <1>1, <1>2, <3>1 DEF Grants
        <3>3. ApplyFullDump(f)
            BY <2>2, <2>3, MessageIs DEF IsDump
        <3> QED BY <1>1, <3>2, <3>3 DEF ApplyFullDump
    <2>4. CASE ~IsDump(1)
        <3>1. ApplyLog(f) \/ ApplyModules(f)
            BY <2>2, <2>4, MessageIs DEF IsDump
        <3>2. session' = session /\ pending' = pending
            BY <3>1 DEF ApplyLog, ApplyModules
        <3>3. \A n \in 1..Len(Wire) : ~IsDump(n)
            BY <2>1, <2>4
        <3> QED BY <1>1, <1>6, <3>2, <3>3 DEF Grants
    <2> QED BY <2>3, <2>4
<1> QED BY <1>5, <1>6

LEMMA GrantsStay ==
    ASSUME ConnInv, ConnInv', Sayings, Grants, ~MayOverlap, [Next]_vars
    PROVE  Grants'
<1> SUFFICES ASSUME socket' # 0 PROVE Grants'
    BY DEF Grants, Known
<1>1. CASE FreshStep
    <2>1. Len(Wire') = 0 /\ pending'
        BY <1>1 DEF FreshStep
    <2> QED BY <2>1 DEF Grants
<1>2. CASE QuietStep
    <2>1. socket' = socket /\ Wire' = Wire /\ session' = session /\ pending' = pending
        BY <1>2 DEF QuietStep, data
    <2>2. \A k : (IsDump(k)' <=> IsDump(k)) /\ (LastDump(k)' <=> LastDump(k))
        BY <2>1 DEF IsDump, LastDump
    <2>3. CASE Known' /\ Known /\ grant' = grant
        BY <2>1, <2>2, <2>3 DEF Grants
    <2>4. CASE pending /\ \A k \in 1..Len(Wire) : ~IsDump(k)
        BY <2>1, <2>2, <2>4 DEF Grants, LastDump
    <2> QED BY <1>2, <2>3, <2>4 DEF QuietStep, Grants
<1>3. CASE PushStep
    <2>1. socket' = socket /\ Wire' = Wire /\ session' = session /\ pending' = pending
          /\ grant' = grant /\ near' = near /\ far' = far
        BY <1>3 DEF PushStep, Silent, data
    <2>2. \A k : (IsDump(k)' <=> IsDump(k)) /\ (LastDump(k)' <=> LastDump(k))
        BY <2>1 DEF IsDump, LastDump
    <2>3. Known' <=> Known
        BY <2>1 DEF Known, Open
    <2> QED BY <2>1, <2>2, <2>3 DEF Grants
<1>4. CASE AnswerStep
    <2>1. socket # 0
        BY <1>4, AnsweredIs, SocketIs DEF AnswerStep, Reached, ConnInv, Types
    <2> QED BY <1>4, <2>1, AnsweredGrants
<1>5. CASE Message(socket) /\ socket \in Sockets
    BY <1>5, ReadGrants
<1>6. CASE Server /\ ~PushStep /\ socket \in Reached /\ Silent
    <2>1. socket' = socket /\ socket # 0
        BY <1>6 DEF Silent
    <2>2. CASE \E sent : Spoken(sent)
        BY <1>6, <2>1, <2>2, SpokenGrants DEF SpokenStep
    <2>3. CASE down' = down
        <3>1. socket' = socket /\ Wire' = Wire /\ session' = session /\ pending' = pending
              /\ grant' = grant /\ near' = near /\ far' = far
            BY <1>6, <2>3 DEF Silent, data, Wire
        <3>2. \A k : (IsDump(k)' <=> IsDump(k)) /\ (LastDump(k)' <=> LastDump(k))
            BY <3>1 DEF IsDump, LastDump
        <3>3. Known' <=> Known
            BY <3>1 DEF Known, Open
        <3> QED BY <3>1, <3>2, <3>3 DEF Grants
    <2> QED BY <1>6, <2>2, <2>3, ServerSpeaks DEF ConnInv
<1> QED BY <1>1, <1>2, <1>3, <1>4, <1>5, <1>6, WireSteps

LEMMA NoneIsZero == \A n \in Nat : \A k \in 1..n : k # 0
OBVIOUS

LEMMA GrantFromGrants ==
    ASSUME ConnInv, Grants
    PROVE  GrantIsKnown
<1> SUFFICES ASSUME NEW i \in far, far = {i}, i = socket, Open(i), ~pending,
                    \A k \in DOMAIN down[i] : down[i][k].frame.kind # "d", grant # ""
             PROVE  grant = session
    BY DEF GrantIsKnown
<1>1. socket # 0
    <2>1. i \in Sockets
        BY DEF ConnInv, Types
    <2>2. MaxSockets \in Nat
        BY SocketIs DEF ConnInv
    <2> QED BY <2>1, <2>2, NoneIsZero DEF Sockets
<1>2. \A k \in 1..Len(Wire) : ~IsDump(k)
    BY <1>1, WireIs DEF Wire, IsDump
<1>3. Known
    BY <1>1 DEF Known
<1> QED BY <1>2, <1>3 DEF Grants
-----------------------------------------------------------------------------
(* The page's copy, the messages under way and the server's modules          *)

(* The events posted about a grid bring the copy "from" up to w. *)
Owed(from, q, w) ==
    \E g : /\ g[0] = from /\ g[Len(q)] = w
           /\ \A k \in 1..Len(q) : g[k] = Apply(g[k - 1], Told(w, q[k]))

(* The copy, message by message, as far as the page is informed; after the  *)
(* last message a live page is owed no more than what is posted.            *)
Chain(h) ==
    /\ h[0] = store
    /\ \A k \in 1..Len(Wire) : FollowsAt(k) => h[k] = Apply(h[k - 1], Wire[k].frame)
Mirror ==
    socket # 0 /\ ~raced =>
        \E h : Chain(h) /\ (Live => Owed(h[Len(Wire)], posted, world))

LEMMA OwedNothing ==
    ASSUME NEW from, NEW w
    PROVE  Owed(from, <<>>, w) <=> from = w
<1>1. Len(<<>>) = 0 /\ \A k \in 1..Len(<<>>) : FALSE
    OBVIOUS
<1>2. ASSUME from = w PROVE Owed(from, <<>>, w)
    <2>1. [k \in {0} |-> w][0] = w
        OBVIOUS
    <2> QED BY <1>1, <1>2, <2>1 DEF Owed
<1> QED BY <1>1, <1>2 DEF Owed

LEMMA OwedNext ==
    ASSUME NEW from, NEW q, IsSeq(q), q # <<>>, NEW w, Owed(from, q, w)
    PROVE  Owed(Apply(from, Told(w, Head(q))), Tail(q), w)
<1>1. /\ Len(q) \in Nat \ {0} /\ Head(q) = q[1] /\ Len(Tail(q)) = Len(q) - 1
      /\ \A k \in 1..(Len(q) - 1) : Tail(q)[k] = q[k + 1]
    BY SeqIs, TailIs
<1>2. PICK g : /\ g[0] = from /\ g[Len(q)] = w
               /\ \A k \in 1..Len(q) : g[k] = Apply(g[k - 1], Told(w, q[k]))
    BY DEF Owed
<1> DEFINE n == Len(q) - 1
           f == [k \in 0..n |-> g[k + 1]]
<1>3. n \in Nat /\ 1 \in 1..Len(q) /\ 1 - 1 = 0 /\ n + 1 = Len(q)
      /\ \A k \in 1..n : k + 1 \in 1..Len(q) /\ (k + 1) - 1 = k /\ k - 1 \in 0..n
                      /\ (k - 1) + 1 = k /\ k \in 0..n
    BY <1>1
<1>4. f[0] = g[1] /\ f[n] = w /\ \A k \in 1..n : f[k] = g[k + 1] /\ f[k - 1] = g[k]
    <2>1. 0 \in 0..n /\ n \in 0..n /\ 0 + 1 = 1
        BY <1>3
    <2> HIDE DEF n
    <2>2. \A k \in 0..n : f[k] = g[k + 1]
        OBVIOUS
    <2> HIDE DEF f
    <2>3. f[0] = g[1] /\ f[n] = w
        BY <1>2, <1>3, <2>1, <2>2
    <2>4. ASSUME NEW k \in 1..n PROVE f[k] = g[k + 1] /\ f[k - 1] = g[k]
        BY <1>3, <2>2
    <2> QED BY <2>3, <2>4
<1> HIDE DEF f
<1>5. g[1] = Apply(from, Told(w, Head(q)))
    BY <1>1, <1>2, <1>3
<1>6. \A k \in 1..n : f[k] = Apply(f[k - 1], Told(w, Tail(q)[k]))
    <2> TAKE k \in 1..n
    <2>1. g[k + 1] = Apply(g[k], Told(w, q[k + 1]))
        BY <1>2, <1>3
    <2> QED BY <1>1, <1>4, <2>1
<1> QED BY <1>1, <1>4, <1>5, <1>6 DEF Owed

LEMMA SpokenFollows ==
    ASSUME ConnInv, NEW sent, SpokenStep(sent), socket # 0
    PROVE  /\ \A k \in 0..Len(Wire) : FollowsAt(k)' <=> FollowsAt(k)
           /\ \A j \in 1..Len(sent) : \A k :
                 k = Len(Wire) + j => (FollowsAt(k)' <=> FollowsAt(Len(Wire)))
           /\ FollowsAt(Len(Wire))' <=> FollowsAt(Len(Wire))
<1>1. Informed' <=> Informed
    BY DEF SpokenStep, Silent, data, Informed
<1>2. Len(Wire) \in Nat /\ Len(sent) \in Nat /\ Len(Wire') = Len(Wire) + Len(sent)
    BY WireIs, SpokenWire
<1>3. ASSUME NEW k \in 0..Len(Wire) PROVE FollowsAt(k)' <=> FollowsAt(k)
    <2>1. k # 0 => k \in 1..Len(Wire)
        BY <1>2
    <2>2. k # 0 => Wire'[k] = Wire[k]
        BY <2>1, SpokenWire
    <2> QED BY <1>1, <2>2 DEF FollowsAt
<1>4. ASSUME NEW j \in 1..Len(sent), NEW k, k = Len(Wire) + j
      PROVE  FollowsAt(k)' <=> FollowsAt(Len(Wire))
    <2>1. k # 0
        BY <1>2, <1>4
    <2>2. Wire'[k].says # {} <=> FollowsAt(Len(Wire))
        BY <1>4, SpokenWire
    <2> QED BY <2>1, <2>2 DEF FollowsAt
<1>5. FollowsAt(Len(Wire))' <=> FollowsAt(Len(Wire))
    <2>1. PICK n : n = Len(Wire')
        OBVIOUS
    <2>2. FollowsAt(Len(Wire))' <=> FollowsAt(n)'
        BY <2>1 DEF FollowsAt
    <2>3. CASE Len(sent) = 0
        <3>1. n = Len(Wire) /\ n \in 0..Len(Wire)
            BY <1>2, <2>1, <2>3
        <3> QED BY <1>3, <2>2, <3>1
    <2>4. CASE Len(sent) # 0
        <3>1. Len(sent) \in 1..Len(sent) /\ n = Len(Wire) + Len(sent)
            BY <1>2, <2>1, <2>4, LastIsIn
        <3> QED BY <1>4, <2>2, <3>1
    <2> QED BY <2>3, <2>4
<1> QED BY <1>3, <1>4, <1>5

(* A page that the server reaches and that is informed is live. *)
LEMMA ReachedIsLive ==
    ASSUME ConnInv, Sayings, socket \in Reached, socket # 0, FollowsAt(Len(Wire))
    PROVE  Live
<1>1. socket \in far /\ near[socket] \in {"connecting", "open"}
    BY DEF Reached
<1>2. near[socket] # "connecting"
    <2>1. Len(Wire) \in Nat
        BY WireIs
    <2>2. CASE Len(Wire) = 0
        BY <2>2 DEF FollowsAt, Informed, ConnInv, Line, NothingOutlives
    <2>3. CASE Len(Wire) # 0
        <3>1. \A n \in Nat : n # 0 => n \in 1..n
            BY LastIsIn
        <3>2. near[socket] = "connecting" => \A k \in 1..Len(Wire) : ~FollowsAt(k)
            BY DEF Sayings
        <3> QED BY <2>1, <2>3, <3>1, <3>2
    <2> QED BY <2>2, <2>3
<1> QED BY <1>1, <1>2 DEF Live, Open

LEMMA SpokenMirror ==
    ASSUME ConnInv, Sayings, Mirror, ~raced, NEW sent, SpokenStep(sent), socket # 0,
           \A x : Owed(x, posted, world) =>
              \E c : /\ c[0] = x /\ Owed(c[Len(sent)], posted, world)'
                     /\ \A k \in 1..Len(sent) : c[k] = Apply(c[k - 1], sent[k].frame)
    PROVE  Mirror'
<1>1. PICK h : Chain(h) /\ (Live => Owed(h[Len(Wire)], posted, world))
    BY DEF Mirror
<1>2. Len(Wire) \in Nat /\ Len(sent) \in Nat /\ Len(Wire') = Len(Wire) + Len(sent)
    BY WireIs, SpokenWire
<1>3. store' = store
    BY DEF SpokenStep, Silent, data
<1> DEFINE n == Len(Wire)
<1>4. ASSUME NEW k \in 1..Len(Wire'), k \notin 1..n
      PROVE  \E j \in 1..Len(sent) : k = n + j
    <2>1. k - n \in 1..Len(sent) /\ k = n + (k - n)
        BY <1>2, <1>4
    <2> QED BY <2>1
<1>5. CASE ~FollowsAt(n)
    <2>1. ~Live'
        BY <1>5, SpokenFollows DEF Live
    <2>2. ASSUME NEW k \in 1..Len(Wire'), FollowsAt(k)'
          PROVE  h[k] = Apply(h[k - 1], Wire'[k].frame)
        <3>1. k \in 1..n
            <4> SUFFICES ASSUME k \notin 1..n PROVE FALSE
                OBVIOUS
            <4>1. PICK j \in 1..Len(sent) : k = n + j
                BY <1>4
            <4>2. FollowsAt(k)' <=> FollowsAt(n)
                BY <4>1, SpokenFollows
            <4> QED BY <1>5, <2>2, <4>2
        <3>2. k \in 0..n /\ Wire'[k] = Wire[k]
            BY <1>2, <3>1, SpokenWire
        <3>3. FollowsAt(k)
            BY <2>2, <3>2, SpokenFollows
        <3> QED BY <1>1, <3>1, <3>2, <3>3 DEF Chain
    <2>3. Chain(h)'
        BY <1>1, <1>3, <2>2 DEF Chain
    <2> QED BY <2>1, <2>3 DEF Mirror
<1>6. CASE FollowsAt(n)
    <2>1. Owed(h[n], posted, world)
        BY <1>1, <1>6, ReachedIsLive DEF SpokenStep
    <2>2. PICK c : /\ c[0] = h[n] /\ Owed(c[Len(sent)], posted, world)'
                   /\ \A k \in 1..Len(sent) : c[k] = Apply(c[k - 1], sent[k].frame)
        BY <2>1
    <2> DEFINE f == [k \in 0..(n + Len(sent)) |-> IF k <= n THEN h[k] ELSE c[k - n]]
    <2>3. f[0] = store' /\ \A k \in 1..n : f[k] = h[k] /\ f[k - 1] = h[k - 1]
        <3>1. 0 \in 0..(n + Len(sent)) /\ 0 <= n
            BY <1>2
        <3>2. ASSUME NEW k \in 1..n
              PROVE  k \in 0..(n + Len(sent)) /\ k - 1 \in 0..(n + Len(sent)) /\ k <= n /\ k - 1 <= n
            BY <1>2
        <3> HIDE DEF n
        <3>3. f[0] = h[0] /\ \A k \in 1..n : f[k] = h[k] /\ f[k - 1] = h[k - 1]
            BY <3>1, <3>2
        <3> QED BY <1>1, <1>3, <3>3 DEF Chain
    <2>4. ASSUME NEW j \in 0..Len(sent) PROVE f[n + j] = c[j]
        <3>1. n + j \in 0..(n + Len(sent)) /\ (n + j <= n => n + j = n /\ j = 0) /\ (n + j) - n = j
            BY <1>2
        <3> HIDE DEF n
        <3>2. f[n + j] = IF n + j <= n THEN h[n + j] ELSE c[(n + j) - n]
            BY <3>1
        <3> QED BY <2>2, <3>1, <3>2
    <2> HIDE DEF f
    <2>5. PICK d : d = f
        OBVIOUS
    <2>6. ASSUME NEW k \in 1..Len(Wire'), FollowsAt(k)'
          PROVE  d[k] = Apply(d[k - 1], Wire'[k].frame)
        <3>1. CASE k \in 1..n
            <4>1. k \in 0..n /\ Wire'[k] = Wire[k]
                BY <1>2, <3>1, SpokenWire
            <4>2. FollowsAt(k)
                BY <2>6, <4>1, SpokenFollows
            <4> QED BY <1>1, <2>3, <2>5, <3>1, <4>1, <4>2 DEF Chain
        <3>2. CASE k \notin 1..n
            <4>1. PICK j \in 1..Len(sent) : k = n + j
                BY <1>4, <3>2
            <4>2. j \in 0..Len(sent) /\ j - 1 \in 0..Len(sent) /\ k - 1 = n + (j - 1)
                BY <1>2, <4>1
            <4>3. Wire'[k].frame = sent[j].frame
                BY <4>1, SpokenWire
            <4>4. d[k] = c[j] /\ d[k - 1] = c[j - 1]
                BY <2>4, <2>5, <4>1, <4>2
            <4> QED BY <2>2, <4>3, <4>4
        <3> QED BY <3>1, <3>2
    <2>7. Chain(d)'
        BY <2>3, <2>6, <2>5 DEF Chain
    <2>8. Len(Wire') = n + Len(sent) /\ Len(sent) \in 0..Len(sent)
        BY <1>2
    <2>9. d[Len(Wire')] = c[Len(sent)]
        BY <2>4, <2>5, <2>8
    <2>10. Owed(d[Len(Wire)], posted, world)'
        BY <2>2, <2>9
    <2> QED BY <2>7, <2>10 DEF Mirror
<1> QED BY <1>5, <1>6
LEMMA AnnouncedMirror ==
    ASSUME ConnInv, Sayings, Mirror, NEW w, NEW sent, Announcement(w, sent),
           socket \in Reached, socket # 0
    PROVE  Mirror'
<1>1. /\ SpokenStep(sent) /\ raced' = (raced \/ posted # <<>>) /\ world' = w
    BY AnnouncementIs DEF SpokenStep, ConnInv
<1>2. Truthful(world, sent, w) /\ (posted = <<>> => posted' = <<>>)
    BY DEF Announcement
<1>3. CASE raced'
    BY <1>3 DEF Mirror
<1>4. CASE ~raced'
    <2>1. ~raced /\ posted = <<>> /\ posted' = <<>>
        BY <1>1, <1>2, <1>4
    <2>2. PICK c : /\ c[0] = world /\ c[Len(sent)] = w
                   /\ \A k \in 1..Len(sent) : c[k] = Apply(c[k - 1], sent[k].frame)
        BY <1>2 DEF Truthful
    <2>3. Owed(c[Len(sent)], posted', world')
        BY <1>1, <2>1, <2>2, OwedNothing
    <2>4. ASSUME NEW x, Owed(x, posted, world) PROVE x = world
        BY <2>1, <2>4, OwedNothing
    <2>5. Owed(c[Len(sent)], posted, world)'
        BY <2>3
    <2> QED BY <1>1, <2>1, <2>2, <2>4, <2>5, SpokenMirror
<1> QED BY <1>3, <1>4

LEMMA LogErrorMirror ==
    ASSUME ConnInv, Sayings, Mirror, LogError, socket \in Reached, socket # 0
    PROVE  Mirror'
<1> DEFINE x == Sent(Frame("l", "", "", 0, events'), world)
<1>1. /\ Spoken(<<x>>) /\ Silent /\ UNCHANGED <<world, posted, raced>>
    BY LogErrorIs DEF ConnInv
<1>2. \A s : Apply(s, x.frame) = s
    BY DEF Apply, Sent, Frame
<1> HIDE DEF x
<1>3. PICK sent : sent = <<x>>
    OBVIOUS
<1>4. SpokenStep(sent) /\ Len(sent) = 1 /\ sent[1] = x
    BY <1>1, <1>3, SingleIsSeq DEF SpokenStep
<1>5. CASE raced
    BY <1>1, <1>5 DEF Mirror
<1>6. CASE ~raced
    <2>1. ASSUME NEW s, Owed(s, posted, world)
          PROVE  \E c : /\ c[0] = s /\ Owed(c[Len(sent)], posted, world)'
                        /\ \A k \in 1..Len(sent) : c[k] = Apply(c[k - 1], sent[k].frame)
        <3>1. PICK c : c = [k \in 0..1 |-> s]
            OBVIOUS
        <3>2. c[0] = s /\ c[1] = s
            BY <3>1
        <3>3. Owed(s, posted', world')
            BY <1>1, <2>1
        <3>4. Owed(c[Len(sent)], posted, world)'
            BY <1>4, <3>2, <3>3
        <3>5. \A k \in 1..Len(sent) : c[k] = Apply(c[k - 1], sent[k].frame)
            BY <1>2, <1>4, <3>2
        <3> QED BY <3>2, <3>4, <3>5
    <2> QED BY <1>4, <1>6, <2>1, SpokenMirror
<1> QED BY <1>5, <1>6

LEMMA DeliveredMirror ==
    ASSUME ConnInv, Sayings, Mirror, PostedDelivered, socket \in Reached, socket # 0
    PROVE  Mirror'
<1> DEFINE f == Told(world, Head(posted))
           x == Sent(f, world)
<1>1. /\ Spoken(<<x>>) /\ Silent /\ posted # <<>> /\ posted' = Tail(posted)
      /\ UNCHANGED <<world, raced>>
    BY PostedDeliveredIs DEF ConnInv
<1>2. x.frame = f
    BY DEF Sent
<1> HIDE DEF x
<1>3. PICK sent : sent = <<x>>
    OBVIOUS
<1>4. SpokenStep(sent) /\ Len(sent) = 1 /\ sent[1] = x
    BY <1>1, <1>3, SingleIsSeq DEF SpokenStep
<1>5. CASE raced
    BY <1>1, <1>5 DEF Mirror
<1>6. CASE ~raced
    <2>1. IsSeq(posted)
        BY <1>6 DEF ConnInv, Types
    <2>2. ASSUME NEW s, Owed(s, posted, world)
          PROVE  \E c : /\ c[0] = s /\ Owed(c[Len(sent)], posted, world)'
                        /\ \A k \in 1..Len(sent) : c[k] = Apply(c[k - 1], sent[k].frame)
        <3>1. Owed(Apply(s, f), Tail(posted), world)
            BY <1>1, <2>1, <2>2, OwedNext
        <3> HIDE DEF f
        <3>2. PICK u : u = Apply(s, f)
            OBVIOUS
        <3>3. PICK c : c = [k \in 0..1 |-> IF k = 0 THEN s ELSE u]
            OBVIOUS
        <3>4. c[0] = s /\ c[1] = u
            BY <3>3
        <3>5. Owed(u, posted', world')
            BY <1>1, <3>1, <3>2
        <3>6. Owed(c[Len(sent)], posted, world)'
            BY <1>4, <3>4, <3>5
        <3>7. \A k \in 1..Len(sent) : c[k] = Apply(c[k - 1], sent[k].frame)
            BY <1>2, <1>4, <3>2, <3>4
        <3> QED BY <3>4, <3>6, <3>7
    <2> QED BY <1>4, <1>6, <2>2, SpokenMirror
<1> QED BY <1>5, <1>6

LEMMA AnsweredFollows ==
    ASSUME ConnInv, AnswerStep, socket # 0
    PROVE  /\ \A k \in 0..Len(Wire) : FollowsAt(k)' <=> FollowsAt(k)
           /\ \A k : k = Len(Wire) + 1 => (FollowsAt(k)' <=> grant' # "-1")
           /\ FollowsAt(Len(Wire))' <=> grant' # "-1"
<1>1. Informed' <=> Informed
    BY AnsweredIs, WireIs DEF AnswerStep, ConnInv, Informed
<1>2. Len(Wire) \in Nat /\ Len(Wire') = Len(Wire) + 1
    BY WireIs, AnsweredWire
<1>3. Answer(grant').says # {} <=> grant' # "-1"
    BY AnswerIs DEF ConnInv
<1> HIDE DEF Answer
<1>4. ASSUME NEW k \in 0..Len(Wire) PROVE FollowsAt(k)' <=> FollowsAt(k)
    <2>1. k # 0 => k \in 1..Len(Wire)
        BY <1>2
    <2>2. k # 0 => Wire'[k] = Wire[k]
        BY <2>1, AnsweredWire
    <2> QED BY <1>1, <2>2 DEF FollowsAt
<1>5. ASSUME NEW k, k = Len(Wire) + 1 PROVE FollowsAt(k)' <=> grant' # "-1"
    <2>1. k # 0 /\ Wire'[k] = Answer(grant')
        BY <1>2, <1>5, AnsweredWire
    <2> QED BY <1>3, <2>1 DEF FollowsAt
<1>6. FollowsAt(Len(Wire))' <=> grant' # "-1"
    <2>1. PICK n : n = Len(Wire')
        OBVIOUS
    <2>2. FollowsAt(Len(Wire))' <=> FollowsAt(n)'
        BY <2>1 DEF FollowsAt
    <2> QED BY <1>2, <1>5, <2>1, <2>2
<1> QED BY <1>4, <1>5, <1>6

LEMMA AnswerShows ==
    ASSUME NEW g, g # "-1"
    PROVE  \A s : Apply(s, Answer(g).frame) = world
<1>1. Answer(g).frame = Frame("d", "", "", 0, Dump(g)) /\ Dump(g).modules = world
    BY DEF Answer, Dump
<1> QED BY <1>1, ApplyDumpIs

LEMMA AnsweredMirror ==
    ASSUME ConnInv, Mirror, AnswerStep, socket # 0
    PROVE  Mirror'
<1>1. /\ raced' = (raced \/ posted # <<>>) /\ UNCHANGED <<world, posted, near, far, socket, store>>
    BY AnsweredIs, WireIs DEF AnswerStep, ConnInv
<1>2. CASE raced'
    BY <1>2 DEF Mirror
<1>3. CASE ~raced'
    <2>1. ~raced /\ posted = <<>>
        BY <1>1, <1>3
    <2>2. PICK h : Chain(h)
        BY <2>1 DEF Mirror
    <2>3. PICK n \in Nat : n = Len(Wire) /\ Len(Wire') = n + 1
        BY WireIs, AnsweredWire
    <2>4. PICK f : f = [k \in 0..(n + 1) |-> IF k = n + 1 THEN world ELSE h[k]]
        OBVIOUS
    <2>5. f[0] = h[0] /\ f[n + 1] = world /\ \A k \in 1..n : f[k] = h[k] /\ f[k - 1] = h[k - 1]
        <3>1. 0 \in 0..(n + 1) /\ 0 # n + 1 /\ n + 1 \in 0..(n + 1)
            BY <2>3
        <3>2. ASSUME NEW k \in 1..n
              PROVE  k \in 0..(n + 1) /\ k - 1 \in 0..(n + 1) /\ k # n + 1 /\ k - 1 # n + 1
            BY <2>3
        <3> QED BY <2>4, <3>1, <3>2
    <2>6. ASSUME NEW k \in 1..Len(Wire'), FollowsAt(k)'
          PROVE  f[k] = Apply(f[k - 1], Wire'[k].frame)
        <3>1. CASE k \in 1..n
            <4>1. k \in 0..n /\ Wire'[k] = Wire[k]
                BY <2>3, <3>1, AnsweredWire
            <4>2. FollowsAt(k)
                BY <2>3, <2>6, <4>1, AnsweredFollows
            <4> QED BY <2>2, <2>3, <2>5, <3>1, <4>1, <4>2 DEF Chain
        <3>2. CASE k \notin 1..n
            <4>1. k = n + 1
                BY <2>3, <3>2
            <4>2. grant' # "-1"
                BY <2>3, <2>6, <4>1, AnsweredFollows
            <4>3. Wire'[k] = Answer(grant')
                BY <2>3, <4>1, AnsweredWire
            <4>4. Apply(f[k - 1], Answer(grant').frame) = world
                BY <4>2, AnswerShows
            <4> QED BY <2>5, <4>1, <4>3, <4>4
        <3> QED BY <3>1, <3>2
    <2>7. Chain(f)'
        BY <1>1, <2>2, <2>5, <2>6 DEF Chain
    <2>8. Owed(f[Len(Wire')], posted', world')
        BY <1>1, <2>1, <2>3, <2>5, OwedNothing
    <2>9. Owed(f[Len(Wire)], posted, world)'
        BY <2>8
    <2> QED BY <2>7, <2>9 DEF Mirror
<1> QED BY <1>2, <1>3
LEMMA ReadFollows ==
    ASSUME ConnInv, Sayings, Message(socket), socket \in Sockets
    PROVE  /\ \A k \in 0..Len(Wire') : FollowsAt(k)' <=> FollowsAt(k + 1)
           /\ FollowsAt(Len(Wire))' <=> FollowsAt(Len(Wire))
<1>1. /\ Len(Wire) \in Nat /\ Len(Wire') = Len(Wire) - 1 /\ 1 \in 1..Len(Wire)
      /\ \A k \in 1..Len(Wire') : Wire'[k] = Wire[k + 1]
    BY ReadWire
<1>2. ASSUME NEW k \in 0..Len(Wire') PROVE FollowsAt(k)' <=> FollowsAt(k + 1)
    <2>1. CASE k = 0
        <3>1. k + 1 = 1
            BY <2>1
        <3>2. FollowsAt(k)' <=> Informed'
            BY <2>1 DEF FollowsAt
        <3> QED BY <3>1, <3>2, ReadInforms
    <2>2. CASE k # 0
        <3>1. k \in 1..Len(Wire') /\ k + 1 # 0
            BY <1>1, <2>2
        <3> QED BY <1>1, <2>2, <3>1 DEF FollowsAt
    <2> QED BY <2>1, <2>2
<1>3. PICK n : n = Len(Wire')
    OBVIOUS
<1>4. FollowsAt(Len(Wire))' <=> FollowsAt(n)'
    BY <1>3 DEF FollowsAt
<1>5. n \in 0..Len(Wire') /\ n + 1 = Len(Wire)
    BY <1>1, <1>3
<1> QED BY <1>2, <1>4, <1>5

LEMMA ReadStore ==
    ASSUME ConnInv, Message(socket), socket \in Sockets
    PROVE  store' = Apply(store, Wire[1].frame)
<1> DEFINE f == Wire[1].frame
<1>1. f = Head(down[socket]).frame
    BY MessageIs DEF Wire
<1>2. CASE f.kind = "l"
    <2>1. ApplyLog(f)
        BY <1>1, <1>2, MessageIs
    <2>2. Apply(store, f) = store
        BY <1>2 DEF Apply
    <2> QED BY <2>1, <2>2 DEF ApplyLog
<1>3. CASE f.kind # "l"
    <2>1. ApplyFullDump(f) \/ ApplyModules(f)
        BY <1>1, <1>3, MessageIs
    <2> QED BY <2>1 DEF ApplyFullDump, ApplyModules
<1> QED BY <1>2, <1>3

LEMMA ReadMirror ==
    ASSUME ConnInv, Sayings, Mirror, Message(socket), socket \in Sockets
    PROVE  Mirror'
<1>1. UNCHANGED <<world, posted, raced, near, far, socket>>
    BY MessageIs
<1>2. CASE raced
    BY <1>1, <1>2 DEF Mirror
<1>3. CASE ~raced
    <2>1. socket # 0
        BY ReadWire
    <2>2. PICK h : Chain(h) /\ (Live => Owed(h[Len(Wire)], posted, world))
        BY <1>3, <2>1 DEF Mirror
    <2>3. PICK n \in Nat : n = Len(Wire') /\ Len(Wire) = n + 1
        <3>1. Len(Wire) \in Nat /\ Len(Wire') = Len(Wire) - 1 /\ 1 \in 1..Len(Wire)
            BY ReadWire
        <3>2. Len(Wire') \in Nat /\ Len(Wire) = Len(Wire') + 1
            BY <3>1
        <3> QED BY <3>2
    <2>4. PICK f : f = [k \in 0..n |-> IF k = 0 THEN store' ELSE h[k + 1]]
        OBVIOUS
    <2>5. f[0] = store' /\ \A k \in 1..n : f[k] = h[k + 1] /\ (k # 1 => f[k - 1] = h[k])
        <3>1. 0 \in 0..n
            BY <2>3
        <3>2. ASSUME NEW k \in 1..n
              PROVE  /\ k \in 0..n /\ k - 1 \in 0..n /\ k # 0 /\ (k - 1) + 1 = k
                     /\ k # 1 => k - 1 # 0
            BY <2>3
        <3>3. \A k \in 1..n : f[k] = h[k + 1]
            BY <2>4, <3>2
        <3>4. ASSUME NEW k \in 1..n, k # 1 PROVE f[k - 1] = h[k]
            <4>1. f[k - 1] = h[(k - 1) + 1]
                BY <2>4, <3>2, <3>4
            <4> QED BY <3>2, <4>1
        <3> QED BY <2>4, <3>1, <3>3, <3>4
    <2>6. FollowsAt(1) => h[1] = store'
        <3>1. 1 \in 1..Len(Wire) /\ h[1 - 1] = store
            BY <2>2, ReadWire DEF Chain
        <3> QED BY <2>2, <3>1, ReadStore DEF Chain
    <2>7. ASSUME NEW k \in 1..n, FollowsAt(k)'
          PROVE  f[k] = Apply(f[k - 1], Wire'[k].frame)
        <3>1. /\ k \in 0..Len(Wire') /\ k \in 1..Len(Wire') /\ k + 1 \in 1..Len(Wire)
              /\ (k + 1) - 1 = k
            BY <2>3
        <3>2. FollowsAt(k + 1)
            BY <2>7, <3>1, ReadFollows
        <3>3. h[k + 1] = Apply(h[k], Wire[k + 1].frame) /\ Wire'[k] = Wire[k + 1]
            BY <2>2, <3>1, <3>2, ReadWire DEF Chain
        <3>4. CASE k # 1
            BY <2>5, <3>3, <3>4
        <3>5. CASE k = 1 /\ FollowsAt(1)
            <4>1. f[k - 1] = h[k]
                BY <2>5, <2>6, <3>5
            <4> QED BY <2>5, <3>3, <4>1
        <3>6. CASE k = 1 /\ ~FollowsAt(1)
            <4>1. IsDump(k + 1)
                BY <2>1, <3>1, <3>2, <3>6 DEF Sayings
            <4>2. \A s : Apply(s, Wire[k + 1].frame) = Wire[k + 1].frame.body.modules
                BY <4>1 DEF IsDump, Apply
            <4> QED BY <2>5, <3>3, <4>2
        <3> QED BY <3>4, <3>5, <3>6
    <2>8. Chain(f)'
        BY <2>3, <2>5, <2>7 DEF Chain
    <2>9. ASSUME Live' PROVE Owed(f[n], posted, world)
        <3>1. Live
            BY <1>1, <2>9, ReadFollows DEF Live, Open
        <3>2. Owed(h[n + 1], posted, world)
            BY <2>2, <2>3, <3>1
        <3>3. CASE n = 0
            <4>1. FollowsAt(1)
                BY <2>3, <3>1, <3>3 DEF Live
            <4> QED BY <2>5, <2>6, <3>2, <3>3, <4>1
        <3>4. CASE n # 0
            BY <2>3, <2>5, <3>2, <3>4, LastIsIn
        <3> QED BY <3>3, <3>4
    <2>10. Live' => Owed(f[Len(Wire')], posted', world')
        BY <1>1, <2>3, <2>9
    <2>11. Live' => Owed(f[Len(Wire)], posted, world)'
        BY <2>10
    <2> QED BY <2>8, <2>11 DEF Mirror
<1> QED BY <1>2, <1>3

LEMMA RowsReplaced ==
    ASSUME NEW prop \in Properties, NEW rows
    PROVE  [prop EXCEPT !.rows = rows] = [val |-> prop.val, rows |-> rows]
BY DEF Properties

LEMMA NothingBefore ==
    ASSUME NEW x, NEW y
    PROVE  (<<>> \o <<>>) \o <<y>> = <<y>> /\ (<<>> \o <<x>>) \o <<y>> = <<x, y>>
<1>1. <<>> \in Seq({x, y}) /\ <<x>> \in Seq({x, y}) /\ <<y>> \in Seq({x, y})
      /\ <<x, y>> \in Seq({x, y})
    OBVIOUS
<1>2. <<>> \o <<>> = <<>> /\ <<>> \o <<x>> = <<x>> /\ <<>> \o <<y>> = <<y>>
    BY <1>1
<1>3. <<x>> \o <<y>> = <<x, y>>
    <2>1. IsSeq(<<x>>) /\ IsSeq(<<y>>) /\ Len(<<x>>) = 1 /\ Len(<<y>>) = 1
          /\ <<x>>[1] = x /\ <<y>>[1] = y
        BY SingleIsSeq
    <2>2. PICK q : q = <<x>> \o <<y>>
        OBVIOUS
    <2>3. Len(q) = 2 /\ q[1] = x /\ q[2] = y
        <3>1. Len(q) = Len(<<x>>) + Len(<<y>>) /\ q[1] = <<x>>[1]
              /\ q[Len(<<x>>) + 1] = <<y>>[1]
            BY <2>1, <2>2, ConcatIs
        <3>2. Len(q) = 1 + 1 /\ q[1] = x /\ q[1 + 1] = y
            BY <2>1, <3>1
        <3> QED BY <3>2
    <2>4. q \in Seq({x, y})
        BY <1>1, <2>2
    <2>5. q = [k \in 1..2 |-> q[k]]
        BY <2>3, <2>4
    <2>6. <<x, y>> = [k \in 1..2 |-> IF k = 1 THEN x ELSE y]
        OBVIOUS
    <2>7. \A k \in 1..2 : q[k] = IF k = 1 THEN x ELSE y
        <3>1. \A k \in 1..2 : k = 1 \/ k = 2
            OBVIOUS
        <3> QED BY <2>3, <3>1
    <2> QED BY <2>2, <2>5, <2>6, <2>7
<1> QED BY <1>2, <1>3

(* The message that adds a row to a grid makes a page add it, and the one of *)
(* the row that falls out before it makes it fall out.                       *)
LEMMA PushIsOwed ==
    ASSUME Types, NEW m \in Modules, NEW p \in Props, PushInThread(m, p), posted = <<>>
    PROVE  Owed(world, posted', world')
<1> DEFINE prop == world[m][p]
           rows == prop.rows
           full == GridLimit > 0 /\ Len(rows) + 1 > GridLimit
           kept == IF full THEN Tail(rows) ELSE rows
           fresh == Append(kept, prop.val)
           new == [prop EXCEPT !.rows = fresh]
           e == Row("gc", m, p, Len(kept) + 1)
           d == Row("gd", m, p, 1)
           cut == [prop EXCEPT !.rows = kept]
<1>1. /\ Has(m, p) /\ world' = SetProp(world, m, p, new)
      /\ posted' = (posted \o IF full THEN <<d>> ELSE <<>>) \o <<e>>
    BY DEF PushInThread, Row
<1>2. prop.val \in Values /\ rows \in Seq(Values) /\ Len(rows) \in Nat /\ prop \in Properties
      /\ prop = [val |-> prop.val, rows |-> rows]
    BY <1>1, PropIsTyped DEF Types, Properties
<1>3. full => rows # <<>>
    BY <1>2, ClientAssumption
<1>4. kept \in Seq(Values) /\ fresh \in Seq(Values) /\ Len(fresh) = Len(kept) + 1
      /\ fresh[Len(kept) + 1] = prop.val /\ Len(kept) + 1 \in DOMAIN fresh
    <2>1. kept \in Seq(Values)
        BY <1>2, <1>3
    <2> HIDE DEF kept, prop
    <2> QED BY <1>2, <2>1
<1>5. new = [val |-> prop.val, rows |-> fresh] /\ cut = [val |-> prop.val, rows |-> kept]
    BY <1>2, RowsReplaced
<1>6. Told(world', e) = Frame("gc", m, p, Len(kept) + 1, prop.val)
    <2>1. PropIn(world', m, p) = new
        BY <1>1, PropOfSet
    <2>2. m \in DOMAIN world' /\ p \in DOMAIN world'[m]
        BY <1>1 DEF SetProp, Put
    <2>3. world'[m][p].rows = fresh
        BY <1>5, <2>1, <2>2 DEF PropIn, ModuleIn
    <2>4. e.kind = "gc" /\ e.m = m /\ e.p = p /\ e.i = Len(kept) + 1
        BY DEF Row
    <2> HIDE DEF e, fresh, kept, prop, new
    <2> QED BY <1>4, <2>3, <2>4 DEF Told
<1>7. Told(world', d) = Frame("gd", m, p, 1, {})
    BY DEF Told, Row
<1>8. ASSUME NEW s, PropIn(s, m, p) = cut
      PROVE  Apply(s, Told(world', e)) = SetProp(s, m, p, new)
    <2>1. [cut EXCEPT !.rows = InsertRow(@, Len(kept) + 1, prop.val)] = new
        <3>1. InsertRow(kept, Len(kept) + 1, prop.val) = fresh
            <4> HIDE DEF kept, prop
            <4> QED BY <1>2, <1>4, RowsAre
        <3> HIDE DEF kept, prop, fresh, new, cut
        <3> QED BY <1>5, <3>1
    <2> HIDE DEF kept, prop, fresh, new, cut, e
    <2> QED BY <1>6, <1>8, <2>1, ApplyCreateIs
<1>9. CASE ~full
    <2>1. posted' = <<e>>
        <3>1. posted' = (<<>> \o <<>>) \o <<e>>
            BY <1>1, <1>9
        <3> HIDE DEF e, full
        <3> QED BY <3>1, NothingBefore
    <2>2. cut = prop /\ PropIn(world, m, p) = cut
        BY <1>1, <1>2, <1>5, <1>9, PropOfWorld
    <2>3. Apply(world, Told(world', e)) = world'
        <3> HIDE DEF cut, new, e
        <3> QED BY <1>1, <1>8, <2>2
    <2> HIDE DEF e, cut, new, kept, full, prop
    <2>4. Len(posted') = 1 /\ posted'[1] = e
        BY <2>1
    <2>5. PICK g : g = [k \in 0..1 |-> IF k = 0 THEN world ELSE world']
        OBVIOUS
    <2>6. g[0] = world /\ g[1] = world'
        BY <2>5
    <2>7. \A k \in 1..Len(posted') : g[k] = Apply(g[k - 1], Told(world', posted'[k]))
        BY <2>3, <2>4, <2>6
    <2> QED BY <2>4, <2>6, <2>7 DEF Owed
<1>10. CASE full
    <2>1. posted' = <<d, e>>
        <3>1. posted' = (<<>> \o <<d>>) \o <<e>>
            BY <1>1, <1>10
        <3> HIDE DEF d, e, full
        <3> QED BY <3>1, NothingBefore
    <2>2. PICK between : between = SetProp(world, m, p, cut)
        OBVIOUS
    <2>3. Apply(world, Told(world', d)) = between
        <3>1. RemoveRow(rows, 1) = kept
            BY <1>2, <1>3, <1>10, RowsAre
        <3>2. [prop EXCEPT !.rows = RemoveRow(@, 1)] = cut
            BY <3>1
        <3>3. PropIn(world, m, p) = prop
            BY <1>1, PropOfWorld
        <3> HIDE DEF kept, prop, cut, d
        <3> QED BY <1>7, <2>2, <3>2, <3>3, ApplyDeleteIs
    <2>4. Apply(between, Told(world', e)) = world'
        <3> HIDE DEF cut, new, e
        <3>1. PropIn(between, m, p) = cut
            BY <2>2, PropOfSet
        <3>2. SetProp(between, m, p, new) = SetProp(world, m, p, new)
            BY <2>2, SetTwice
        <3> QED BY <1>1, <1>8, <3>1, <3>2
    <2> HIDE DEF d, e, cut, new, kept, full, prop
    <2>5. Len(posted') = 2 /\ posted'[1] = d /\ posted'[2] = e
        BY <2>1
    <2>6. PICK g : g = [k \in 0..2 |-> IF k = 0 THEN world ELSE IF k = 1 THEN between ELSE world']
        OBVIOUS
    <2>7. g[0] = world /\ g[1] = between /\ g[2] = world'
        BY <2>6
    <2>8. \A k \in 1..Len(posted') : g[k] = Apply(g[k - 1], Told(world', posted'[k]))
        <3> TAKE k \in 1..Len(posted')
        <3>1. k = 1 \/ k = 2
            BY <2>5
        <3> QED BY <2>3, <2>4, <2>5, <2>7, <3>1
    <2> QED BY <2>5, <2>7, <2>8 DEF Owed
<1> QED BY <1>9, <1>10
LEMMA PushMirror ==
    ASSUME ConnInv, Mirror, PushStep
    PROVE  Mirror'
<1>1. PICK m \in Modules, p \in Props : PushInThread(m, p)
    BY DEF PushStep
<1>2. /\ raced' = (raced \/ posted # <<>>) /\ UNCHANGED <<store, near, far, socket, Wire>>
      /\ (Informed' <=> Informed)
    BY <1>1, PushInThreadIs DEF PushStep, Silent, data, Informed, ConnInv
<1>3. \A k : FollowsAt(k)' <=> FollowsAt(k)
    BY <1>2 DEF FollowsAt
<1>4. SUFFICES ASSUME ~raced', socket # 0 PROVE Mirror'
    BY <1>2 DEF Mirror
<1>5. ~raced /\ posted = <<>>
    BY <1>2, <1>4
<1>6. PICK h : Chain(h) /\ (Live => Owed(h[Len(Wire)], posted, world))
    BY <1>4, <1>5 DEF Mirror
<1>7. Chain(h)'
    BY <1>2, <1>3, <1>6 DEF Chain
<1>8. Live' => Owed(h[Len(Wire)], posted', world')
    <2> SUFFICES ASSUME Live' PROVE Owed(h[Len(Wire)], posted', world')
        OBVIOUS
    <2>1. Live
        <3>1. FollowsAt(Len(Wire))' <=> FollowsAt(Len(Wire))
            BY <1>2 DEF FollowsAt
        <3> QED BY <1>2, <3>1 DEF Live, Open
    <2>2. h[Len(Wire)] = world
        BY <1>5, <1>6, <2>1, OwedNothing
    <2> QED BY <1>1, <1>5, <2>2, PushIsOwed DEF ConnInv
<1>9. Live' => Owed(h[Len(Wire)], posted, world)'
    BY <1>2, <1>8
<1> QED BY <1>7, <1>9 DEF Mirror

LEMMA FreshMirror ==
    ASSUME FreshStep
    PROVE  Mirror'
<1>1. Wire' = <<>> /\ Len(Wire') = 0 /\ ~Informed'
    BY DEF FreshStep, Informed
<1>2. PICK h : h = [k \in {0} |-> store']
    OBVIOUS
<1>3. h[0] = store'
    BY <1>2
<1>4. Chain(h)'
    BY <1>1, <1>3 DEF Chain
<1>5. ~Live'
    BY <1>1 DEF Live, FollowsAt
<1> QED BY <1>4, <1>5 DEF Mirror

LEMMA QuietMirror ==
    ASSUME Mirror, QuietStep
    PROVE  Mirror'
<1>1. /\ socket' = socket /\ Wire' = Wire /\ store' = store /\ (raced => raced')
      /\ (Live' => Live /\ UNCHANGED <<world, posted>>) /\ (Informed' <=> Informed)
    BY DEF QuietStep, data, Informed
<1>2. SUFFICES ASSUME ~raced', socket # 0 PROVE Mirror'
    BY <1>1 DEF Mirror
<1>3. PICK h : Chain(h) /\ (Live => Owed(h[Len(Wire)], posted, world))
    BY <1>1, <1>2 DEF Mirror
<1>4. \A k : FollowsAt(k)' <=> FollowsAt(k)
    BY <1>1 DEF FollowsAt
<1>5. Chain(h)'
    BY <1>1, <1>3, <1>4 DEF Chain
<1>6. Live' => Owed(h[Len(Wire)], posted, world)'
    BY <1>1, <1>3
<1> QED BY <1>5, <1>6 DEF Mirror

LEMMA MirrorStays ==
    ASSUME ConnInv, ConnInv', Sayings, Mirror, ~MayOverlap, [Next]_vars
    PROVE  Mirror'
<1> SUFFICES ASSUME socket' # 0 PROVE Mirror'
    BY DEF Mirror
<1>1. CASE FreshStep
    BY <1>1, FreshMirror
<1>2. CASE QuietStep
    BY <1>2, QuietMirror
<1>3. CASE PushStep
    BY <1>3, PushMirror
<1>4. CASE AnswerStep
    <2>1. socket # 0
        BY <1>4, AnsweredIs, SocketIs DEF AnswerStep, Reached, ConnInv, Types
    <2> QED BY <1>4, <2>1, AnsweredMirror
<1>5. CASE Message(socket) /\ socket \in Sockets
    BY <1>5, ReadMirror
<1>6. CASE Server /\ ~PushStep /\ socket \in Reached /\ Silent
    <2>1. socket # 0
        BY <1>6 DEF Silent
    <2>2. ASSUME NEW w, NEW sent, Announcement(w, sent) PROVE Mirror'
        BY <1>6, <2>1, <2>2, AnnouncedMirror
    <2>3. ASSUME NEW m \in Modules, NEW p \in Props, PushInThread(m, p) PROVE FALSE
        <3>1. down' = down /\ Silent
            BY <2>3, PushInThreadIs DEF ConnInv
        <3> QED BY <1>6, <2>3, <3>1 DEF PushStep, Silent, Wire
    <2>4. IsWorld(world)
        BY DEF ConnInv, Types
    <2> QED BY <1>6, <2>1, <2>2, <2>3, <2>4, ServerCases, LogErrorMirror, DeliveredMirror
<1> QED BY <1>1, <1>2, <1>3, <1>4, <1>5, <1>6, WireSteps

LEMMA MirroredFromMirror ==
    ASSUME ConnInv, Mirror
    PROVE  Mirrored
<1> SUFFICES ASSUME posted = <<>>, NEW i \in far, i = socket, Open(i), Informed,
                    down[i] = <<>>, ~raced
             PROVE  store = world
    BY DEF Mirrored, HasReadAll
<1>1. socket # 0
    <2>1. i \in Sockets /\ MaxSockets \in Nat
        BY SocketIs DEF ConnInv, Types
    <2> QED BY <2>1, NoneIsZero DEF Sockets
<1>2. Len(Wire) = 0
    BY DEF Wire
<1>3. Live
    BY <1>1, <1>2 DEF Live, FollowsAt
<1>4. PICK h : Chain(h) /\ (Live => Owed(h[Len(Wire)], posted, world))
    BY <1>1 DEF Mirror
<1>5. h[0] = store
    BY <1>4 DEF Chain
<1> QED BY <1>2, <1>3, <1>4, <1>5, OwedNothing
-----------------------------------------------------------------------------
(* The page's log and the messages under way                                 *)

(* How long the log is after a message, when it was n long before it. *)
Counted(f, n) == IF f.kind = "l" /\ n < LogLimit THEN n + 1 ELSE n
Counts(k, before, after) ==
    /\ IsDump(k) => /\ after = Len(Wire[k].frame.body.logs)
                    /\ FollowsAt(k - 1) => after = before
    /\ ~IsDump(k) => after = Counted(Wire[k].frame, before)

(* Its length message by message, as far as the page is informed: a dump does *)
(* not change it, and after the last message it is that of the server's log.  *)
Lengths(L) ==
    /\ L[0] = Len(logs)
    /\ \A k \in 1..Len(Wire) : FollowsAt(k) => Counts(k, L[k - 1], L[k])
News ==
    socket # 0 => \E L : Lengths(L) /\ (Live => L[Len(Wire)] = Len(history))

LEMMA SpokenNews ==
    ASSUME ConnInv, Sayings, News, NEW sent, SpokenStep(sent), socket # 0,
           \E c : /\ c[0] = Len(history) /\ c[Len(sent)] = Len(history')
                  /\ \A k \in 1..Len(sent) : c[k] = Counted(sent[k].frame, c[k - 1])
    PROVE  News'
<1>1. PICK h : Lengths(h) /\ (Live => h[Len(Wire)] = Len(history))
    BY DEF News
<1>2. Len(Wire) \in Nat /\ Len(sent) \in Nat /\ Len(Wire') = Len(Wire) + Len(sent)
    BY WireIs, SpokenWire
<1>3. logs' = logs
    BY DEF SpokenStep, Silent, data
<1> DEFINE n == Len(Wire)
<1>4. ASSUME NEW k \in 1..Len(Wire'), k \notin 1..n
      PROVE  \E j \in 1..Len(sent) : k = n + j
    <2>1. k - n \in 1..Len(sent) /\ k = n + (k - n)
        BY <1>2, <1>4
    <2> QED BY <2>1
<1>5. ASSUME NEW k \in 1..n
      PROVE  /\ FollowsAt(k)' <=> FollowsAt(k)
             /\ \A a, b : Counts(k, a, b) => Counts(k, a, b)'
    <2>1. k \in 0..n /\ k - 1 \in 0..n /\ Wire'[k] = Wire[k]
        BY <1>2, <1>5, SpokenWire
    <2>2. (FollowsAt(k)' <=> FollowsAt(k)) /\ (FollowsAt(k - 1)' <=> FollowsAt(k - 1))
        BY <2>1, SpokenFollows
    <2>3. IsDump(k)' <=> IsDump(k)
        BY <2>1 DEF IsDump
    <2> QED BY <2>1, <2>2, <2>3 DEF Counts
<1>6. CASE ~FollowsAt(n)
    <2>1. ~Live'
        BY <1>6, SpokenFollows DEF Live
    <2>2. ASSUME NEW k \in 1..Len(Wire'), FollowsAt(k)'
          PROVE  Counts(k, h[k - 1], h[k])'
        <3>1. k \in 1..n
            <4> SUFFICES ASSUME k \notin 1..n PROVE FALSE
                OBVIOUS
            <4>1. PICK j \in 1..Len(sent) : k = n + j
                BY <1>4
            <4>2. FollowsAt(k)' <=> FollowsAt(n)
                BY <4>1, SpokenFollows
            <4> QED BY <1>6, <2>2, <4>2
        <3> QED BY <1>1, <1>5, <2>2, <3>1 DEF Lengths
    <2>3. Lengths(h)'
        BY <1>1, <1>3, <2>2 DEF Lengths
    <2> QED BY <2>1, <2>3 DEF News
<1>7. CASE FollowsAt(n)
    <2>1. h[n] = Len(history)
        BY <1>1, <1>7, ReachedIsLive DEF SpokenStep
    <2>2. PICK c : /\ c[0] = h[n] /\ c[Len(sent)] = Len(history')
                   /\ \A k \in 1..Len(sent) : c[k] = Counted(sent[k].frame, c[k - 1])
        BY <2>1
    <2> DEFINE f == [k \in 0..(n + Len(sent)) |-> IF k <= n THEN h[k] ELSE c[k - n]]
    <2>3. f[0] = Len(logs') /\ \A k \in 1..n : f[k] = h[k] /\ f[k - 1] = h[k - 1]
        <3>1. 0 \in 0..(n + Len(sent)) /\ 0 <= n
            BY <1>2
        <3>2. ASSUME NEW k \in 1..n
              PROVE  k \in 0..(n + Len(sent)) /\ k - 1 \in 0..(n + Len(sent)) /\ k <= n /\ k - 1 <= n
            BY <1>2
        <3> HIDE DEF n
        <3>3. f[0] = h[0] /\ \A k \in 1..n : f[k] = h[k] /\ f[k - 1] = h[k - 1]
            BY <3>1, <3>2
        <3> QED BY <1>1, <1>3, <3>3 DEF Lengths
    <2>4. ASSUME NEW j \in 0..Len(sent) PROVE f[n + j] = c[j]
        <3>1. n + j \in 0..(n + Len(sent)) /\ (n + j <= n => n + j = n /\ j = 0) /\ (n + j) - n = j
            BY <1>2
        <3> HIDE DEF n
        <3>2. f[n + j] = IF n + j <= n THEN h[n + j] ELSE c[(n + j) - n]
            BY <3>1
        <3> QED BY <2>2, <3>1, <3>2
    <2> HIDE DEF f
    <2>5. PICK d : d = f
        OBVIOUS
    <2>6. ASSUME NEW k \in 1..Len(Wire'), FollowsAt(k)'
          PROVE  Counts(k, d[k - 1], d[k])'
        <3>1. CASE k \in 1..n
            <4>1. Counts(k, h[k - 1], h[k])'
                BY <1>1, <1>5, <2>6, <3>1 DEF Lengths
            <4> QED BY <2>3, <2>5, <3>1, <4>1
        <3>2. CASE k \notin 1..n
            <4>1. PICK j \in 1..Len(sent) : k = n + j
                BY <1>4, <3>2
            <4>2. j \in 0..Len(sent) /\ j - 1 \in 0..Len(sent) /\ k - 1 = n + (j - 1)
                BY <1>2, <4>1
            <4>3. Wire'[k].frame = sent[j].frame /\ sent[j].frame.kind # "d"
                BY <4>1, SpokenWire
            <4>4. d[k] = c[j] /\ d[k - 1] = c[j - 1]
                BY <2>4, <2>5, <4>1, <4>2
            <4>5. d[k] = Counted(Wire'[k].frame, d[k - 1])
                BY <2>2, <4>3, <4>4
            <4> QED BY <4>3, <4>5 DEF Counts, IsDump
        <3> QED BY <3>1, <3>2
    <2>7. Lengths(d)'
        BY <2>3, <2>5, <2>6 DEF Lengths
    <2>8. Len(Wire') = n + Len(sent) /\ Len(sent) \in 0..Len(sent)
        BY <1>2
    <2>9. d[Len(Wire')] = Len(history')
        BY <2>2, <2>4, <2>5, <2>8
    <2> QED BY <2>7, <2>9 DEF News
<1> QED BY <1>6, <1>7

(* What is not an error leaves the lengths alone. *)
LEMMA SpokenOfOther ==
    ASSUME ConnInv, Sayings, News, NEW sent, SpokenStep(sent), socket # 0,
           \A k \in 1..Len(sent) : sent[k].frame.kind # "l", history' = history
    PROVE  News'
<1>1. Len(sent) \in Nat
    BY SpokenWire
<1>2. PICK c : c = [k \in 0..Len(sent) |-> Len(history)]
    OBVIOUS
<1>3. c[0] = Len(history) /\ c[Len(sent)] = Len(history')
    <2>1. 0 \in 0..Len(sent) /\ Len(sent) \in 0..Len(sent)
        BY <1>1
    <2> QED BY <1>2, <2>1
<1>4. ASSUME NEW k \in 1..Len(sent) PROVE c[k] = Counted(sent[k].frame, c[k - 1])
    <2>1. k \in 0..Len(sent) /\ k - 1 \in 0..Len(sent)
        BY <1>1
    <2> QED BY <1>2, <2>1 DEF Counted
<1> QED BY <1>3, <1>4, SpokenNews

LEMMA ServerNews ==
    ASSUME ConnInv, Sayings, News, Server, ~PushStep, socket \in Reached, socket # 0
    PROVE  News'
<1>1. ASSUME NEW w, NEW sent, Announcement(w, sent) PROVE News'
    <2>1. SpokenStep(sent) /\ history' = history
        BY <1>1, AnnouncementIs DEF SpokenStep, ConnInv
    <2>2. \A k \in 1..Len(sent) : sent[k].frame.kind # "l"
        BY <1>1 DEF Announcement, Proper
    <2> QED BY <2>1, <2>2, SpokenOfOther
<1>2. ASSUME NEW m \in Modules, NEW p \in Props, PushInThread(m, p) PROVE FALSE
    <2>1. down' = down /\ Silent
        BY <1>2, PushInThreadIs DEF ConnInv
    <2> QED BY <1>2, <2>1 DEF PushStep, Silent, Wire
<1>3. CASE LogError
    <2> DEFINE x == Sent(Frame("l", "", "", 0, events'), world)
    <2>1. Spoken(<<x>>) /\ Silent
        BY <1>3, LogErrorIs DEF ConnInv
    <2>2. x.frame.kind = "l"
        BY DEF Sent, Frame
    <2>3. Len(history') = Counted(x.frame, Len(history))
        <3>1. history \in Logs /\ events' \in Int
            <4>1. events' = events + 1 /\ events \in Nat
                BY <1>3 DEF LogError, Occurs, ConnInv, Types
            <4> QED BY <4>1 DEF ConnInv, Types
        <3>2. history' = Logged(history, events')
            BY <1>3 DEF LogError
        <3> QED BY <2>2, <3>1, <3>2, LoggedIs DEF Counted
    <2> HIDE DEF x
    <2>4. PICK sent : sent = <<x>>
        OBVIOUS
    <2>5. SpokenStep(sent) /\ Len(sent) = 1 /\ sent[1] = x
        BY <2>1, <2>4, SingleIsSeq DEF SpokenStep
    <2>6. PICK c : c = [k \in 0..1 |-> IF k = 0 THEN Len(history) ELSE Len(history')]
        OBVIOUS
    <2>7. c[0] = Len(history) /\ c[1] = Len(history')
        BY <2>6
    <2>8. \A k \in 1..Len(sent) : c[k] = Counted(sent[k].frame, c[k - 1])
        BY <2>3, <2>5, <2>7
    <2> QED BY <2>5, <2>7, <2>8, SpokenNews
<1>4. CASE PostedDelivered
    <2> DEFINE x == Sent(Told(world, Head(posted)), world)
    <2>1. Spoken(<<x>>) /\ Silent /\ history' = history
        BY <1>4, PostedDeliveredIs DEF ConnInv
    <2>2. x.frame.kind # "l"
        BY DEF Sent, Told, Frame
    <2> HIDE DEF x
    <2>3. PICK sent : sent = <<x>>
        OBVIOUS
    <2>4. SpokenStep(sent) /\ Len(sent) = 1 /\ sent[1] = x
        BY <2>1, <2>3, SingleIsSeq DEF SpokenStep
    <2>5. \A k \in 1..Len(sent) : sent[k].frame.kind # "l"
        BY <2>2, <2>4
    <2> QED BY <2>1, <2>4, <2>5, SpokenOfOther
<1>5. IsWorld(world)
    BY DEF ConnInv, Types
<1> QED BY <1>1, <1>2, <1>3, <1>4, <1>5, ServerCases
LEMMA AnsweredNews ==
    ASSUME ConnInv, Sayings, News, AnswerStep, socket # 0
    PROVE  News'
<1>1. UNCHANGED <<history, near, far, socket, logs>> /\ socket \in Reached
    BY AnsweredIs, WireIs DEF AnswerStep, ConnInv
<1>2. PICK h : Lengths(h) /\ (Live => h[Len(Wire)] = Len(history))
    BY DEF News
<1>3. PICK n \in Nat : n = Len(Wire) /\ Len(Wire') = n + 1
    BY WireIs, AnsweredWire
<1>4. PICK f : f = [k \in 0..(n + 1) |-> IF k = n + 1 THEN Len(history) ELSE h[k]]
    OBVIOUS
<1>5. f[0] = h[0] /\ f[n + 1] = Len(history) /\ f[n] = h[n]
      /\ \A k \in 1..n : f[k] = h[k] /\ f[k - 1] = h[k - 1]
    <2>1. 0 \in 0..(n + 1) /\ 0 # n + 1 /\ n + 1 \in 0..(n + 1) /\ n \in 0..(n + 1) /\ n # n + 1
        BY <1>3
    <2>2. ASSUME NEW k \in 1..n
          PROVE  k \in 0..(n + 1) /\ k - 1 \in 0..(n + 1) /\ k # n + 1 /\ k - 1 # n + 1
        BY <1>3
    <2> QED BY <1>4, <2>1, <2>2
<1>6. ASSUME NEW k \in 1..Len(Wire'), FollowsAt(k)'
      PROVE  Counts(k, f[k - 1], f[k])'
    <2>1. CASE k \in 1..n
        <3>1. k \in 0..n /\ k - 1 \in 0..n /\ Wire'[k] = Wire[k]
            BY <1>3, <2>1, AnsweredWire
        <3>2. (FollowsAt(k)' <=> FollowsAt(k)) /\ (FollowsAt(k - 1)' <=> FollowsAt(k - 1))
            BY <1>3, <3>1, AnsweredFollows
        <3>3. Counts(k, f[k - 1], f[k])
            BY <1>2, <1>3, <1>5, <1>6, <2>1, <3>2 DEF Lengths
        <3> QED BY <3>1, <3>2, <3>3 DEF Counts, IsDump
    <2>2. CASE k \notin 1..n
        <3>1. k = n + 1 /\ k - 1 = n /\ k - 1 \in 0..n
            BY <1>3, <2>2
        <3>2. grant' # "-1"
            BY <1>3, <1>6, <3>1, AnsweredFollows
        <3>3. Wire'[k] = Answer(grant')
            BY <1>3, <3>1, AnsweredWire
        <3>4. Answer(grant').frame.kind = "d" /\ Answer(grant').frame.body.logs = history
            BY <3>2, AnswerIs DEF ConnInv
        <3> HIDE DEF Answer
        <3>5. FollowsAt(k - 1)' => f[k - 1] = Len(history)
            <4> SUFFICES ASSUME FollowsAt(k - 1)' PROVE f[k - 1] = Len(history)
                OBVIOUS
            <4>1. FollowsAt(n)
                BY <1>3, <3>1, AnsweredFollows
            <4>2. Live
                BY <1>1, <1>3, <4>1, ReachedIsLive
            <4> QED BY <1>2, <1>3, <1>5, <3>1, <4>2
        <3> QED BY <1>5, <3>1, <3>3, <3>4, <3>5 DEF Counts, IsDump
    <2> QED BY <2>1, <2>2
<1>7. Lengths(f)'
    BY <1>1, <1>2, <1>5, <1>6 DEF Lengths
<1>8. f[Len(Wire')] = Len(history')
    BY <1>1, <1>3, <1>5
<1> QED BY <1>7, <1>8 DEF News

(* What the page does to its log for the message it reads *)
LEMMA ReadLogs ==
    ASSUME ConnInv, Message(socket), socket \in Sockets
    PROVE  /\ IsDump(1) => logs' = Wire[1].frame.body.logs
           /\ ~IsDump(1) => Len(logs') = Counted(Wire[1].frame, Len(logs))
<1> DEFINE f == Wire[1].frame
<1>1. f = Head(down[socket]).frame /\ IsMessage(Wire[1])
    BY MessageIs DEF Wire
<1>2. CASE f.kind = "d"
    <2>1. ApplyFullDump(f)
        BY <1>1, <1>2, MessageIs
    <2> QED BY <1>2, <2>1 DEF ApplyFullDump, IsDump
<1>3. CASE f.kind = "l"
    <2>1. ApplyLog(f) /\ f.body \in Int
        BY <1>1, <1>3, MessageIs DEF IsMessage
    <2>2. logs \in Logs
        BY DEF ConnInv, Types
    <2>3. logs' = Logged(logs, f.body)
        BY <2>1 DEF ApplyLog
    <2>4. f.body \in Int
        BY <2>1
    <2> QED BY <1>3, <2>2, <2>3, <2>4, LoggedIs DEF Counted, IsDump
<1>4. CASE f.kind \notin {"d", "l"}
    <2>1. logs' = logs
        BY <1>1, <1>4, ShownIs
    <2> QED BY <1>4, <2>1 DEF Counted, IsDump
<1> QED BY <1>2, <1>3, <1>4

LEMMA ReadNews ==
    ASSUME ConnInv, Sayings, News, Message(socket), socket \in Sockets
    PROVE  News'
<1>1. UNCHANGED <<history, near, far, socket>> /\ socket # 0
    BY MessageIs
<1>2. PICK h : Lengths(h) /\ (Live => h[Len(Wire)] = Len(history))
    BY <1>1 DEF News
<1>3. PICK n \in Nat : n = Len(Wire') /\ Len(Wire) = n + 1
    <2>1. Len(Wire) \in Nat /\ Len(Wire') = Len(Wire) - 1 /\ 1 \in 1..Len(Wire)
        BY ReadWire
    <2>2. Len(Wire') \in Nat /\ Len(Wire) = Len(Wire') + 1
        BY <2>1
    <2> QED BY <2>2
<1>4. PICK f : f = [k \in 0..n |-> IF k = 0 THEN Len(logs') ELSE h[k + 1]]
    OBVIOUS
<1>5. f[0] = Len(logs') /\ \A k \in 1..n : f[k] = h[k + 1] /\ (k # 1 => f[k - 1] = h[k])
    <2>1. 0 \in 0..n
        BY <1>3
    <2>2. ASSUME NEW k \in 1..n
          PROVE  /\ k \in 0..n /\ k - 1 \in 0..n /\ k # 0 /\ (k - 1) + 1 = k
                 /\ k # 1 => k - 1 # 0
        BY <1>3
    <2>3. \A k \in 1..n : f[k] = h[k + 1]
        BY <1>4, <2>2
    <2>4. ASSUME NEW k \in 1..n, k # 1 PROVE f[k - 1] = h[k]
        <3>1. f[k - 1] = h[(k - 1) + 1]
            BY <1>4, <2>2, <2>4
        <3> QED BY <2>2, <3>1
    <2> QED BY <1>4, <2>1, <2>3, <2>4
<1>6. FollowsAt(1) => h[1] = Len(logs')
    <2> SUFFICES ASSUME FollowsAt(1) PROVE h[1] = Len(logs')
        OBVIOUS
    <2>1. 1 \in 1..Len(Wire) /\ h[1 - 1] = Len(logs)
        BY <1>2, ReadWire DEF Lengths
    <2>2. Counts(1, Len(logs), h[1])
        BY <1>2, <2>1 DEF Lengths
    <2> QED BY <2>2, ReadLogs DEF Counts
<1>7. ASSUME NEW k \in 1..n, FollowsAt(k)'
      PROVE  Counts(k, f[k - 1], f[k])'
    <2>1. /\ k \in 0..Len(Wire') /\ k \in 1..Len(Wire') /\ k + 1 \in 1..Len(Wire)
          /\ (k + 1) - 1 = k /\ k - 1 \in 0..Len(Wire') /\ (k - 1) + 1 = k
        BY <1>3
    <2>2. FollowsAt(k + 1) /\ (FollowsAt(k - 1)' <=> FollowsAt(k))
        BY <1>7, <2>1, ReadFollows
    <2>3. Wire'[k] = Wire[k + 1] /\ (IsDump(k)' <=> IsDump(k + 1))
        BY <2>1, ReadWire DEF IsDump
    <2>4. Counts(k + 1, h[k], h[k + 1])
        BY <1>2, <2>1, <2>2 DEF Lengths
    <2>5. f[k] = h[k + 1]
        BY <1>5
    <2>6. CASE f[k - 1] = h[k]
        BY <2>1, <2>2, <2>3, <2>4, <2>5, <2>6 DEF Counts
    <2>7. CASE k = 1 /\ ~FollowsAt(k)
        <3>1. IsDump(k + 1)
            BY <1>1, <2>1, <2>2, <2>7 DEF Sayings
        <3> QED BY <2>2, <2>3, <2>4, <2>5, <2>7, <3>1 DEF Counts
    <2>8. k = 1 /\ FollowsAt(k) => f[k - 1] = h[k]
        BY <1>5, <1>6
    <2> QED BY <1>5, <2>6, <2>7, <2>8
<1>8. Lengths(f)'
    BY <1>3, <1>5, <1>7 DEF Lengths
<1>9. ASSUME Live' PROVE f[n] = Len(history)
    <2>1. Live
        BY <1>1, <1>9, ReadFollows DEF Live, Open
    <2>2. h[n + 1] = Len(history)
        BY <1>2, <1>3, <2>1
    <2>3. CASE n = 0
        <3>1. FollowsAt(1)
            BY <1>3, <2>1, <2>3 DEF Live
        <3> QED BY <1>5, <1>6, <2>2, <2>3, <3>1
    <2>4. CASE n # 0
        BY <1>3, <1>5, <2>2, <2>4, LastIsIn
    <2> QED BY <2>3, <2>4
<1>10. Live' => f[Len(Wire')] = Len(history')
    BY <1>1, <1>3, <1>9
<1> QED BY <1>8, <1>10 DEF News

LEMMA FreshNews ==
    ASSUME FreshStep
    PROVE  News'
<1>1. Wire' = <<>> /\ Len(Wire') = 0 /\ ~Informed'
    BY DEF FreshStep, Informed
<1>2. PICK h : h = [k \in {0} |-> Len(logs')]
    OBVIOUS
<1>3. h[0] = Len(logs')
    BY <1>2
<1>4. Lengths(h)'
    BY <1>1, <1>3 DEF Lengths
<1>5. ~Live'
    BY <1>1 DEF Live, FollowsAt
<1> QED BY <1>4, <1>5 DEF News

LEMMA SameNews ==
    ASSUME News, socket' = socket, Wire' = Wire, UNCHANGED <<logs, session, pending>>,
           Live' => Live /\ history' = history
    PROVE  News'
<1>1. SUFFICES ASSUME socket # 0 PROVE News'
    BY DEF News
<1>2. PICK h : Lengths(h) /\ (Live => h[Len(Wire)] = Len(history))
    BY <1>1 DEF News
<1>3. \A k : FollowsAt(k)' <=> FollowsAt(k)
    BY DEF FollowsAt, Informed
<1>4. \A k, a, b : Counts(k, a, b)' <=> Counts(k, a, b)
    BY <1>3 DEF Counts, IsDump
<1>5. Lengths(h)'
    BY <1>2, <1>3, <1>4 DEF Lengths
<1>6. Live' => h[Len(Wire')] = Len(history')
    BY <1>2
<1> QED BY <1>5, <1>6 DEF News

LEMMA NewsStay ==
    ASSUME ConnInv, ConnInv', Sayings, News, ~MayOverlap, [Next]_vars
    PROVE  News'
<1> SUFFICES ASSUME socket' # 0 PROVE News'
    BY DEF News
<1>1. CASE FreshStep
    BY <1>1, FreshNews
<1>2. CASE QuietStep
    BY <1>2, SameNews DEF QuietStep, data
<1>3. CASE PushStep
    <2>1. PICK m \in Modules, p \in Props : PushInThread(m, p)
        BY <1>3 DEF PushStep
    <2>2. history' = history /\ UNCHANGED <<near, far, logs, session, pending, socket, Wire>>
        BY <1>3, <2>1, PushInThreadIs DEF PushStep, Silent, data, ConnInv
    <2>3. Live' => Live
        BY <2>2 DEF Live, Open, FollowsAt, Informed
    <2> QED BY <2>2, <2>3, SameNews
<1>4. CASE AnswerStep
    <2>1. socket # 0
        BY <1>4, AnsweredIs, SocketIs DEF AnswerStep, Reached, ConnInv, Types
    <2> QED BY <1>4, <2>1, AnsweredNews
<1>5. CASE Message(socket) /\ socket \in Sockets
    BY <1>5, ReadNews
<1>6. CASE Server /\ ~PushStep /\ socket \in Reached /\ Silent
    <2>1. socket # 0
        BY <1>6 DEF Silent
    <2> QED BY <1>6, <2>1, ServerNews
<1> QED BY <1>1, <1>2, <1>3, <1>4, <1>5, <1>6, WireSteps
-----------------------------------------------------------------------------
(* What is shown as news                                                     *)

(* Only the reading of a message takes one off the way. *)
LEMMA TakenIsRead ==
    ASSUME ConnInv, [Next]_vars, NEW i \in Sockets, Takes(i)
    PROVE  Message(i)
<1>1. Len(down'[i]) = Len(down[i]) - 1 /\ Len(down[i]) \in Nat
    <2>1. IsSeq(down[i]) /\ down[i] # <<>> /\ down'[i] = Tail(down[i])
        BY DEF Takes, ConnInv, Types
    <2> QED BY <2>1, SeqIs, TailIs
<1>2. Len(down'[i]) # Len(down[i]) /\ ~(Len(down'[i]) > Len(down[i]))
    BY <1>1
<1>3. down'[i] # down[i]
    BY <1>2
<1>4. CASE Browser
    <2>1. down' = down
        BY <1>4 DEF Browser, Connect, Disconnect, Send, SelectView, wire
    <2> QED BY <1>3, <2>1
<1>5. ASSUME NEW j \in Sockets, Accept(j) \/ Opened(j) \/ SocketDisconnected(j) PROVE FALSE
    <2>1. down' = down
        BY <1>5 DEF Accept, Opened, SocketDisconnected
    <2> QED BY <1>3, <2>1
<1>6. ASSUME NEW j \in Sockets, Closed(j) PROVE FALSE
    <2>1. down' = [down EXCEPT ![j] = <<>>] /\ near' = [near EXCEPT ![j] = "closed"]
        BY <1>6 DEF Closed, Ends
    <2>2. CASE i = j
        <3>1. near'[i] = "closed"
            BY <2>1, <2>2 DEF ConnInv, Types
        <3> QED BY <3>1 DEF Takes
    <2>3. CASE i # j
        <3>1. down'[i] = down[i]
            BY <2>1, <2>3 DEF ConnInv, Types
        <3> QED BY <1>3, <3>1
    <2> QED BY <2>2, <2>3
<1>7. ASSUME NEW j \in Sockets, ProcessTextMessage(j) PROVE FALSE
    <2>1. CASE down'[i] = down[i]
        BY <1>3, <2>1
    <2>2. CASE down'[i] # down[i]
        <3>1. down'[i] = Append(down[i], Answer(grant'))
            BY <1>7, <2>2, AnsweredIs DEF ConnInv
        <3>2. IsSeq(down[i])
            BY DEF ConnInv, Types
        <3> HIDE DEF Answer
        <3>3. Len(down'[i]) = Len(down[i]) + 1
            BY <3>1, <3>2, AppendIs
        <3> QED BY <1>1, <1>2, <3>3
    <2> QED BY <2>1, <2>2
<1>8. ASSUME NEW j \in Sockets, Message(j) PROVE Message(i)
    <2>1. CASE i = j
        BY <1>8, <2>1
    <2>2. CASE i # j
        BY <1>3, <1>8, <2>2, ReadIs
    <2> QED BY <2>1, <2>2
<1>9. CASE Server
    <2>1. CASE down' = down
        BY <1>3, <2>1
    <2>2. ASSUME NEW sent, Spoken(sent) PROVE FALSE
        <3>1. IsSeq(sent) /\ Broadcast(sent) /\ Len(sent) \in Nat
            BY <2>2, SeqIs DEF Spoken
        <3>2. i \notin Reached => down'[i] = down[i]
            BY <3>1, Heard DEF ConnInv
        <3>3. i \in Reached => Len(down'[i]) = Len(down[i]) + Len(sent)
            BY <3>1, Heard DEF ConnInv
        <3>4. Len(down'[i]) = Len(down[i]) + Len(sent)
            BY <1>3, <3>2, <3>3
        <3> QED BY <1>1, <3>1, <3>4
    <2> QED BY <1>9, <2>1, <2>2, ServerSpeaks DEF ConnInv
<1>10. CASE UNCHANGED vars
    BY <1>3, <1>10 DEF vars, wire
<1> QED BY <1>4, <1>5, <1>6, <1>7, <1>8, <1>9, <1>10 DEF Next, Network

LEMMA DumpIsNoNews ==
    ASSUME ConnInv, Sayings, News, Message(socket), socket \in Sockets,
           IsDump(1), session # "-1"
    PROVE  toasts' = {}
<1> DEFINE log == Wire[1].frame.body.logs
<1>1. ApplyFullDump(Wire[1].frame) /\ 1 \in 1..Len(Wire) /\ socket # 0
    BY MessageIs DEF IsDump, Wire
<1>2. toasts' = IF pending THEN {} ELSE {log[k] : k \in (seenLogs + 1)..Len(log)}
    BY <1>1 DEF ApplyFullDump, ShowNews
<1>3. CASE pending
    BY <1>2, <1>3
<1>4. CASE ~pending
    <2>1. seenLogs = Len(logs) /\ logs \in Logs
        BY DEF ConnInv, Types
    <2>2. Len(logs) \in Nat
        BY <2>1 DEF Logs
    <2>3. Len(log) = Len(logs) \/ Len(log) = 0
        <3>1. CASE FollowsAt(1)
            <4>1. PICK h : Lengths(h)
                BY <1>1 DEF News
            <4>2. FollowsAt(1 - 1)
                BY <1>4 DEF FollowsAt, Informed
            <4>3. Counts(1, h[1 - 1], h[1]) /\ h[1 - 1] = Len(logs)
                BY <1>1, <3>1, <4>1 DEF Lengths
            <4> QED BY <4>2, <4>3 DEF Counts
        <3>2. CASE ~FollowsAt(1)
            <4>1. log = <<>>
                BY <1>1, <3>2 DEF Sayings
            <4> QED BY <4>1
        <3> QED BY <3>1, <3>2
    <2> HIDE DEF log
    <2>4. (seenLogs + 1)..Len(log) = {}
        BY <2>1, <2>2, <2>3
    <2> QED BY <1>2, <1>4, <2>4
<1> QED BY <1>3, <1>4

LEMMA LogIsNews ==
    ASSUME ConnInv, Message(socket), socket \in Sockets, Wire[1].frame.kind = "l"
    PROVE  /\ toasts' \subseteq {Wire[1].frame.body}
           /\ ~pending /\ Len(logs) < LogLimit => toasts' = {Wire[1].frame.body}
<1> DEFINE e == Wire[1].frame.body
<1>1. ApplyLog(Wire[1].frame) /\ e \in Int
    BY MessageIs DEF Wire, IsMessage
<1>2. /\ logs' = Logged(logs, e)
      /\ toasts' = IF pending THEN {} ELSE {logs'[k] : k \in (seenLogs + 1)..Len(logs')}
    BY <1>1 DEF ApplyLog, ShowNews
<1>3. seenLogs = Len(logs) /\ logs \in Logs
    BY DEF ConnInv, Types
<1>4. Len(logs) \in Nat /\ logs \in Seq(Int)
    BY <1>3 DEF Logs
<1>5. e \in Int
    BY <1>1
<1> HIDE DEF e
<1>6. /\ Len(logs') = IF Len(logs) < LogLimit THEN Len(logs) + 1 ELSE Len(logs)
      /\ Len(logs) < LogLimit => logs' = Append(logs, e)
    BY <1>2, <1>3, <1>5, LoggedIs
<1>7. CASE pending
    BY <1>2, <1>7 DEF e
<1>8. CASE ~pending /\ ~(Len(logs) < LogLimit)
    <2>1. (seenLogs + 1)..Len(logs') = {}
        BY <1>3, <1>4, <1>6, <1>8
    <2> QED BY <1>2, <1>8, <2>1 DEF e
<1>9. CASE ~pending /\ Len(logs) < LogLimit
    <2>1. (seenLogs + 1)..Len(logs') = {Len(logs) + 1}
        BY <1>3, <1>4, <1>6, <1>9
    <2>2. logs'[Len(logs) + 1] = e
        BY <1>4, <1>5, <1>6, <1>9
    <2>3. toasts' = {e}
        BY <1>2, <1>9, <2>1, <2>2
    <2> QED BY <2>3 DEF e
<1> QED BY <1>7, <1>8, <1>9

NewsOf(i) ==
    LET f == Head(down[i]).frame
    IN  /\ f.kind = "d" /\ session # "-1" => toasts' = {}
        /\ f.kind = "l" /\ ~pending /\ Len(logs) < LogLimit => toasts' = {f.body}
        /\ f.kind = "l" => toasts' \subseteq {f.body}

LEMMA TakenIsNews ==
    ASSUME ConnInv, Sayings, News, [Next]_vars, NEW i \in Sockets, Takes(i)
    PROVE  NewsOf(i)
<1>1. Message(i)
    BY TakenIsRead
<1>2. i = socket /\ Head(down[i]).frame = Wire[1].frame
    BY <1>1, MessageIs DEF Wire
<1>3. Message(socket) /\ socket \in Sockets
    BY <1>1, <1>2
<1>4. IsDump(1) /\ session # "-1" => toasts' = {}
    BY <1>3, DumpIsNoNews
<1> QED BY <1>2, <1>3, <1>4, LogIsNews DEF NewsOf, IsDump

-----------------------------------------------------------------------------
(* The view that is restored                                                 *)

Views ==
    /\ down = [i \in Sockets |-> down[i]]
    /\ view \in Modules => lastView = view

LEMMA ViewsAtFirst == Init => Views
BY NamesAssumption DEF Init, Views

(* A step that changes the copy and the view kept has read a message. *)
LEMMA KeptView ==
    ASSUME Views, NEW i \in Sockets, Message(i)
    PROVE  /\ Views' /\ Takes(i)
           /\ lastView' # lastView /\ lastView \in Modules => lastView \notin DOMAIN store'
<1> DEFINE f == Head(down[i]).frame
<1>1. /\ Open(i) /\ down[i] # <<>> /\ near' = near /\ down' = [down EXCEPT ![i] = Tail(@)]
      /\ ApplyFullDump(f) \/ ApplyLog(f) \/ ApplyModules(f)
    BY DEF Message
<1>2. Takes(i) /\ down' = [j \in Sockets |-> down'[j]]
    BY <1>1 DEF Takes, Open, Views
<1> HIDE DEF f
<1>3. CASE ApplyLog(f)
    BY <1>2, <1>3 DEF ApplyLog, Views
<1>4. CASE view' = ViewAfter(store') /\ lastView' = IF view' # view THEN view' ELSE lastView
    BY <1>2, <1>4 DEF ViewAfter, IsModuleView, Views
<1>5. CASE view' = view /\ lastView' = IF view' # view THEN view' ELSE lastView
    BY <1>2, <1>5 DEF Views
<1>6. CASE /\ view = "none" /\ view' = Restored(store')
           /\ lastView' = IF view' # view THEN view' ELSE lastView
    BY <1>2, <1>6 DEF Restored, Views
<1> QED BY <1>1, <1>3, <1>4, <1>5, <1>6 DEF ApplyFullDump, ApplyModules, Restores

LEMMA ViewsStay ==
    ASSUME Views, [Next]_vars
    PROVE  /\ Views'
           /\ lastView # lastView' /\ lastView \in Modules /\ data' # data
                => lastView \notin DOMAIN store' /\ \E i \in Sockets : Takes(i)
<1>1. ASSUME NEW i \in Sockets, Message(i)
      PROVE  /\ Views' /\ Takes(i)
             /\ lastView' # lastView /\ lastView \in Modules => lastView \notin DOMAIN store'
    BY <1>1, KeptView
<1>2. CASE UNCHANGED <<down, view, lastView>>
    BY <1>2 DEF Views
<1>3. CASE Connect
    <2>1. down' = down /\ view' = "none" /\ lastView' = lastView
        BY <1>3 DEF Connect
    <2> QED BY <2>1, NamesAssumption DEF Views
<1>4. ASSUME NEW v, SelectView(v) PROVE Views' /\ data' = data
    <2>1. down' = down /\ view' = v /\ lastView' = v /\ data' = data
        BY <1>4 DEF SelectView, wire
    <2> QED BY <2>1 DEF Views
<1>5. ASSUME NEW i \in Sockets, Closed(i) PROVE Views' /\ lastView' = lastView
    <2>1. /\ down' = [down EXCEPT ![i] = <<>>] /\ lastView' = lastView
          /\ view' = IF IsModuleView(view) \/ view = "home" THEN "controller" ELSE view
        BY <1>5 DEF Closed, Ends
    <2>2. view' \notin Modules
        BY <2>1, NamesAssumption DEF IsModuleView
    <2> QED BY <2>1, <2>2 DEF Views
<1>6. ASSUME NEW i \in Sockets, ProcessTextMessage(i) PROVE Views' /\ lastView' = lastView
    <2>1. view' = view /\ lastView' = lastView
        BY <1>6 DEF ProcessTextMessage, shell
    <2>2. down' = down \/ \E x : down' = [down EXCEPT ![i] = x]
        BY <1>6 DEF ProcessTextMessage, SendTo
    <2> QED BY <2>1, <2>2 DEF Views
<1>7. ASSUME UNCHANGED <<view, lastView>>, \E sent : Broadcast(sent) PROVE Views'
    BY <1>7 DEF Broadcast, Views
<1>8. ASSUME NEW w, NEW sent, Announces(w, sent) PROVE Views' /\ lastView' = lastView
    <2>1. UNCHANGED <<view, lastView>> /\ Broadcast(sent)
        BY <1>8 DEF Announces, shell
    <2> QED BY <1>7, <2>1
<1>9. CASE Server
    <2>1. CASE \E m \in Modules :
                 \/ \E v \in Values, early \in SUBSET Props : LoadModule(m, v, early)
                 \/ KillModule(m)
        BY <1>8, <2>1 DEF LoadModule, KillModule
    <2>2. ASSUME NEW kind, NEW m, NEW p, NEW i, NEW b, NEW prop,
                 AnnouncesProp(kind, m, p, i, b, prop)
          PROVE  Views' /\ lastView' = lastView
        BY <1>8, <2>2 DEF AnnouncesProp
    <2>3. ASSUME NEW m, NEW p,
                 \/ \E prop \in Contents : SendProperty(m, p, prop)
                 \/ ClearGrid(m, p)
                 \/ \E v \in Values : SetValue(m, p, v)
                 \/ \E i \in 1..(MaxEvents + 1) :
                       DeleteLine(m, p, i) \/ \E j \in 1..(MaxEvents + 1) : SwapLines(m, p, i, j)
          PROVE  Views' /\ lastView' = lastView
        BY <2>2, <2>3 DEF SendProperty, ClearGrid, SetValue, DeleteLine, SwapLines
    <2>4. ASSUME NEW m, NEW p, DeleteProperty(m, p) PROVE Views' /\ lastView' = lastView
        BY <1>8, <2>4 DEF DeleteProperty
    <2>5. ASSUME NEW m, NEW p, NEW v, NewLine(m, p, v) PROVE Views' /\ lastView' = lastView
        BY <1>8, <2>5 DEF NewLine
    <2>6. ASSUME NEW m, NEW p, NEW i, NEW v, UpdateLine(m, p, i, v)
          PROVE  Views' /\ lastView' = lastView
        BY <1>8, <2>6 DEF UpdateLine
    <2>7. CASE \E m \in Modules, p \in Props : PushInThread(m, p)
        BY <1>2, <2>7 DEF PushInThread, wire, shell
    <2>8. CASE LogError
        BY <1>7, <2>8 DEF LogError, shell
    <2>9. CASE PostedDelivered
        BY <1>7, <2>9 DEF PostedDelivered, shell
    <2> QED BY <1>9, <2>1, <2>3, <2>7, <2>8, <2>9, <2>4, <2>5, <2>6 DEF Server
<1>10. CASE Disconnect \/ \E c : Send(c)
    BY <1>2, <1>10 DEF Disconnect, Send, shell
<1>11. ASSUME NEW i \in Sockets, Accept(i) \/ Opened(i) \/ SocketDisconnected(i)
       PROVE  UNCHANGED <<down, view, lastView>>
    BY <1>11 DEF Accept, Opened, SocketDisconnected, shell
<1>12. CASE UNCHANGED vars
    BY <1>2, <1>12 DEF vars, wire, shell
<1> QED BY <1>1, <1>2, <1>3, <1>4, <1>5, <1>6, <1>9, <1>10, <1>11, <1>12
        DEF Next, Browser, Network
-----------------------------------------------------------------------------
(* The theorems                                                              *)

LEMMA RestAtFirst == Init => Sayings /\ Grants /\ Mirror /\ News
<1> SUFFICES ASSUME Init PROVE Sayings /\ Grants /\ Mirror /\ News
    OBVIOUS
<1>1. socket = 0
    BY DEF Init
<1> QED BY <1>1 DEF Sayings, Grants, Known, Mirror, News

(* Whatever is pressed, lost or sent, the page has one connection at a time, *)
(* and the messages under way say what it will know.                         *)
LEMMA ConnAlways ==
    ASSUME ~MayOverlap
    PROVE  Spec => [](ConnInv /\ Sayings)
<1>1. Init => ConnInv /\ Sayings
    BY ConnAtFirst, RestAtFirst
<1>2. ConnInv /\ Sayings /\ [Next]_vars => (ConnInv /\ Sayings)'
    BY ConnStays, SayingsStay
<1> QED BY <1>1, <1>2, PTL DEF Spec

(* A page that is not connected shows nothing of the server it was connected *)
(* to, and its heartbeat runs only on the open socket (connection.js,        *)
(* Datastore.reset()).                                                       *)
THEOREM NothingSurvives ==
    ASSUME ~MayOverlap
    PROVE  Spec => []NothingOutlives
<1>1. ConnInv => NothingOutlives
    BY DEF ConnInv
<1> QED BY <1>1, ConnAlways, PTL

(* The grants the page shows are those the server keeps of its address       *)
(* (mClientGrants in wshandler.cpp).                                         *)
THEOREM GrantsAgree ==
    ASSUME ~MayOverlap
    PROVE  Spec => []GrantIsKnown
<1>1. Init => Grants
    BY RestAtFirst
<1>2. ConnInv /\ ConnInv' /\ Sayings /\ Grants /\ [Next]_vars => Grants'
    BY GrantsStay
<1>3. ConnInv /\ Grants => GrantIsKnown
    BY GrantFromGrants
<1> QED BY <1>1, <1>2, <1>3, ConnAlways, PTL DEF Spec

(* A page that has read everything shows the server's modules, whatever was  *)
(* broadcast before, between and after its dump: each message of             *)
(* PropertyMulti, the Controller and the INDI thread takes the copy of       *)
(* datastore.js exactly one step further.                                    *)
THEOREM CopyIsTrue ==
    ASSUME ~MayOverlap
    PROVE  Spec => []Mirrored
<1>1. Init => Mirror
    BY RestAtFirst
<1>2. ConnInv /\ ConnInv' /\ Sayings /\ Mirror /\ [Next]_vars => Mirror'
    BY MirrorStays
<1>3. ConnInv /\ Mirror => Mirrored
    BY MirroredFromMirror
<1> QED BY <1>1, <1>2, <1>3, ConnAlways, PTL DEF Spec

(* An error is shown once, when it arrives, and never because a dump repeats *)
(* it (the logs subscription of app.js).                                     *)
THEOREM NewsOnce ==
    ASSUME ~MayOverlap
    PROVE  Spec => ToastsAreNews
<1>1. Init => News
    BY RestAtFirst
<1>2. ConnInv /\ ConnInv' /\ Sayings /\ News /\ [Next]_vars => News'
    BY NewsStay
<1>3. ConnInv /\ Sayings /\ News /\ [Next]_vars =>
          [\A i \in Sockets : Takes(i) =>
              LET f == Head(down[i]).frame IN
              /\ f.kind = "d" /\ session # "-1" => toasts' = {}
              /\ f.kind = "l" /\ ~pending /\ Len(logs) < LogLimit => toasts' = {f.body}
              /\ f.kind = "l" => toasts' \subseteq {f.body}
          ]_vars
    BY TakenIsNews DEF NewsOf
<1> QED BY <1>1, <1>2, <1>3, ConnAlways, PTL DEF Spec, ToastsAreNews

(* The view to restore after a reconnection survives the loss of the         *)
(* connection (onStatus, reset() and the modules subscription of app.js),    *)
(* also when connections overlap.                                            *)
THEOREM ViewIsKept == Spec => KeepsLastView
<1>1. Views /\ [Next]_vars => Views'
    BY ViewsStay
<1>2. Views /\ [Next]_vars =>
          [lastView # lastView' /\ lastView \in Modules /\ data' # data
             => lastView \notin DOMAIN store' /\ \E i \in Sockets : Takes(i)]_vars
    BY ViewsStay
<1> QED BY <1>1, <1>2, ViewsAtFirst, PTL DEF Spec, KeepsLastView
=============================================================================
