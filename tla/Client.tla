-------------------------------- MODULE Client --------------------------------
(***************************************************************************)
(* The web client's copy of the server (src/front/core/connection.js and   *)
(* datastore.js), the parts of its shell that live on it (js/app.js: the   *)
(* view, the login, the toasts) and the server's front door                *)
(* (src/wshandler.cpp).                                                    *)
(*                                                                         *)
(* A socket is a pair of queues.  Its two ends learn of its end at         *)
(* different times: what was on the way is lost, and the server goes on    *)
(* writing to a socket that only it holds.                                 *)
(*                                                                         *)
(* What the modules do is seen through the messages they broadcast.  On    *)
(* the main thread a change and its message are one step; a row pushed on  *)
(* the thread of the INDI client is there at once, and the events about it *)
(* are posted to the main thread, which makes messages of them later.  The *)
(* log is reduced to its errors, and the messages that carry a part of a   *)
(* property other than its values and rows (ps, ev, el), the lovs, files   *)
(* and profiles are left out.                                              *)
(***************************************************************************)
EXTENDS Integers, Sequences, FiniteSets

CONSTANTS
    Modules,          \* names of modules
    Props,            \* names of properties
    Values,           \* values of a property's elements, or of one row
    GridLimit,        \* mGridLimit; 0 is no limit
    LogLimit,         \* length of the log, here and on the server (1000)
    ServerGrant,      \* mServerGrant: "0", "1" or "2"
    WorldsAtStart,    \* what the server may hold when the page is opened
    LogsAtStart,      \* and the errors it may have logged, numbered up to 0
    Selectable,       \* the views the user turns to
    MayPush,          \* rows are pushed on the INDI thread
    MayOverlap,       \* Connect is pressed beside a connection that lives
    MaxSockets,       \* bound: sockets opened by this page
    MaxEvents,        \* bound: what modules and logger broadcast
    MaxBoth,          \* bound: the two together
    MaxUp             \* bound: what is on the way when the user acts

ASSUME ClientAssumption ==
    /\ \A log \in LogsAtStart : log \in Seq(Int) /\ Len(log) <= LogLimit
    /\ GridLimit \in Nat /\ LogLimit \in Nat \ {0}
    /\ ServerGrant \in {"0", "1", "2"}
    /\ MayPush \in BOOLEAN /\ MayOverlap \in BOOLEAN
    /\ MaxSockets \in Nat /\ MaxEvents \in Nat /\ MaxBoth \in Nat /\ MaxUp \in Nat \ {0}

Sockets == 1..MaxSockets
NoValue == "no value"
ASSUME NamesAssumption ==
    /\ NoValue \notin Values
    /\ Modules \cap {"none", "home", "controller"} = {}
    /\ Selectable \subseteq {"home", "controller"} \cup Modules

VARIABLES
  (* the server *)
    world,        \* the modules it has announced, with their properties
    posted,       \* events the INDI thread has posted to the main thread
    raced,        \* something was read or changed while an event was posted
    history,      \* mHistory: the errors logged last
    grant,        \* mClientGrants of this browser's address; "" has no entry
  (* the network *)
    near,         \* near[i]: readyState of socket i, "unused" before that
    far,          \* the sockets in m_clients
    down, up,     \* down[i], up[i]: what is on its way on socket i
  (* Connection and Datastore *)
    socket,       \* this.socket; 0 is null
    status,       \* this.status
    beating,      \* heartbeatTimer runs
    store,        \* this.modules
    logs,         \* this.logs
    session,      \* this.grantClient; "null" before a dump
    pending,      \* this._dumpPending
  (* app.js *)
    view,         \* activeView
    lastView,     \* the one kept in localStorage
    loginShown,   \* loginShown
    seenLogs,     \* seenLogsCount
    toasts,       \* the errors it showed when the log last changed
  (* bound *)
    events        \* errors and module events so far; also numbers the errors

server == <<world, posted, raced, history, grant>>
wire == <<near, far, down, up>>
data == <<store, logs, session, pending>>
shell == <<view, lastView, loginShown, seenLogs, toasts>>
vars == <<server, wire, socket, status, beating, data, shell, events>>

-----------------------------------------------------------------------------
(* Modules, properties and rows *)

Put(f, x, v) == [y \in DOMAIN f \cup {x} |-> IF y = x THEN v ELSE f[y]]
Without(f, x) == [y \in DOMAIN f \ {x} |-> f[y]]
Nothing == [x \in {} |-> {}]

\* What the server may hold: loaded modules, with their properties.
Properties == [val : Values, rows : Seq(Values)]
IsModule(mod) == DOMAIN mod \subseteq Props /\ mod \in [DOMAIN mod -> Properties]
IsWorld(w) ==
    /\ DOMAIN w \subseteq Modules /\ w = [m \in DOMAIN w |-> w[m]]
    /\ \A m \in DOMAIN w : IsModule(w[m])
ASSUME WorldsAssumption == IsFiniteSet(Props) /\ \A w \in WorldsAtStart : IsWorld(w)

\* Array.splice(i - 1, 0, v) and splice(i - 1, 1); a row without an index (0) is
\* the last
InsertRow(rows, i, v) ==
    LET at == IF i \in 1..Len(rows) THEN i ELSE Len(rows) + 1
    IN  [j \in 1..(Len(rows) + 1) |->
            IF j < at THEN rows[j] ELSE IF j = at THEN v ELSE rows[j - 1]]
RemoveRow(rows, i) ==
    IF i > Len(rows) THEN rows
    ELSE [j \in 1..(Len(rows) - 1) |-> IF j < i THEN rows[j] ELSE rows[j + 1]]

InOrder(S) == CHOOSE q \in [1..Cardinality(S) -> S] : \A x \in S : \E k \in DOMAIN q : q[k] = x

Bare == [val |-> NoValue, rows |-> <<>>]

\* _ensureModule() and _ensureProperty()
ModuleIn(s, m) == IF m \in DOMAIN s THEN s[m] ELSE Nothing
PropIn(s, m, p) == IF p \in DOMAIN ModuleIn(s, m) THEN s[m][p] ELSE Bare
SetProp(s, m, p, prop) == Put(s, m, Put(ModuleIn(s, m), p, prop))

\* A log keeps its last entries.
Logged(log, e) == IF Len(log) < LogLimit THEN Append(log, e) ELSE Append(Tail(log), e)

-----------------------------------------------------------------------------
(* Messages of the server.  "says" is not sent: it is what the server had  *)
(* announced when it sent the message, {} to a client it denied.           *)

Frame(kind, m, p, i, body) ==
    [kind |-> kind, m |-> m, p |-> p, i |-> i, body |-> body]

ApplyElementValues(s, f) == SetProp(s, f.m, f.p, [PropIn(s, f.m, f.p) EXCEPT !.val = f.body])
ApplyGridCreate(s, f) ==
    SetProp(s, f.m, f.p, [PropIn(s, f.m, f.p) EXCEPT !.rows = InsertRow(@, f.i, f.body)])
ApplyGridUpdate(s, f) ==
    SetProp(s, f.m, f.p, [PropIn(s, f.m, f.p) EXCEPT !.rows =
        IF f.i <= Len(@) THEN [@ EXCEPT ![f.i] = f.body] ELSE @])
\* mutant: counted from the wrong end of the index
ApplyGridDeleteNext(s, f) ==
    SetProp(s, f.m, f.p, [PropIn(s, f.m, f.p) EXCEPT !.rows = RemoveRow(@, f.i + 1)])
ApplyGridDelete(s, f) ==
    SetProp(s, f.m, f.p, [PropIn(s, f.m, f.p) EXCEPT !.rows = RemoveRow(@, f.i)])
ApplyGridReset(s, f) == SetProp(s, f.m, f.p, [PropIn(s, f.m, f.p) EXCEPT !.rows = <<>>])
ApplyPropertyDeleted(s, f) ==
    IF f.m \in DOMAIN s THEN [s EXCEPT ![f.m] = Without(@, f.p)] ELSE s

\* _apply(), as far as it touches this.modules
Apply(s, f) ==
    CASE f.kind = "d"  -> f.body.modules
      [] f.kind = "aa" -> Put(s, f.m, f.body)
      [] f.kind = "dm" -> Without(s, f.m)
      [] f.kind = "ap" -> SetProp(s, f.m, f.p, f.body)
      [] f.kind = "dp" -> ApplyPropertyDeleted(s, f)
      [] f.kind = "ea" -> ApplyElementValues(s, f)
      [] f.kind = "gc" -> ApplyGridCreate(s, f)
      [] f.kind = "gu" -> ApplyGridUpdate(s, f)
      [] f.kind = "gd" -> ApplyGridDelete(s, f)
      [] f.kind = "gr" -> ApplyGridReset(s, f)
      [] OTHER -> s

-----------------------------------------------------------------------------
(* The wire *)

Last(q) == q[Len(q)]
Open(i) == near[i] = "open"
Reached == {i \in far : near[i] \in {"connecting", "open"}}

\* What it reads next is added to a view of the server that is whole.
Informed == ~pending /\ session # "-1"
Follows(i) ==
    IF down[i] # <<>> THEN Last(down[i]).says # {}
    ELSE i = socket /\ Open(i) /\ Informed

\* sendJsonMessage() to one client, and to all of them
SendTo(i, f, says) == down' = [down EXCEPT ![i] = Append(@, [frame |-> f, says |-> says])]
Broadcast(sent) ==
    down' = [i \in Sockets |->
        IF i \in Reached
        THEN down[i] \o [k \in 1..Len(sent) |->
                [frame |-> sent[k].frame,
                 says  |-> IF Follows(i) THEN {sent[k].says} ELSE {}]]
        ELSE down[i]]
Sent(f, says) == [frame |-> f, says |-> says]

\* Connection.send()
Command(c) == up' = [up EXCEPT ![socket] = Append(@, c)]

-----------------------------------------------------------------------------
(* Datastore.reset() with its subscribers, and the shell's reaction to the *)
(* status                                                                  *)

IsModuleView(v) == v \in Modules

Reset ==
    /\ store' = Nothing /\ logs' = <<>> /\ session' = "null" /\ pending' = TRUE
    /\ seenLogs' = 0
    /\ loginShown' = FALSE
    /\ toasts' = {}

\* Mutant: the heartbeat of a lost connection is not stopped.
EndsBeating(i) ==
    /\ status' = "disconnected"
    /\ view' = IF IsModuleView(view) \/ view = "home" THEN "controller" ELSE view
    /\ Reset
    /\ near' = [near EXCEPT ![i] = "closed"]
    /\ down' = [down EXCEPT ![i] = <<>>]
    /\ UNCHANGED <<server, far, up, socket, beating, lastView, events>>

\* Mutant: the store is emptied before the view is left, and its subscribers
\* take the module of the view for gone.
EndsBounced(i) ==
    /\ status' = "disconnected"
    /\ view' = "controller"
    /\ lastView' = IF IsModuleView(view) THEN "home" ELSE lastView
    /\ beating' = FALSE
    /\ Reset
    /\ near' = [near EXCEPT ![i] = "closed"]
    /\ down' = [down EXCEPT ![i] = <<>>]
    /\ UNCHANGED <<server, far, up, socket, events>>

Ends(i) ==
    /\ status' = "disconnected"
    /\ view' = IF IsModuleView(view) \/ view = "home" THEN "controller" ELSE view
    /\ beating' = FALSE
    /\ Reset
    /\ near' = [near EXCEPT ![i] = "closed"]
    /\ down' = [down EXCEPT ![i] = <<>>]
    /\ UNCHANGED <<server, far, up, socket, lastView, events>>

-----------------------------------------------------------------------------
(* The connection *)

Init ==
    /\ world \in WorldsAtStart /\ posted = <<>> /\ raced = FALSE
    /\ history \in LogsAtStart /\ grant = ""
    /\ near = [i \in Sockets |-> "unused"] /\ far = {}
    /\ down = [i \in Sockets |-> <<>>] /\ up = [i \in Sockets |-> <<>>]
    /\ socket = 0 /\ status = "disconnected" /\ beating = FALSE
    /\ store = Nothing /\ logs = <<>> /\ session = "null" /\ pending = TRUE
    /\ view = "none" /\ lastView \in {"none"} \cup Selectable
    /\ loginShown = FALSE /\ seenLogs = 0
    /\ toasts = {}
    /\ events = 0

\* The "connect-btn" handler and connect(); the socket before is left as it is.
Connect ==
    /\ MayOverlap \/ status = "disconnected"
    /\ socket < MaxSockets /\ socket + events < MaxBoth
    /\ socket' = socket + 1
    /\ near' = [near EXCEPT ![socket + 1] = "connecting"]
    /\ status' = "connecting"
    /\ view' = "none"
    /\ Reset
    /\ UNCHANGED <<server, far, down, up, beating, lastView, events>>

\* onNewConnection()
Accept(i) ==
    /\ near[i] = "connecting" /\ i \notin far
    /\ far' = far \cup {i}
    /\ grant' = CASE ServerGrant = "0" -> "1"
                  [] ServerGrant = "1" -> "0"
                  [] ServerGrant = "2" -> "-1"
    /\ UNCHANGED <<world, posted, raced, history, near, down, up, socket, status,
                   beating, data, shell, events>>

\* Mutant: no dump is asked for.
OpenedSilently(i) ==
    /\ near[i] = "connecting" /\ i \in far
    /\ near' = [near EXCEPT ![i] = "open"]
    /\ status' = "connected"
    /\ beating' = TRUE
    /\ UNCHANGED <<server, far, down, up, socket, data, shell, events>>

\* The "open" listener: its DU goes to this.socket, if that one is open.
Opened(i) ==
    /\ near[i] = "connecting" /\ i \in far
    /\ near' = [near EXCEPT ![i] = "open"]
    /\ status' = "connected"
    /\ IF near'[socket] = "open" THEN Command("DU") ELSE UNCHANGED up
    /\ beating' = TRUE
    /\ UNCHANGED <<server, far, down, socket, data, shell, events>>

\* The "close" listener, whatever closed the socket.
Closed(i) ==
    /\ near[i] \in {"connecting", "open", "closing"}
    /\ Ends(i)

\* disconnect()
Disconnect ==
    /\ socket # 0
    /\ near[socket] \in {"connecting", "open"} \/ beating
    /\ near' = IF near[socket] = "closed" THEN near ELSE [near EXCEPT ![socket] = "closing"]
    /\ beating' = FALSE
    /\ UNCHANGED <<server, far, down, up, socket, status, data, shell, events>>

\* socketDisconnected(): the entries are those of the peer's address.
SocketDisconnected(i) ==
    /\ i \in far /\ near[i] # "connecting"
    /\ far' = far \ {i}
    /\ up' = [up EXCEPT ![i] = <<>>]
    /\ grant' = ""
    /\ UNCHANGED <<world, posted, raced, history, near, down, socket, status,
                   beating, data, shell, events>>

\* Mutant: the dump repeats the grant of the connection, not that of the login.
DumpOfConnection(g) ==
    [modules |-> IF g = "-1" THEN Nothing ELSE world,
     logs    |-> IF g = "-1" THEN <<>> ELSE history,
     grant   |-> CASE ServerGrant = "0" -> "1" [] ServerGrant = "1" -> "0"
                   [] ServerGrant = "2" -> "-1"]

\* getModulesDump()
Dump(g) ==
    [modules |-> IF g = "-1" THEN Nothing ELSE world,
     logs    |-> IF g = "-1" THEN <<>> ELSE history,
     grant   |-> g]

\* processTextMessage() and OnClientEvent(): DU and IL are answered by a dump,
\* and LO by one with the grants of the user (getGrants).  The other commands
\* are seen through what the modules broadcast.
ProcessTextMessage(i) ==
    LET c == Head(up[i]) IN
    /\ i \in far /\ up[i] # <<>>
    /\ up' = [up EXCEPT ![i] = Tail(@)]
    /\ IF c = "LO" THEN grant' \in {"-1", "0", "1"} ELSE UNCHANGED grant
    /\ IF i \in Reached
       THEN SendTo(i, Frame("d", "", "", 0, Dump(grant')),
                   IF grant' = "-1" THEN {} ELSE {world})
       ELSE UNCHANGED down
    /\ raced' = (raced \/ posted # <<>>)
    /\ UNCHANGED <<world, posted, history, near, far, socket, status, beating, data,
                   shell, events>>

\* setLanguage() and requestDump(), and login()
Send(c) ==
    /\ c = "LO" => ServerGrant # "0"
    /\ socket # 0 /\ Open(socket)
    /\ Len(up[socket]) + Len(down[socket]) < MaxUp
    /\ Command(c)
    /\ UNCHANGED <<server, near, far, down, socket, status, beating, data, shell,
                   events>>

-----------------------------------------------------------------------------
(* A message arrives: applyMessage(), then the subscribers of app.js in    *)
(* the order in which they subscribed: modules, logs, session.             *)

\* Mutant: a dump is taken for news.
ShowNewsAlways(log) ==
    /\ toasts' = {log[k] : k \in (seenLogs + 1)..Len(log)}
    /\ seenLogs' = Len(log)

\* The logs subscription
ShowNews(log) ==
    /\ toasts' = IF pending THEN {} ELSE {log[k] : k \in (seenLogs + 1)..Len(log)}
    /\ seenLogs' = Len(log)

\* The modules subscription: the view of a module that went is left for home.
ViewAfter(modules) == IF IsModuleView(view) /\ view \notin DOMAIN modules THEN "home" ELSE view

\* The session subscription: a denied client is shown the login once, and
\* otherwise the last view is restored.
Restores(g) == view = "none" /\ ~(g = "-1" /\ ~loginShown)
Restored(modules) ==
    IF lastView \in {"home", "controller"} \cup DOMAIN modules THEN lastView ELSE "home"

ApplyFullDump(f) ==
    /\ store' = Apply(store, f)
    /\ logs' = f.body.logs
    /\ session' = f.body.grant
    /\ ShowNews(f.body.logs)
    /\ view' = IF Restores(f.body.grant) THEN Restored(store') ELSE ViewAfter(store')
    /\ lastView' = IF view' # view THEN view' ELSE lastView
    /\ loginShown' = (loginShown \/ f.body.grant = "-1")
    /\ pending' = FALSE

ApplyLog(f) ==
    /\ logs' = Logged(logs, f.body)
    /\ ShowNews(logs')
    /\ UNCHANGED <<store, session, pending, view, lastView, loginShown>>

ApplyModules(f) ==
    /\ store' = Apply(store, f)
    /\ view' = IF f.kind \in {"aa", "dm"} THEN ViewAfter(store') ELSE view
    /\ lastView' = IF view' # view THEN view' ELSE lastView
    /\ UNCHANGED <<logs, session, pending, loginShown, seenLogs, toasts>>

Message(i) ==
    /\ Open(i) /\ down[i] # <<>>
    /\ down' = [down EXCEPT ![i] = Tail(@)]
    /\ LET f == Head(down[i]).frame
       IN  CASE f.kind = "d" -> ApplyFullDump(f)
             [] f.kind = "l" -> ApplyLog(f)
             [] OTHER        -> ApplyModules(f)
    /\ UNCHANGED <<server, near, far, up, socket, status, beating, events>>

\* selectView() from the module bar; home is on it while connected.
SelectView(v) ==
    /\ v = "controller" \/ (v = "home" /\ status = "connected") \/ v \in DOMAIN store
    /\ view' = v /\ lastView' = v
    /\ UNCHANGED <<server, wire, socket, status, beating, data, loginShown, seenLogs,
                   toasts, events>>

-----------------------------------------------------------------------------
(* The modules and the logger of the server *)

Occurs == events < MaxEvents /\ socket + events < MaxBoth /\ events' = events + 1

Announces(w, sent) ==
    /\ Occurs
    /\ world' = w
    /\ Broadcast(sent)
    /\ raced' = (raced \/ posted # <<>>)
    /\ UNCHANGED <<history, grant, near, far, up, socket, status, beating, data, shell>>

AnnouncesProp(kind, m, p, i, body, prop) ==
    LET w == SetProp(world, m, p, prop)
    IN  Announces(w, <<Sent(Frame(kind, m, p, i, body), w)>>) /\ UNCHANGED posted

Has(m, p) == m \in DOMAIN world /\ p \in DOMAIN world[m]

\* loadModule(): onAfterInit() may set values before the module is announced.
LoadModule(m, v, early) ==
    LET mod   == [p \in Props |-> [val |-> v, rows |-> <<>>]]
        whole == Put(world, m, mod)
        aa    == Sent(Frame("aa", m, "", 0, mod), whole)
    IN  /\ m \notin DOMAIN world
        /\ UNCHANGED posted
        /\ \/ early = {} /\ Announces(whole, <<aa>>)
           \/ \E p \in early :
                 Announces(whole, <<Sent(Frame("ea", m, p, 0, v),
                                         SetProp(world, m, p, [Bare EXCEPT !.val = v])),
                                    aa>>)

PostedToOthers(m) ==
    LET kept[k \in 0..Len(posted)] ==
            IF k = 0 THEN <<>>
            ELSE IF posted[k].m = m THEN kept[k - 1] ELSE Append(kept[k - 1], posted[k])
    IN  kept[Len(posted)]

\* killMe(), and ~Basemodule(): a "dp" for each property (in the order of their
\* keys, which does not matter), then the "dm"; what was posted to it is dropped.
KillModule(m) ==
    /\ m \in DOMAIN world
    /\ LET keys    == InOrder(DOMAIN world[m])
           n       == Len(keys)
           gone    == Without(world, m)
           Left(k) == [world EXCEPT ![m] =
                          [p \in DOMAIN @ \ {keys[j] : j \in 1..k} |-> @[p]]]
       IN  Announces(gone, [k \in 1..(n + 1) |->
               IF k <= n THEN Sent(Frame("dp", m, keys[k], 0, {}), Left(k))
               ELSE Sent(Frame("dm", m, "", 0, {}), gone)])
    /\ posted' = PostedToOthers(m)

\* createProperty(), and emitAll() after silent changes
SendProperty(m, p, prop) ==
    /\ m \in DOMAIN world
    /\ AnnouncesProp("ap", m, p, 0, prop, prop)

\* Not one whose rows are pushed at that moment: no module does that.
DeleteProperty(m, p) ==
    /\ Has(m, p) /\ \A k \in DOMAIN posted : posted[k].m # m \/ posted[k].p # p
    /\ LET w == [world EXCEPT ![m] = Without(@, p)]
       IN  Announces(w, <<Sent(Frame("dp", m, p, 0, {}), w)>>)
    /\ UNCHANGED posted

SetValue(m, p, v) ==
    /\ Has(m, p)
    /\ AnnouncesProp("ea", m, p, 0, v, [world[m][p] EXCEPT !.val = v])

\* newLine() and push()
NewLine(m, p, v) ==
    /\ Has(m, p)
    /\ LET old   == world[m][p]
           set   == [old EXCEPT !.val = v]
           cut   == [set EXCEPT !.rows = Tail(@)]
           grown == [set EXCEPT !.rows = Append(@, v)]
           over  == [cut EXCEPT !.rows = Append(@, v)]
           W(prop) == SetProp(world, m, p, prop)
           ea    == Sent(Frame("ea", m, p, 0, v), W(set))
           n     == Len(old.rows)
       IN  /\ UNCHANGED posted
           /\ IF GridLimit > 0 /\ n + 1 > GridLimit
              THEN Announces(W(over), <<ea,
                             Sent(Frame("gd", m, p, 1, {}), W(cut)),
                             Sent(Frame("gc", m, p, n, v), W(over))>>)
              ELSE Announces(W(grown), <<ea, Sent(Frame("gc", m, p, n + 1, v), W(grown))>>)

\* updateLine()
UpdateLine(m, p, i, v) ==
    /\ Has(m, p) /\ i \in DOMAIN world[m][p].rows
    /\ LET set == [world[m][p] EXCEPT !.val = v]
           new == [set EXCEPT !.rows[i] = v]
       IN  Announces(SetProp(world, m, p, new),
                     <<Sent(Frame("ea", m, p, 0, v), SetProp(world, m, p, set)),
                       Sent(Frame("gu", m, p, i, v), SetProp(world, m, p, new))>>)
    /\ UNCHANGED posted

DeleteLine(m, p, i) ==
    /\ Has(m, p) /\ i \in DOMAIN world[m][p].rows
    /\ AnnouncesProp("gd", m, p, i, {}, [world[m][p] EXCEPT !.rows = RemoveRow(@, i)])

ClearGrid(m, p) ==
    /\ Has(m, p)
    /\ AnnouncesProp("gr", m, p, 0, {}, [world[m][p] EXCEPT !.rows = <<>>])

SwapLines(m, p, i, j) ==
    /\ Has(m, p) /\ {i, j} \subseteq DOMAIN world[m][p].rows
    /\ LET rows == world[m][p].rows
           new  == [world[m][p] EXCEPT !.rows = [rows EXCEPT ![i] = rows[j], ![j] = rows[i]]]
       IN  AnnouncesProp("ap", m, p, 0, new, new)

\* push() on the INDI thread, as the all-sky module does: the row is in the grid,
\* the events are in the queue of the main thread.
PushInThread(m, p) ==
    /\ MayPush /\ Has(m, p) /\ Occurs
    /\ LET prop == world[m][p]
           n    == Len(prop.rows)
           full == GridLimit > 0 /\ n + 1 > GridLimit
           kept == IF full THEN Tail(prop.rows) ELSE prop.rows
       IN  /\ world' = SetProp(world, m, p, [prop EXCEPT !.rows = Append(kept, prop.val)])
           /\ posted' = posted
                  \o (IF full THEN <<[kind |-> "gd", m |-> m, p |-> p, i |-> 1]>> ELSE <<>>)
                  \o <<[kind |-> "gc", m |-> m, p |-> p, i |-> Len(kept) + 1]>>
    /\ raced' = (raced \/ posted # <<>>)
    /\ UNCHANGED <<history, grant, wire, socket, status, beating, data, shell>>

\* onPropertyEvent() and onModuleEvent() in the main thread: the message of a new
\* row is made of what is in its place by now.
PostedDelivered ==
    /\ posted # <<>>
    /\ posted' = Tail(posted)
    /\ LET e    == Head(posted)
           rows == world[e.m][e.p].rows
       IN  Broadcast(<<Sent(CASE e.kind = "gd"            -> Frame("gd", e.m, e.p, e.i, {})
                              [] e.kind = "gc" /\ e.i \in DOMAIN rows
                                                          -> Frame("gc", e.m, e.p, e.i, rows[e.i])
                              [] OTHER                    -> Frame("gc", e.m, e.p, 0, NoValue),
                            world)>>)
    /\ UNCHANGED <<world, raced, history, grant, near, far, up, socket, status, beating,
                   data, shell, events>>

\* Logger::log() and WShandler::onLog() of an error
LogError ==
    /\ Occurs
    /\ history' = Logged(history, events')
    /\ Broadcast(<<Sent(Frame("l", "", "", 0, events'), world)>>)
    /\ UNCHANGED <<world, posted, raced, grant, near, far, up, socket, status, beating, data, shell>>

-----------------------------------------------------------------------------
Browser ==
    \/ Connect \/ Disconnect
    \/ \E c \in {"IL", "LO"} : Send(c)
    \/ \E v \in Selectable : SelectView(v)

Network(i) == Accept(i) \/ Opened(i) \/ Closed(i) \/ SocketDisconnected(i)
              \/ ProcessTextMessage(i) \/ Message(i)

Contents ==
    UNION {{[val |-> v, rows |-> <<>>], [val |-> v, rows |-> <<v>>]} : v \in Values}

Server ==
    \/ \E m \in Modules :
        \/ \E v \in Values, early \in SUBSET Props : LoadModule(m, v, early)
        \/ KillModule(m)
        \/ \E p \in Props :
            \/ \E prop \in Contents : SendProperty(m, p, prop)
            \/ DeleteProperty(m, p) \/ ClearGrid(m, p) \/ PushInThread(m, p)
            \/ \E v \in Values : SetValue(m, p, v) \/ NewLine(m, p, v)
            \/ \E i \in 1..(MaxEvents + 1) :
                \/ \E v \in Values : UpdateLine(m, p, i, v)
                \/ DeleteLine(m, p, i)
                \/ \E j \in 1..(MaxEvents + 1) : SwapLines(m, p, i, j)
    \/ LogError \/ PostedDelivered

Next == Browser \/ (\E i \in Sockets : Network(i)) \/ Server

Spec == Init /\ [][Next]_vars

\* The browser opens what the server accepts, delivers what a socket carries and
\* finds out that its other end is gone; the server answers what it reads.
CloseArrives(i) ==
    /\ near[i] = "closing" \/ (Open(i) /\ i \notin far)
    /\ Closed(i)
FairSpec ==
    /\ Spec
    /\ \A i \in Sockets : /\ WF_vars(Accept(i)) /\ WF_vars(Opened(i))
                          /\ WF_vars(ProcessTextMessage(i)) /\ WF_vars(Message(i))
                          /\ WF_vars(CloseArrives(i))

-----------------------------------------------------------------------------
(* Correctness *)

\* Once the dump is in, and whatever was broadcast before, between and after it,
\* a client that has read all that was sent to it shows what the server holds
\* (applyMessage() against the emissions of PropertyMulti and the Controller).  Not
\* so once something was read or changed while an event of the INDI thread about
\* it was posted.
HasReadAll == posted = <<>> /\ \E i \in far : i = socket /\ Open(i) /\ Informed /\ down[i] = <<>>
Mirrored == HasReadAll /\ ~raced => store = world

\* The same for every client, as client-messages.en.md has it: the server sends
\* exactly what is needed to keep the client's datastore correct.  The code does not
\* keep it: a dump that is made, or a row that is pushed, while the event of
\* another row is posted, gives the client a row twice.
DatastoreIsCorrect == HasReadAll => store = world

\* Nothing of a connection survives it: no module, no log entry, no grant, and
\* no heartbeat on a socket that does not carry it (connect(), the "close"
\* listener and reset()).
NothingOutlives ==
    /\ status # "connected" => store = Nothing /\ logs = <<>> /\ session = "null" /\ pending
    /\ beating <=> status = "connected" /\ Open(socket)

\* What the client was told it may do is what the server lets it do, unless an
\* older socket of the same address is still held by the server, or has taken
\* the entry with it when it ended
\* (mClientGrants in onNewConnection(), socketDisconnected(), LO).
GrantIsKnown ==
    \A i \in far :
        far = {i} /\ i = socket /\ Open(i) /\ ~pending /\ (\A k \in DOMAIN down[i] : down[i][k].frame.kind # "d")
            => grant \in {session, ""}

Takes(i) == Open(i) /\ near'[i] = "open" /\ down[i] # <<>> /\ down'[i] = Tail(down[i])

\* An error is shown when it is news and then exactly once: when it arrives, not
\* when a dump repeats it (the logs subscription of app.js and isDumpPending()).
\* Not so for a full log, nor for the dump after a denied one.
ToastsAreNews ==
    [][\A i \in Sockets : Takes(i) =>
          LET f == Head(down[i]).frame IN
          /\ f.kind = "d" /\ session # "-1" => toasts' = {}
          /\ f.kind = "l" /\ ~pending /\ Len(logs) < LogLimit => toasts' = {f.body}
          /\ f.kind = "l" => toasts' \subseteq {f.body}
      ]_vars

\* The view that is restored after a reconnection is not lost with the
\* connection: it is replaced only when the user selects another one, or when a
\* message says that its module is not there (onStatus, reset() and the modules
\* and session subscriptions, which run in this order).
KeepsLastView ==
    [][lastView # lastView' /\ lastView \in Modules /\ data' # data
         => lastView \notin DOMAIN store' /\ \E i \in Sockets : Takes(i)]_vars

\* A connection gets its dump, or it ends.
DumpArrives == status = "connecting" ~> ~pending \/ status = "disconnected"
=============================================================================
