----------------------------- MODULE SnapControl ----------------------------
(***************************************************************************)
(* The control page of snapweb (snapcontrol.js): a view of the server's    *)
(* groups and clients, kept up by notifications, changed at once by what   *)
(* the user does, and loaded anew with every connection.                   *)
(*                                                                         *)
(* The server is external.  It handles requests one after the other,       *)
(* answers the page that asked, and notifies the other pages; so this page *)
(* hears of its own changes only in answers, and ignores all answers but   *)
(* the one to status_req_id.  What a client is set to (volume, mute, name, *)
(* latency) is one value, a percentage; so is what a group is set to       *)
(* (mute, stream).  An exception leaves the handler it is thrown in.       *)
(***************************************************************************)
EXTENDS Integers, Sequences, FiniteSets, SequencesExt

CONSTANTS
    Clients,
    Offline,      \* those that are not connected, and so can be deleted
    Groups,       \* ids of groups: those at the beginning, and what gets one later
    Home,         \* the group of each client at the beginning
    None,
    NaN,
    MaxActs,      \* bound: what the user does
    MaxOthers,    \* bound: what other pages do
    MaxLosses     \* bound: connections lost

Values == {0, 100}

\* What a server has, and a page shows.  An id without a setting is not taken
\* yet; ids do not come back.
States ==
    [config : [Clients -> Values \union {NaN, 50}], setting : [Groups -> Values \union {None}],
     member : [Clients -> Groups \union {None}]]

ASSUME ControlAssumption ==
    /\ IsFiniteSet(Clients) /\ Offline \subseteq Clients
    /\ Home \in [Clients -> Groups] /\ None \notin Groups
    /\ NaN \notin Int /\ None \notin Values /\ None \notin States
    /\ MaxActs \in Nat /\ MaxOthers \in Nat /\ MaxLosses \in Nat

VARIABLES
    server,       \* the truth: config, setting, and member of each client
    view,         \* this.server
    readyState,   \* of the web socket; "closed": connect() is to run in 1 s
    toServer, toClient,
    msgId, statusReq,
    entered,      \* group_volume and client_volumes, None before the first
    \* Bounds and history:
    acts, others, losses,
    acted,        \* the user has sent something over this connection
    loaded,       \* a status has been adopted over this connection
    suspect       \* fields whose value in the view may be wrong (see below)

link == <<readyState, toServer, toClient, msgId, statusReq>>
bounds == <<acts, others, losses>>
history == <<acted, loaded, suspect>>
vars == <<server, view, link, entered, bounds, history>>

----------------------------------------------------------------------------
(* The state of a server, or a view of it                                  *)

GroupsOf(s) == {s.member[c] : c \in Clients} \ {None}
Known(s, c) == s.member[c] # None
MembersOf(s, g) == {c \in Clients : s.member[c] = g}

\* ... in the order in which the group lists them.
Members(s, g) == SetToSeq(MembersOf(s, g))

Empty ==
    [config |-> [c \in Clients |-> 0], setting |-> [g \in Groups |-> None],
     member |-> [c \in Clients |-> None]]

WithConfig(s, c, v) == [s EXCEPT !.config[c] = v]
WithSetting(s, g, v) == [s EXCEPT !.setting[g] = v]

\* A group without clients is gone.
Without(s, c) == [s EXCEPT !.member[c] = None]

\* Group.SetClients: each one that is no longer in g gets a group of his own.
NewGroups(s, g, cs) ==
    Injection(MembersOf(s, g) \ cs, {h \in Groups : s.setting[h] = None})

Regrouped(s, g, cs) ==
    LET new == CHOOSE f \in NewGroups(s, g, cs) : TRUE
    IN  [s EXCEPT
            !.member = [c \in Clients |->
                CASE c \in cs /\ Known(s, c) -> g
                  [] c \in DOMAIN new -> new[c]
                  [] OTHER -> s.member[c]],
            !.setting = [h \in Groups |-> IF h \in Range(new) THEN 0 ELSE @[h]]]

Fields ==
    ({"config"} \X Clients) \union ({"setting"} \X Groups) \union {<<"member", None>>}
MemberField == <<"member", None>>

\* What a request or a notification is about.
Field(method, target) ==
    CASE method \in {"config", "setting"} -> <<method, target>>
      [] OTHER -> MemberField

\* View and server agree on a field; on what only one of them has they need
\* not, as long as the members differ.
Agrees(f) ==
    CASE f[1] = "config" ->
            Known(view, f[2]) /\ Known(server, f[2]) => view.config[f[2]] = server.config[f[2]]
      [] f[1] = "setting" ->
            f[2] \in GroupsOf(view) /\ f[2] \in GroupsOf(server)
                => view.setting[f[2]] = server.setting[f[2]]
      [] OTHER -> view.member = server.member

\* Fields of requests in ms, or of answers among ms, that are under way.
Asked(ms) ==
    {Field(m.method, m.target) : m \in {x \in Range(ms) : x.method \in {"config", "setting", "clients", "delete"}}}

Outstanding(answers) == Asked(toServer) \union Asked(answers)

----------------------------------------------------------------------------
Init ==
    /\ server = [Empty EXCEPT
                    !.setting = [g \in Groups |-> IF g \in Range(Home) THEN 0 ELSE None],
                    !.member = Home]
    /\ view = Empty
    /\ readyState = "connecting" /\ toServer = <<>> /\ toClient = <<>>
    /\ msgId = 0 /\ statusReq = -1
    /\ entered = None
    /\ acts = 0 /\ others = 0 /\ losses = 0
    /\ acted = FALSE /\ loaded = FALSE /\ suspect = {}

----------------------------------------------------------------------------
(* The connection                                                          *)

Request(id, method, target, value) ==
    [id |-> id, method |-> method, target |-> target, value |-> value]

\* The id of the request whose answer will be adopted.
FaultyAwaited(id) == IF statusReq = -1 THEN id ELSE statusReq
Awaited(id) == id

\* onopen: Server.GetStatus.
Opened ==
    /\ readyState = "connecting"
    /\ readyState' = "open"
    /\ msgId' = msgId + 1 /\ statusReq' = Awaited(msgId + 1)
    /\ toServer' = <<Request(msgId + 1, "status", None, None)>>
    /\ acted' = FALSE /\ loaded' = FALSE
    /\ UNCHANGED <<server, view, toClient, entered, bounds, suspect>>

\* Whatever was under way is lost; a socket may be closing for a while.
Lost(next) ==
    /\ readyState = "open" /\ losses < MaxLosses
    /\ losses' = losses + 1
    /\ readyState' = next
    /\ toServer' = <<>> /\ toClient' = <<>>
    /\ UNCHANGED <<server, view, msgId, statusReq, entered, acts, others, history>>

\* onclose sets a timeout.
Closed ==
    /\ readyState = "closing" \/ (readyState = "connecting" /\ losses < MaxLosses)
    /\ losses' = IF readyState = "connecting" THEN losses + 1 ELSE losses
    /\ readyState' = "closed"
    /\ UNCHANGED <<server, view, toServer, toClient, msgId, statusReq, entered, acts, others, history>>

Connect ==
    /\ readyState = "closed"
    /\ readyState' = "connecting"
    /\ UNCHANGED <<server, view, toServer, toClient, msgId, statusReq, entered, bounds, history>>

----------------------------------------------------------------------------
(* The user.  send() throws while connecting, and drops what is sent over  *)
(* a socket that is closing or closed.                                     *)

FaultySent(requests) == toServer \o requests
Sent(requests) == IF readyState = "open" THEN toServer \o requests ELSE toServer

Send(requests) ==
    /\ toServer' = Sent(requests)
    /\ acted' = (acted \/ readyState = "open")
    /\ msgId' = msgId + Len(requests)

Acts ==
    /\ acts < MaxActs /\ acts' = acts + 1
    /\ UNCHANGED <<server, readyState, toClient, others, losses, loaded>>

\* The user's own value is the last one, unless older messages come after it.
\* setVolume(): the view first, then the request, if need be in vain; likewise
\* setClientName() and setClientLatency(), which send first and so change nothing
\* while connecting.
SetVolume(c, v) ==
    /\ Known(view, c) /\ Acts
    /\ view' = WithConfig(view, c, v)
    /\ Send(<<Request(msgId + 1, "config", c, v)>>)
    /\ suspect' = suspect \ {<<"config", c>>}
    /\ UNCHANGED <<statusReq, entered>>

\* setStream(), muteGroup().
SetGroup(g, v) ==
    /\ g \in GroupsOf(view) /\ Acts
    /\ view' = WithSetting(view, g, v)
    /\ Send(<<Request(msgId + 1, "setting", g, v)>>)
    /\ suspect' = suspect \ {<<"setting", g>>}
    /\ UNCHANGED <<statusReq, entered>>

\* setGroup() and setClients(): the view waits for the answer.
MoveClient(c, g) ==
    /\ Known(view, c) /\ readyState # "connecting" /\ Acts
    /\ LET own == view.member[c]
           target == IF g = None THEN own ELSE g
           cs == IF g = None THEN MembersOf(view, own) \ {c} ELSE MembersOf(view, g) \union {c}
       IN  Send(<<Request(msgId + 1, "clients", target, cs)>>)
    /\ statusReq' = msgId + 1
    /\ UNCHANGED <<view, entered, suspect>>

\* deleteClient(): the request, then the client and an empty group go.
DeleteClient(c) ==
    /\ Known(view, c) /\ c \in Offline /\ readyState # "connecting" /\ Acts
    /\ Send(<<Request(msgId + 1, "delete", c, None)>>)
    /\ view' = Without(view, c)
    /\ UNCHANGED <<statusReq, entered, suspect>>

\* groupVolumeEnter(): a slider set to NaN stands in the middle.
Average(vs) ==
    IF NaN \in Range(vs) THEN 50 ELSE FoldSeq(LAMBDA v, sum : v + sum, 0, vs) \div Len(vs)

GroupVolumeEnter(g) ==
    /\ Len(Members(view, g)) > 1
    /\ LET vs == [i \in DOMAIN Members(view, g) |-> view.config[Members(view, g)[i]]]
       IN  entered' = [volume |-> Average(vs), volumes |-> vs]
    /\ UNCHANGED <<server, view, link, bounds, history>>

\* The volume of the i-th client: for a client that was not there when the
\* slider was entered there is no old one, and at 100 the ratio is 0 / 0.
NewVolume(percent, i) ==
    LET old == IF i <= Len(entered.volumes) THEN entered.volumes[i] ELSE NaN
    IN  IF percent # entered.volume
        THEN IF old = NaN THEN NaN ELSE percent
        ELSE IF percent = 100 THEN NaN ELSE old

\* setGroupVolume(): setVolume() of each client; while connecting the first
\* one throws.
SetGroupVolume(g, percent) ==
    /\ Len(Members(view, g)) > 1 /\ entered # None /\ Acts
    /\ LET cs == Members(view, g)
           done == IF readyState = "connecting" THEN {1} ELSE DOMAIN cs
           New(c) == NewVolume(percent, CHOOSE i \in DOMAIN cs : cs[i] = c)
           Reached(c) == \E i \in done : cs[i] = c
       IN  /\ view' = [view EXCEPT !.config =
                  [c \in Clients |-> IF Reached(c) THEN New(c) ELSE @[c]]]
           /\ Send([i \in DOMAIN cs |-> Request(msgId + i, "config", cs[i], New(cs[i]))])
           /\ suspect' =
                  (suspect \ {<<"config", c>> : c \in Range(cs)})
                      \union {<<"config", c>> : c \in {x \in Range(cs) : New(x) = NaN}}
    /\ UNCHANGED <<statusReq, entered>>

----------------------------------------------------------------------------
(* The server, external                                                    *)

\* A request about what is not there, or with a volume that is no number, is
\* refused.
Refused(s, r) ==
    CASE r.method = "config" -> ~Known(s, r.target) \/ r.value = NaN
      [] r.method \in {"setting", "clients"} -> r.target \notin GroupsOf(s)
      [] OTHER -> FALSE

Applied(s, r) ==
    IF Refused(s, r) THEN s
    ELSE CASE r.method = "config" -> WithConfig(s, r.target, r.value)
           [] r.method = "setting" -> WithSetting(s, r.target, r.value)
           [] r.method = "clients" -> Regrouped(s, r.target, r.value)
           [] r.method = "delete" -> Without(s, r.target)
           [] OTHER -> s

Answer(s, r) ==
    [id |-> r.id, method |-> r.method, target |-> r.target,
     result |-> IF r.method \in {"status", "clients"} /\ ~Refused(s, r) THEN Applied(s, r) ELSE None]

\* Bound: there are ids for the new groups.
IdsLeft(s, g, cs) == NewGroups(s, g, cs) # {}

ServerHandles ==
    /\ readyState = "open" /\ toServer # <<>>
    /\ LET r == Head(toServer)
       IN  r.method = "clients" /\ ~Refused(server, r) => IdsLeft(server, r.target, r.value)
    /\ server' = Applied(server, Head(toServer))
    /\ toServer' = Tail(toServer)
    /\ toClient' = Append(toClient, Answer(server, Head(toServer)))
    /\ UNCHANGED <<view, readyState, msgId, statusReq, entered, bounds, history>>

\* A notification, or a batch of them.
Notification(actions) == [method |-> "notify", actions |-> actions]
Change(what, target, value) == [what |-> what, target |-> target, value |-> value]

Notified(s, actions) ==
    /\ others < MaxOthers /\ others' = others + 1
    /\ server' = s /\ s # server
    /\ toClient' = IF readyState = "open" THEN Append(toClient, Notification(actions)) ELSE toClient
    /\ UNCHANGED <<view, readyState, toServer, msgId, statusReq, entered, acts, losses, history>>

OtherSetsClient(c, v) ==
    /\ Known(server, c)
    /\ Notified(WithConfig(server, c, v), <<Change("config", c, v)>>)

OtherSetsBoth(c, d, v) ==
    /\ c # d /\ Known(server, c) /\ Known(server, d)
    /\ Notified(WithConfig(WithConfig(server, c, v), d, v),
                <<Change("config", c, v), Change("config", d, v)>>)

OtherSetsGroup(g, v) ==
    /\ g \in GroupsOf(server)
    /\ Notified(WithSetting(server, g, v), <<Change("setting", g, v)>>)

OtherRegroups(s) == Notified(s, <<Change("update", None, s)>>)

----------------------------------------------------------------------------
(* onMessage()                                                             *)

Receives ==
    /\ readyState = "open" /\ toClient # <<>>
    /\ toClient' = Tail(toClient)
    /\ UNCHANGED <<server, readyState, toServer, msgId, statusReq, entered, bounds, acted>>

Message == Head(toClient)

\* The answer to the last request that asked for a status.
IsStatus == Message.method # "notify" /\ Message.id = statusReq

AdoptStatus ==
    /\ Receives /\ IsStatus
    /\ \/ /\ Message.result # None
          /\ view' = Message.result /\ loaded' = TRUE
          /\ suspect' = Outstanding(Tail(toClient))
       \* An error has no result: the handler throws.
       \/ /\ Message.result = None
          /\ suspect' = IF loaded THEN suspect ELSE Fields
          /\ UNCHANGED <<view, loaded>>

IgnoreAnswer ==
    /\ Receives /\ Message.method # "notify" /\ ~IsStatus
    /\ suspect' =
          IF Message.method = "clients" /\ Message.result # None
          THEN suspect \union {MemberField} ELSE suspect
    /\ UNCHANGED <<view, loaded>>

\* action() throws for a client or group that the view does not have, and
\* the rest of a batch is not done.
Unknown(s, a) ==
    CASE a.what = "config" -> ~Known(s, a.target)
      [] a.what = "setting" -> a.target \notin GroupsOf(s)
      [] OTHER -> FALSE

FaultyDid(s, a) ==
    CASE a.what = "config" -> WithConfig(s, a.target, a.value)
      [] a.what = "setting" -> s
      [] OTHER -> a.value

Did(s, a) ==
    CASE a.what = "config" -> WithConfig(s, a.target, a.value)
      [] a.what = "setting" -> WithSetting(s, a.target, a.value)
      [] OTHER -> a.value

FieldsOf(actions) ==
    IF \E i \in DOMAIN actions : actions[i].what = "update" THEN Fields
    ELSE {Field(actions[i].what, actions[i].target) : i \in DOMAIN actions}

Done(actions) ==
    LET n == CHOOSE k \in 1 .. Len(actions) + 1 :
                /\ \A j \in 1 .. k - 1 : ~Unknown(view, actions[j])
                /\ k <= Len(actions) => Unknown(view, actions[k])
    IN  SubSeq(actions, 1, n - 1)

Notify ==
    /\ Receives /\ Message.method = "notify"
    /\ LET done == Done(Message.actions)
           fields == FieldsOf(done)
       IN  /\ view' = FoldLeft(Did, view, done)
           /\ suspect' = (suspect \ fields)
                  \union (fields \intersect Outstanding(Tail(toClient)))
                  \union (FieldsOf(Message.actions) \ fields)
    /\ UNCHANGED loaded

----------------------------------------------------------------------------
Lose == Lost("closing") \/ Lost("closed")

User ==
    \/ \E c \in Clients, v \in Values : SetVolume(c, v)
    \/ \E g \in Groups, v \in Values : SetGroup(g, v)
    \/ \E c \in Clients, g \in GroupsOf(view) \union {None} : MoveClient(c, g)
    \/ \E c \in Clients : DeleteClient(c)
    \/ \E g \in Groups : GroupVolumeEnter(g)
    \/ \E g \in Groups, v \in Values \union (IF entered = None THEN {} ELSE {entered.volume}) :
          SetGroupVolume(g, v)

Others ==
    \/ \E c \in Clients, v \in Values : OtherSetsClient(c, v)
    \/ \E c, d \in Clients, v \in Values : OtherSetsBoth(c, d, v)
    \/ \E g \in Groups, v \in Values : OtherSetsGroup(g, v)
    \/ \E c \in Clients : OtherRegroups(Without(server, c))
    \/ \E c \in Clients, g \in GroupsOf(server) :
          Known(server, c) /\ OtherRegroups(Regrouped(server, g, MembersOf(server, g) \union {c}))

OnMessage == AdoptStatus \/ IgnoreAnswer \/ Notify

Next == Opened \/ Lose \/ Closed \/ Connect \/ User \/ ServerHandles \/ Others \/ OnMessage

\* The timeout fires, the server answers and messages arrive; an attempt to
\* connect ends one way or the other.
Fairness ==
    /\ WF_vars(Connect) /\ WF_vars(Opened) /\ WF_vars(readyState = "closing" /\ Closed)
    /\ WF_vars(ServerHandles) /\ WF_vars(OnMessage)

Spec == Init /\ [][Next]_vars /\ Fairness

----------------------------------------------------------------------------
(* Properties                                                              *)

\* Every variable has its type.
TypeOK ==
    /\ server \in States /\ view \in States
    /\ readyState \in {"connecting", "open", "closing", "closed"}
    /\ readyState # "open" => toServer = <<>> /\ toClient = <<>>
    /\ \A r \in Range(toServer) : r.id \in 1 .. msgId
    /\ \A m \in Range(toClient) : m.method # "notify" => m.id \in 1 .. msgId
    /\ msgId \in Nat /\ statusReq \in -1 .. msgId
    /\ suspect \subseteq Fields

Quiet == readyState = "open" /\ toServer = <<>> /\ toClient = <<>>

\* Once nothing is under way, the page shows what the server has, with these
\* exceptions (suspect): what the user changed while an older message about it
\* was under way, which then overwrote it; a value that the server refused; a
\* change that came in a batch behind one the page could not place; the members
\* of groups, if an answer to SetClients was not the last awaited; everything,
\* if a SetClients that was refused took the place of the first status.
AgreesWhenQuiet == Quiet => \A f \in Fields \ suspect : Agrees(f)

\* A page whose user has sent nothing since it connected shows exactly what the
\* server has, whatever was lost or refused over earlier connections.
FreshConnection == Quiet /\ ~acted => \A f \in Fields : Agrees(f)

\* In the end page and server agree, except as above.
EventuallyAgrees == <>[](\A f \in Fields \ suspect : Agrees(f))
=============================================================================
