------------------------- MODULE SnapControl_proofs -------------------------
(***************************************************************************)
(* The control page: types, and that it agrees with the server once        *)
(* nothing is under way.                                                   *)
(***************************************************************************)
EXTENDS SnapControl, SequenceTheorems, FiniteSetTheorems, TLAPS

----------------------------------------------------------------------------
(* Types of what is under way                                              *)

Configs == Values \union {NaN, 50}

Requests ==
    [id : Nat, method : {"status"}, target : {None}, value : {None}]
      \union [id : Nat, method : {"config"}, target : Clients, value : Configs]
      \union [id : Nat, method : {"setting"}, target : Groups, value : Values]
      \union [id : Nat, method : {"clients"}, target : Groups, value : SUBSET Clients]
      \union [id : Nat, method : {"delete"}, target : Clients, value : {None}]

Answers ==
    [id : Nat, method : {"status"}, target : {None}, result : States]
      \union [id : Nat, method : {"config", "delete"}, target : Clients, result : {None}]
      \union [id : Nat, method : {"setting"}, target : Groups, result : {None}]
      \union [id : Nat, method : {"clients"}, target : Groups, result : States \union {None}]

Changes ==
    [what : {"config"}, target : Clients, value : Values]
      \union [what : {"setting"}, target : Groups, value : Values]
      \union [what : {"update"}, target : {None}, value : States]

Notifications == [method : {"notify"}, actions : Seq(Changes)]
Messages == Answers \union Notifications
IsNote(m) == m.method = "notify"

\* One change, or the same one of two clients.
IsBatch(bs) ==
    \/ Len(bs) = 1
    \/ /\ Len(bs) = 2 /\ bs[1].what = "config" /\ bs[2].what = "config"
       /\ bs[1].value = bs[2].value

Sending(ms, n) ==
    /\ ms \in Seq(Requests)
    /\ \A i \in 1 .. Len(ms) : ms[i].id \in 1 .. n

Coming(ms, n) ==
    /\ ms \in Seq(Messages)
    /\ \A i \in 1 .. Len(ms) :
          IF IsNote(ms[i]) THEN IsBatch(ms[i].actions) ELSE ms[i].id \in 1 .. n

TypeInv ==
    /\ server \in States /\ view \in States
    /\ readyState \in {"connecting", "open", "closing", "closed"}
    /\ readyState # "open" => toServer = <<>> /\ toClient = <<>>
    /\ Sending(toServer, msgId) /\ Coming(toClient, msgId)
    /\ msgId \in Nat /\ statusReq \in -1 .. msgId
    /\ suspect \subseteq Fields
    /\ entered # None => entered.volumes \in Seq(Configs)
    /\ acted \in BOOLEAN /\ loaded \in BOOLEAN

----------------------------------------------------------------------------
(* States of a server                                                      *)

\* The groups of a state, and the clients of one of them.
LEMMA GroupFacts ==
    ASSUME NEW s \in States, NEW g \in Groups
    PROVE  /\ GroupsOf(s) \subseteq Groups
           /\ g \in GroupsOf(s) <=> \E c \in Clients : s.member[c] = g
           /\ MembersOf(s, g) \subseteq Clients
           /\ \A c \in Clients : Known(s, c) <=> s.member[c] \in GroupsOf(s)
BY ControlAssumption DEF GroupsOf, MembersOf, Known, States

\* A client or group gets another value.
LEMMA WithConfigFacts ==
    ASSUME NEW s \in States, NEW c \in Clients, NEW v \in Configs
    PROVE  /\ WithConfig(s, c, v) \in States
           /\ WithConfig(s, c, v).config = [s.config EXCEPT ![c] = v]
           /\ WithConfig(s, c, v).setting = s.setting
           /\ WithConfig(s, c, v).member = s.member
BY DEF WithConfig, States, Configs

\* What a state is when a group is set.
LEMMA WithSettingFacts ==
    ASSUME NEW s \in States, NEW g \in Groups, NEW v \in Values
    PROVE  /\ WithSetting(s, g, v) \in States
           /\ WithSetting(s, g, v).config = s.config
           /\ WithSetting(s, g, v).setting = [s.setting EXCEPT ![g] = v]
           /\ WithSetting(s, g, v).member = s.member
BY DEF WithSetting, States

\* What a state is when a client has been deleted.
LEMMA WithoutFacts ==
    ASSUME NEW s \in States, NEW c \in Clients
    PROVE  /\ Without(s, c) \in States
           /\ Without(s, c).config = s.config
           /\ Without(s, c).setting = s.setting
           /\ Without(s, c).member = [s.member EXCEPT ![c] = None]
BY DEF Without, States

\* Who leaves a group gets a new one; nobody is lost, nor anything else changed.
LEMMA RegroupedFacts ==
    ASSUME NEW s \in States, NEW g \in Groups, NEW cs, NewGroups(s, g, cs) # {}
    PROVE  /\ Regrouped(s, g, cs) \in States
           /\ Regrouped(s, g, cs).config = s.config
           /\ \A h \in Groups :
                 s.setting[h] # None => Regrouped(s, g, cs).setting[h] = s.setting[h]
           /\ \A c \in Clients :
                 LET h == Regrouped(s, g, cs).member[c]
                 IN  \/ h = g /\ Known(s, c)
                     \/ /\ h \in Groups /\ s.setting[h] = None
                        /\ Regrouped(s, g, cs).setting[h] = 0 /\ Known(s, c)
                     \/ h = s.member[c]
<1> DEFINE new == CHOOSE f \in NewGroups(s, g, cs) : TRUE
           L == MembersOf(s, g) \ cs
           T == {h \in Groups : s.setting[h] = None}
           member == [c \in Clients |->
                CASE c \in cs /\ Known(s, c) -> g
                  [] c \in DOMAIN new -> new[c]
                  [] OTHER -> s.member[c]]
           setting == [h \in Groups |-> IF h \in Range(new) THEN 0 ELSE s.setting[h]]
<1>1. new \in [L -> T]
    BY DEF NewGroups, Injection
<1>2. L \subseteq Clients /\ T \subseteq Groups /\ \A c \in L : Known(s, c)
    BY ControlAssumption DEF MembersOf, Known
<1>3. Regrouped(s, g, cs) = [s EXCEPT !.member = member, !.setting = setting]
    BY DEF Regrouped, States
<1>4. member \in [Clients -> Groups \union {None}]
    BY <1>1, <1>2 DEF States
<1>5. setting \in [Groups -> Values \union {None}]
    BY DEF States, Values
<1>6. Range(new) \subseteq T
    BY <1>1 DEF Range
<1> HIDE DEF new, L, T
<1>7. /\ Regrouped(s, g, cs) \in States
      /\ Regrouped(s, g, cs).config = s.config
      /\ Regrouped(s, g, cs).member = member
      /\ Regrouped(s, g, cs).setting = setting
  <2> HIDE DEF member, setting
  <2> QED
      BY <1>3, <1>4, <1>5 DEF States
<1>8. \A h \in Groups : s.setting[h] # None => setting[h] = s.setting[h]
    BY <1>6 DEF T
<1>9. ASSUME NEW c \in Clients
      PROVE  \/ member[c] = g /\ Known(s, c)
             \/ /\ member[c] \in Groups /\ s.setting[member[c]] = None
                /\ setting[member[c]] = 0 /\ Known(s, c)
             \/ member[c] = s.member[c]
  <2>1. CASE c \in cs /\ Known(s, c)
    <3>1. c \notin DOMAIN new
        BY <2>1, <1>1 DEF L
    <3> QED
        BY <2>1, <3>1
  <2>2. CASE ~(c \in cs /\ Known(s, c)) /\ c \in DOMAIN new
    <3>1. member[c] = new[c] /\ c \in L /\ new[c] \in T /\ new[c] \in Range(new)
        BY <2>2, <1>1 DEF Range
    <3> QED
        BY <3>1, <1>2 DEF T
  <2>3. CASE ~(c \in cs /\ Known(s, c)) /\ c \notin DOMAIN new
      BY <2>3
  <2> QED
      BY <2>1, <2>2, <2>3
<1> QED
    BY <1>7, <1>8, <1>9

\* Every client that is known is in a group that is taken.
Housed(s) == \A c \in Clients : Known(s, c) => s.setting[s.member[c]] # None

\* From one state of a server to a later one: ids stay taken, and neither
\* clients nor groups come back.
Follows(s, t) ==
    /\ \A g \in Groups : s.setting[g] # None => t.setting[g] # None
    /\ Housed(s) => Housed(t)
    /\ \A c \in Clients : Known(t, c) => Known(s, c)
    /\ \A g \in Groups : g \in GroupsOf(t) /\ s.setting[g] # None => g \in GroupsOf(s)

\* Settings of clients are nothing to ids, clients and groups.
LEMMA ConfigFollows ==
    ASSUME NEW s \in States, NEW t \in States, t.setting = s.setting, t.member = s.member
    PROVE  Follows(s, t)
BY DEF Follows, Housed, Known, GroupsOf

\* Setting a group that has an id leads on.
LEMMA SettingFollows ==
    ASSUME NEW s \in States, NEW g \in Groups, NEW v \in Values
    PROVE  Follows(s, WithSetting(s, g, v))
<1> DEFINE t == WithSetting(s, g, v)
<1>1. /\ t \in States /\ t.member = s.member
      /\ t.setting = [s.setting EXCEPT ![g] = v]
    BY WithSettingFacts
<1> HIDE DEF t
<1>2. v # None
    BY ControlAssumption
<1>3. \A h \in Groups : s.setting[h] # None => t.setting[h] # None
    BY <1>1, <1>2 DEF States
<1>4. Housed(s) => Housed(t)
  <2>1. \A c \in Clients : Known(s, c) => s.member[c] \in Groups
      BY DEF Known, States
  <2> QED
      BY <1>1, <1>3, <2>1 DEF Housed, Known
<1> QED
    BY <1>1, <1>3, <1>4 DEF Follows, Known, GroupsOf, t

\* So does deleting a client.
LEMMA WithoutFollows ==
    ASSUME NEW s \in States, NEW c \in Clients
    PROVE  Follows(s, Without(s, c))
<1> DEFINE t == Without(s, c)
<1>1. /\ t \in States /\ t.setting = s.setting
      /\ t.member = [s.member EXCEPT ![c] = None]
    BY WithoutFacts
<1> HIDE DEF t
<1>2. \A d \in Clients : t.member[d] = IF d = c THEN None ELSE s.member[d]
    BY <1>1 DEF States
<1>3. \A d \in Clients : Known(t, d) => Known(s, d) /\ t.member[d] = s.member[d]
    BY <1>2 DEF Known
<1>4. Housed(s) => Housed(t)
    BY <1>1, <1>3 DEF Housed
<1>5. \A g \in Groups : g \in GroupsOf(t) => g \in GroupsOf(s)
  <2>1. ASSUME NEW g \in Groups, g \in GroupsOf(t)
        PROVE  g \in GroupsOf(s)
    <3>1. PICK d \in Clients : t.member[d] = g
        BY <1>1, <2>1, GroupFacts
    <3>2. g # None
        BY ControlAssumption
    <3>3. s.member[d] = g
        BY <1>2, <3>1, <3>2
    <3> QED
        BY <3>3, GroupFacts
  <2> QED
      BY <2>1
<1> QED
    BY <1>1, <1>3, <1>4, <1>5 DEF Follows, t

\* So does SetClients: the ids of new groups were not taken.
LEMMA RegroupedFollows ==
    ASSUME NEW s \in States, NEW g \in Groups, g \in GroupsOf(s), NEW cs,
           NewGroups(s, g, cs) # {}
    PROVE  Follows(s, Regrouped(s, g, cs))
<1> DEFINE t == Regrouped(s, g, cs)
<1>1. /\ t \in States
      /\ \A h \in Groups : s.setting[h] # None => t.setting[h] = s.setting[h]
      /\ \A c \in Clients :
            \/ t.member[c] = g /\ Known(s, c)
            \/ /\ t.member[c] \in Groups /\ s.setting[t.member[c]] = None
               /\ t.setting[t.member[c]] = 0 /\ Known(s, c)
            \/ t.member[c] = s.member[c]
    BY RegroupedFacts
<1> HIDE DEF t
<1>2. \A h \in Groups : s.setting[h] # None => t.setting[h] # None
    BY <1>1
<1>3. \A c \in Clients : Known(t, c) => Known(s, c)
    BY <1>1 DEF Known
<1>4. ASSUME Housed(s)
      PROVE  Housed(t)
  <2>1. s.setting[g] # None
    <3>1. PICK c \in Clients : s.member[c] = g
        BY GroupFacts
    <3>2. Known(s, c)
        BY <3>1, ControlAssumption DEF Known
    <3> QED
        BY <1>4, <3>1, <3>2 DEF Housed
  <2>2. 0 # None
      BY ControlAssumption DEF Values
  <2>3. ASSUME NEW c \in Clients, Known(t, c)
        PROVE  t.setting[t.member[c]] # None
    <3>1. CASE t.member[c] = g
        BY <3>1, <1>2, <2>1
    <3>2. CASE t.setting[t.member[c]] = 0
        BY <3>2, <2>2
    <3>3. CASE t.member[c] = s.member[c]
      <4>1. s.setting[s.member[c]] # None /\ s.member[c] \in Groups
          BY <1>3, <1>4, <2>3 DEF Housed, Known, States
      <4> QED
          BY <3>3, <4>1, <1>2
    <3> QED
        BY <1>1, <3>1, <3>2, <3>3
  <2> QED
      BY <2>3 DEF Housed
<1>5. ASSUME NEW h \in Groups, h \in GroupsOf(t), s.setting[h] # None
      PROVE  h \in GroupsOf(s)
  <2>1. PICK c \in Clients : t.member[c] = h
      BY <1>1, <1>5, GroupFacts
  <2>2. h = g \/ s.member[c] = h
      BY <1>1, <1>5, <2>1
  <2> QED
      BY <2>2, GroupFacts
<1> QED
    BY <1>2, <1>3, <1>4, <1>5 DEF Follows, t

----------------------------------------------------------------------------
(* Requests, answers and changes                                           *)

\* What is asked for by each kind of request.
LEMMA RequestFacts ==
    ASSUME NEW r \in Requests
    PROVE  /\ r.id \in Nat
           /\ r.method \in {"status", "config", "setting", "clients", "delete"}
           /\ r.method = "config" => r.target \in Clients /\ r.value \in Configs
           /\ r.method = "setting" => r.target \in Groups /\ r.value \in Values
           /\ r.method = "clients" => r.target \in Groups
           /\ r.method = "delete" => r.target \in Clients
BY DEF Requests

\* Which requests the server refuses, and what the others do.
LEMMA RefusedFacts ==
    ASSUME NEW s, NEW r \in Requests
    PROVE  /\ r.method = "config" => (Refused(s, r) <=> ~Known(s, r.target) \/ r.value = NaN)
           /\ r.method \in {"setting", "clients"} => (Refused(s, r) <=> r.target \notin GroupsOf(s))
           /\ r.method \in {"status", "delete"} => ~Refused(s, r)
BY RequestFacts DEF Refused

\* What each kind of request does.
LEMMA AppliedFacts ==
    ASSUME NEW s, NEW r \in Requests
    PROVE  /\ Refused(s, r) \/ r.method = "status" => Applied(s, r) = s
           /\ ~Refused(s, r) =>
                 /\ r.method = "config" => Applied(s, r) = WithConfig(s, r.target, r.value)
                 /\ r.method = "setting" => Applied(s, r) = WithSetting(s, r.target, r.value)
                 /\ r.method = "clients" => Applied(s, r) = Regrouped(s, r.target, r.value)
                 /\ r.method = "delete" => Applied(s, r) = Without(s, r.target)
BY RequestFacts DEF Applied

\* A request makes a state of a server from one.
LEMMA AppliedType ==
    ASSUME NEW s \in States, NEW r \in Requests,
           r.method = "clients" /\ ~Refused(s, r) => IdsLeft(s, r.target, r.value)
    PROVE  Applied(s, r) \in States
<1>1. CASE Refused(s, r) \/ r.method = "status"
    BY <1>1, AppliedFacts
<1>2. CASE ~Refused(s, r) /\ r.method = "config"
  <2>1. r.target \in Clients /\ r.value \in Configs
      BY <1>2, RequestFacts
  <2>2. Applied(s, r) = WithConfig(s, r.target, r.value)
      BY <1>2, AppliedFacts
  <2>3. WithConfig(s, r.target, r.value) \in States
      BY <2>1, WithConfigFacts, Zenon
  <2> QED
      BY <2>2, <2>3
<1>3. CASE ~Refused(s, r) /\ r.method = "setting"
  <2>1. r.target \in Groups /\ r.value \in Values
      BY <1>3, RequestFacts
  <2>2. Applied(s, r) = WithSetting(s, r.target, r.value)
      BY <1>3, AppliedFacts
  <2>3. WithSetting(s, r.target, r.value) \in States
      BY <2>1, WithSettingFacts, Zenon
  <2> QED
      BY <2>2, <2>3
<1>4. CASE ~Refused(s, r) /\ r.method = "clients"
  <2>1. r.target \in Groups
      BY <1>4, RequestFacts
  <2> QED
      BY <1>4, <2>1, AppliedFacts, RegroupedFacts DEF IdsLeft
<1>5. CASE ~Refused(s, r) /\ r.method = "delete"
  <2>1. r.target \in Clients
      BY <1>5, RequestFacts
  <2>2. Applied(s, r) = Without(s, r.target)
      BY <1>5, AppliedFacts
  <2> QED
      BY <2>1, <2>2, WithoutFacts
<1> QED
    BY <1>1, <1>2, <1>3, <1>4, <1>5, RequestFacts

\* Answers: which have a result, and which one.
LEMMA AnswerFacts ==
    ASSUME NEW s \in States, NEW r \in Requests,
           r.method = "clients" /\ ~Refused(s, r) => IdsLeft(s, r.target, r.value)
    PROVE  /\ Answer(s, r) \in Answers /\ ~IsNote(Answer(s, r))
           /\ Answer(s, r).id = r.id /\ Answer(s, r).method = r.method
           /\ Answer(s, r).target = r.target
           /\ Answer(s, r).result # None <=>
                 r.method \in {"status", "clients"} /\ ~Refused(s, r)
           /\ Answer(s, r).result # None => Answer(s, r).result = Applied(s, r)
<1>1. Applied(s, r) \in States /\ Applied(s, r) # None
    BY AppliedType, ControlAssumption
<1>2. /\ Answer(s, r).id = r.id /\ Answer(s, r).method = r.method
      /\ Answer(s, r).target = r.target
      /\ Answer(s, r).result =
            IF r.method \in {"status", "clients"} /\ ~Refused(s, r) THEN Applied(s, r) ELSE None
    BY DEF Answer
<1>3. Answer(s, r) \in Answers
  <2>1. CASE r.method = "status"
      BY <2>1, <1>1, RefusedFacts DEF Answer, Answers, Requests
  <2>2. CASE r.method # "status"
      BY <2>2, <1>1 DEF Answer, Answers, Requests
  <2> QED
      BY <2>1, <2>2
<1>4. ~IsNote(Answer(s, r))
    BY <1>2, RequestFacts DEF IsNote
<1> QED
    BY <1>1, <1>2, <1>3, <1>4

\* What a message is.
LEMMA MessageFacts ==
    ASSUME NEW m \in Messages
    PROVE  /\ IsNote(m) => m.actions \in Seq(Changes)
           /\ ~IsNote(m) =>
                 /\ m.id \in Nat
                 /\ m.method \in {"status", "config", "setting", "clients", "delete"}
                 /\ m.result \in States \union {None}
                 /\ m.result # None => m.method \in {"status", "clients"}
                 /\ m.method \in {"config", "delete"} => m.target \in Clients
                 /\ m.method \in {"setting", "clients"} => m.target \in Groups
BY ControlAssumption DEF Messages, Answers, Notifications, IsNote

\* The kinds of changes, and what each one has.
LEMMA ChangeFacts ==
    ASSUME NEW a \in Changes
    PROVE  /\ a.what \in {"config", "setting", "update"}
           /\ a.what = "config" => a.target \in Clients /\ a.value \in Values
           /\ a.what = "setting" => a.target \in Groups /\ a.value \in Values
           /\ a.what = "update" => a.value \in States
BY DEF Changes

\* What a change does to a view.
LEMMA DidFacts ==
    ASSUME NEW s, NEW a \in Changes
    PROVE  /\ a.what = "config" => Did(s, a) = WithConfig(s, a.target, a.value)
           /\ a.what = "setting" => Did(s, a) = WithSetting(s, a.target, a.value)
           /\ a.what = "update" => Did(s, a) = a.value
BY ChangeFacts DEF Did

\* A change makes a view from a view.
LEMMA DidType ==
    ASSUME NEW s \in States, NEW a \in Changes
    PROVE  Did(s, a) \in States
<1>1. CASE a.what = "config"
  <2>1. a.target \in Clients /\ a.value \in Configs
      BY <1>1, ChangeFacts DEF Configs
  <2>2. Did(s, a) = WithConfig(s, a.target, a.value)
      BY <1>1, DidFacts
  <2>3. WithConfig(s, a.target, a.value) \in States
      BY <2>1, WithConfigFacts, Zenon
  <2> QED
      BY <2>2, <2>3
<1>2. CASE a.what = "setting"
  <2>1. a.target \in Groups /\ a.value \in Values
      BY <1>2, ChangeFacts
  <2>2. Did(s, a) = WithSetting(s, a.target, a.value)
      BY <1>2, DidFacts
  <2>3. WithSetting(s, a.target, a.value) \in States
      BY <2>1, WithSettingFacts, Zenon
  <2> QED
      BY <2>2, <2>3
<1>3. CASE a.what = "update"
    BY <1>3, DidFacts, ChangeFacts
<1> QED
    BY <1>1, <1>2, <1>3, ChangeFacts

\* The changes that action() throws for.
LEMMA UnknownFacts ==
    ASSUME NEW s, NEW a \in Changes
    PROVE  /\ a.what = "config" => (Unknown(s, a) <=> ~Known(s, a.target))
           /\ a.what = "setting" => (Unknown(s, a) <=> a.target \notin GroupsOf(s))
           /\ a.what = "update" => ~Unknown(s, a)
BY ChangeFacts DEF Unknown

----------------------------------------------------------------------------
(* Batches                                                                 *)

\* A batch is done up to the first change that the view cannot place.
LEMMA DoneFacts ==
    ASSUME NEW bs \in Seq(Changes), IsBatch(bs)
    PROVE  \/ Done(bs) = <<>> /\ Unknown(view, bs[1])
           \/ /\ Done(bs) = <<bs[1]>> /\ ~Unknown(view, bs[1])
              /\ Len(bs) = 2 => Unknown(view, bs[2])
           \/ /\ Done(bs) = bs /\ Len(bs) = 2
              /\ ~Unknown(view, bs[1]) /\ ~Unknown(view, bs[2])
<1>0. Len(bs) = 1 \/ Len(bs) = 2
    BY Zenon DEF IsBatch
<1>2. Len(bs) \in 1 .. 2
    BY <1>0
<1> DEFINE U(j) == Unknown(view, bs[j])
           First(k) == /\ \A j \in 1 .. k - 1 : ~U(j)
                       /\ k <= Len(bs) => U(k)
           n == CHOOSE k \in 1 .. Len(bs) + 1 : First(k)
<1>1. Done(bs) = SubSeq(bs, 1, n - 1)
    BY DEF Done
<1> SUFFICES \/ Done(bs) = <<>> /\ U(1)
             \/ Done(bs) = <<bs[1]>> /\ ~U(1) /\ (Len(bs) = 2 => U(2))
             \/ Done(bs) = bs /\ Len(bs) = 2 /\ ~U(1) /\ ~U(2)
    OBVIOUS
<1> HIDE DEF U
<1>3. \E k \in 1 .. Len(bs) + 1 : First(k)
  <2>1. CASE U(1)
    <3>1. First(1)
        BY <2>1
    <3> QED
        BY <3>1, <1>2
  <2>2. CASE ~U(1) /\ (Len(bs) = 1 \/ U(2))
    <3>1. First(2)
        BY <2>2, <1>2
    <3> QED
        BY <3>1, <1>2
  <2>3. CASE ~U(1) /\ Len(bs) = 2 /\ ~U(2)
    <3>1. First(3)
        BY <2>3
    <3> QED
        BY <3>1, <2>3
  <2> QED
      BY <1>2, <2>1, <2>2, <2>3
<1>4. n \in 1 .. Len(bs) + 1 /\ First(n)
    BY <1>3
<1> HIDE DEF n
<1> HIDE DEF n, First
<1>5. CASE n = 1
  <2>1. First(1) /\ 1 <= Len(bs)
      BY <1>4, <1>5, <1>2
  <2>2. U(1)
      BY <2>1 DEF First
  <2>3. SubSeq(bs, 1, 0) = <<>>
      BY SubSeqEmpty
  <2> QED
      BY <1>1, <1>5, <2>2, <2>3
<1>6. CASE n = 2
  <2>1. First(2)
      BY <1>4, <1>6
  <2>2. ~U(1)
      BY <2>1 DEF First
  <2>3. Len(bs) = 2 => U(2)
      BY <2>1 DEF First
  <2>4. SubSeq(bs, 1, 1) = <<bs[1]>>
    <3>1. SubSeq(bs, 1, 1) = <<bs[1]>> \o SubSeq(bs, 2, 1)
        BY <1>2, SubSeqRecursiveFirst
    <3>2. SubSeq(bs, 2, 1) = <<>>
        BY SubSeqEmpty
    <3>3. <<bs[1]>> \o <<>> = <<bs[1]>>
        OBVIOUS
    <3> QED
        BY <3>1, <3>2, <3>3, Zenon
  <2> QED
      BY <1>1, <1>6, <2>2, <2>3, <2>4
<1>7. CASE n = 3
  <2>1. First(3) /\ Len(bs) = 2
      BY <1>4, <1>7, <1>2
  <2>2. ~U(1) /\ ~U(2)
      BY <2>1 DEF First
  <2>3. SubSeq(bs, 1, Len(bs)) = bs
      BY SubSeqFull
  <2> QED
      BY <1>1, <1>7, <2>1, <2>2, <2>3
<1>8. n = 1 \/ n = 2 \/ n = 3
  <2> DEFINE l == Len(bs)
  <2>1. (l = 1 \/ l = 2) /\ n \in 1 .. l + 1
      BY <1>0, <1>4, Zenon
  <2> HIDE DEF l
  <2> QED
      BY <2>1
<1> QED
    BY <1>5, <1>6, <1>7, <1>8, Zenon

\* What a batch does, one change after the other.
AllDone(v, bs) == FoldLeft(Did, v, bs)

\* A batch of none, one or two changes, done one after the other.
LEMMA FoldFacts ==
    ASSUME NEW v, NEW bs, NEW n \in 0 .. 2, DOMAIN bs = 1 .. n
    PROVE  /\ n = 0 => AllDone(v, bs) = v
           /\ n = 1 => AllDone(v, bs) = Did(v, bs[1])
           /\ n = 2 => AllDone(v, bs) = Did(Did(v, bs[1]), bs[2])
<1> DEFINE iter[s \in SUBSET (DOMAIN bs)] ==
              IF s = {} THEN v ELSE LET x == Max(s) IN Did(iter[s \ {x}], bs[x])
           f(s) == IF s = {} THEN v
                   ELSE IF s = {1} THEN Did(v, bs[1])
                   ELSE IF s = {2} THEN Did(v, bs[2])
                   ELSE Did(Did(v, bs[1]), bs[2])
           F == [s \in SUBSET (DOMAIN bs) |-> f(s)]
           Step(g) == [s \in SUBSET (DOMAIN bs) |->
                          IF s = {} THEN v ELSE LET x == Max(s) IN Did(g[s \ {x}], bs[x])]
           R == AllDone(v, bs)
<1>1. R = iter[DOMAIN bs]
    BY DEF AllDone, FoldLeft, MapThenFoldSet
<1> SUFFICES /\ n = 0 => R = v
             /\ n = 1 => R = Did(v, bs[1])
             /\ n = 2 => R = Did(Did(v, bs[1]), bs[2])
    OBVIOUS
<1> HIDE DEF R
<1>2. DOMAIN bs \subseteq {1, 2}
    OBVIOUS
<1>3. Max({1}) = 1 /\ Max({2}) = 2 /\ Max({1, 2}) = 2
    BY DEF Max
<1>4. ASSUME NEW s \in SUBSET (DOMAIN bs)
      PROVE  f(s) = IF s = {} THEN v ELSE LET x == Max(s) IN Did(F[s \ {x}], bs[x])
  <2>1. s = {} \/ s = {1} \/ s = {2} \/ s = {1, 2}
      BY <1>2
  <2>2. CASE s = {}
      BY <2>2
  <2>3. CASE s = {1}
    <3>1. s \ {Max(s)} = {} /\ F[{}] = v
        BY <2>3, <1>3
    <3> QED
        BY <3>1, <2>3, <1>3
  <2>4. CASE s = {2}
    <3>1. s \ {Max(s)} = {} /\ F[{}] = v
        BY <2>4, <1>3
    <3> QED
        BY <3>1, <2>4, <1>3
  <2>5. CASE s = {1, 2}
    <3>1. s \ {2} = {1} /\ {1} \in SUBSET (DOMAIN bs) /\ Max(s) = 2
        BY <2>5, <1>3
    <3>2. F[{1}] = Did(v, bs[1])
        BY <3>1
    <3>3. f(s) = Did(Did(v, bs[1]), bs[2])
      <4>1. s # {} /\ s # {1} /\ s # {2}
          BY <2>5
      <4> QED
          BY <4>1
    <3> QED
        BY <3>1, <3>2, <3>3, <2>5, <1>3
  <2> QED
      BY <2>1, <2>2, <2>3, <2>4, <2>5
<1>5. F = Step(F)
    BY <1>4
<1>6. \E g : g = Step(g)
    BY <1>5
<1>7. iter = Step(iter)
    BY <1>6, Zenon
<1> HIDE DEF iter
<1>8. \A s \in SUBSET (DOMAIN bs) :
          iter[s] = IF s = {} THEN v ELSE Did(iter[s \ {Max(s)}], bs[Max(s)])
  <2> DEFINE I == iter
  <2>1. I = Step(iter)
      BY <1>7
  <2> QED
      BY <1>7
<1>9. CASE n = 0
  <2>1. DOMAIN bs = {}
      BY <1>9
  <2>2. iter[{}] = v
      BY <1>8
  <2> QED
      BY <2>1, <2>2, <1>1, <1>9
<1>10. CASE n = 1
  <2>1. DOMAIN bs = {1}
      BY <1>10
  <2>2. iter[{}] = v
      BY <1>8
  <2>3. iter[{1}] = Did(iter[{1} \ {1}], bs[1])
      BY <1>8, <2>1, <1>3
  <2>4. {1} \ {1} = {}
      OBVIOUS
  <2>5. R = Did(v, bs[1])
      BY <2>1, <2>2, <2>3, <2>4, <1>1, Zenon
  <2> QED
      BY <2>5, <1>10
<1>11. CASE n = 2
  <2>1. DOMAIN bs = {1, 2}
      BY <1>11
  <2>2. iter[{}] = v
      BY <1>8
  <2>3. iter[{1}] = Did(iter[{1} \ {1}], bs[1])
      BY <1>8, <2>1, <1>3
  <2>4. iter[{1, 2}] = Did(iter[{1, 2} \ {2}], bs[2])
      BY <1>8, <2>1, <1>3
  <2>5. {1} \ {1} = {} /\ {1, 2} \ {2} = {1}
      OBVIOUS
  <2>6. R = Did(Did(v, bs[1]), bs[2])
      BY <2>1, <2>2, <2>3, <2>4, <2>5, <1>1, Zenon
  <2> QED
      BY <2>6, <1>11
<1> QED
    BY <1>9, <1>10, <1>11

----------------------------------------------------------------------------
(* Fields                                                                  *)

\* A request or answer is about a field.
Asks(r, f) ==
    r.method \in {"config", "setting", "clients", "delete"} /\ Field(r.method, r.target) = f

\* The field of each kind of request and change.
LEMMA FieldFacts ==
    ASSUME NEW t
    PROVE  /\ Field("config", t) = <<"config", t>>
           /\ Field("setting", t) = <<"setting", t>>
           /\ Field("clients", t) = MemberField
           /\ Field("delete", t) = MemberField
           /\ Field("update", t) = MemberField
           /\ MemberField \in Fields /\ MemberField[1] = "member"
           /\ t \in Clients => <<"config", t>> \in Fields
           /\ t \in Groups => <<"setting", t>> \in Fields
BY DEF Field, Fields, MemberField

\* A field is the setting of a client or of a group, or the members.
LEMMA FieldKinds ==
    ASSUME NEW f \in Fields
    PROVE  \/ /\ f[1] = "config" /\ f[2] \in Clients /\ f = <<"config", f[2]>>
              /\ f # MemberField
           \/ /\ f[1] = "setting" /\ f[2] \in Groups /\ f = <<"setting", f[2]>>
              /\ f # MemberField
           \/ f = MemberField /\ f[1] = "member"
BY DEF Fields, MemberField

\* The fields that messages are about.
LEMMA AskedFacts ==
    ASSUME NEW ms
    PROVE  \A f : f \in Asked(ms) <=> \E i \in DOMAIN ms : Asks(ms[i], f)
BY DEF Asked, Asks, Range

\* A request is about a field.
LEMMA RequestField ==
    ASSUME NEW r \in Requests, NEW f, Asks(r, f)
    PROVE  f \in Fields
BY RequestFacts, FieldFacts DEF Asks

\* So is an answer.
LEMMA AnswerField ==
    ASSUME NEW m \in Messages, NEW f, Asks(m, f)
    PROVE  f \in Fields
<1>1. ~IsNote(m)
    BY DEF IsNote, Asks
<1> QED
    BY <1>1, MessageFacts, FieldFacts DEF Asks

\* So are the changes of a notification.
LEMMA FieldsOfFacts ==
    ASSUME NEW bs \in Seq(Changes)
    PROVE  FieldsOf(bs) \subseteq Fields
<1>1. CASE \E i \in DOMAIN bs : bs[i].what = "update"
    BY <1>1 DEF FieldsOf
<1>2. ASSUME ~\E i \in DOMAIN bs : bs[i].what = "update", NEW i \in DOMAIN bs
      PROVE  Field(bs[i].what, bs[i].target) \in Fields
  <2>1. bs[i] \in Changes
      OBVIOUS
  <2> QED
      BY <2>1, <1>2, ChangeFacts, FieldFacts
<1> QED
    BY <1>1, <1>2 DEF FieldsOf

\* The clients of a group, one after the other.
LEMMA MembersFacts ==
    ASSUME NEW s \in States, NEW g \in Groups
    PROVE  /\ Members(s, g) \in Seq(Clients)
           /\ \A i, j \in DOMAIN Members(s, g) : Members(s, g)[i] = Members(s, g)[j] => i = j
           /\ \A i \in DOMAIN Members(s, g) : s.member[Members(s, g)[i]] = g
<1> DEFINE M == MembersOf(s, g)
           n == Cardinality(M)
<1>1. M \subseteq Clients /\ IsFiniteSet(M)
    BY GroupFacts, FS_Subset, ControlAssumption
<1>2. n \in Nat /\ ExistsBijection(1 .. n, M)
    BY <1>1, FS_CardinalityType
<1>3. \E f \in [1 .. n -> M] : IsInjective(f)
    BY <1>2 DEF ExistsBijection, Bijection, Injection
<1>4. Members(s, g) \in [1 .. n -> M] /\ IsInjective(Members(s, g))
    BY <1>3 DEF Members, SetToSeq
<1>5. Members(s, g) \in Seq(Clients)
    BY <1>1, <1>2, <1>4
<1>6. \A c \in M : s.member[c] = g
    BY DEF MembersOf
<1> HIDE DEF M, n
<1> QED
    BY <1>4, <1>5, <1>6 DEF IsInjective

----------------------------------------------------------------------------
(* Queues                                                                  *)

\* Messages are taken from the front, and put behind the others.
LEMMA TailFacts ==
    ASSUME NEW S, NEW s \in Seq(S), s # <<>>
    PROVE  /\ Head(s) = s[1] /\ s[1] \in S
           /\ Len(s) \in Nat /\ Len(s) >= 1
           /\ Tail(s) \in Seq(S) /\ Len(Tail(s)) = Len(s) - 1
           /\ \A i \in 1 .. Len(s) - 1 : Tail(s)[i] = s[i + 1]
<1>1. Len(s) \in Nat /\ Len(s) # 0
    BY EmptySeq
<1> QED
    BY <1>1, HeadTailProperties

\* One message more.
LEMMA AppendFacts ==
    ASSUME NEW S, NEW s \in Seq(S), NEW e \in S
    PROVE  /\ Append(s, e) \in Seq(S) /\ Len(Append(s, e)) = Len(s) + 1
           /\ \A i \in 1 .. Len(s) : Append(s, e)[i] = s[i]
           /\ Append(s, e)[Len(s) + 1] = e
BY AppendProperties

\* Several messages more.
LEMMA ConcatFacts ==
    ASSUME NEW S, NEW s \in Seq(S), NEW t \in Seq(S)
    PROVE  /\ s \o t \in Seq(S) /\ Len(s \o t) = Len(s) + Len(t)
           /\ \A i \in 1 .. Len(s) : (s \o t)[i] = s[i]
           /\ \A i \in Len(s) + 1 .. Len(s) + Len(t) : (s \o t)[i] = t[i - Len(s)]
BY ConcatProperties

\* What is under way keeps its type as messages come and go.
LEMMA SendingFacts ==
    ASSUME NEW ms, NEW n \in Nat, Sending(ms, n)
    PROVE  /\ \A k \in Nat : k >= n => Sending(ms, k)
           /\ ms # <<>> => Head(ms) \in Requests /\ Head(ms).id \in 1 .. n /\ Sending(Tail(ms), n)
           /\ \A rs \in Seq(Requests) :
                 (\A i \in 1 .. Len(rs) : rs[i].id = n + i) => Sending(ms \o rs, n + Len(rs))
<1>1. ASSUME NEW k \in Nat, k >= n
      PROVE  Sending(ms, k)
    BY <1>1 DEF Sending
<1>2. ASSUME ms # <<>>
      PROVE  Head(ms) \in Requests /\ Head(ms).id \in 1 .. n /\ Sending(Tail(ms), n)
  <2>1. /\ Head(ms) = ms[1] /\ ms[1] \in Requests
        /\ Len(ms) \in Nat /\ Len(ms) >= 1
        /\ Tail(ms) \in Seq(Requests) /\ Len(Tail(ms)) = Len(ms) - 1
        /\ \A i \in 1 .. Len(ms) - 1 : Tail(ms)[i] = ms[i + 1]
      BY <1>2, TailFacts DEF Sending
  <2>2. \A i \in 1 .. Len(ms) : ms[i].id \in 1 .. n
      BY DEF Sending
  <2> QED
      BY <2>1, <2>2 DEF Sending
<1>3. ASSUME NEW rs \in Seq(Requests), \A i \in 1 .. Len(rs) : rs[i].id = n + i
      PROVE  Sending(ms \o rs, n + Len(rs))
  <2>1. /\ ms \o rs \in Seq(Requests) /\ Len(ms \o rs) = Len(ms) + Len(rs)
        /\ \A i \in 1 .. Len(ms) : (ms \o rs)[i] = ms[i]
        /\ \A i \in Len(ms) + 1 .. Len(ms) + Len(rs) : (ms \o rs)[i] = rs[i - Len(ms)]
      BY ConcatFacts DEF Sending
  <2>2. \A i \in 1 .. Len(ms) : ms[i].id \in 1 .. n
      BY DEF Sending
  <2>3. Len(ms) \in Nat /\ Len(rs) \in Nat
      BY DEF Sending
  <2>4. ASSUME NEW i \in 1 .. Len(ms) + Len(rs)
        PROVE  (ms \o rs)[i].id \in 1 .. n + Len(rs)
    <3>1. CASE i <= Len(ms)
        BY <3>1, <2>1, <2>2, <2>3
    <3>2. CASE i > Len(ms)
      <4>1. i - Len(ms) \in 1 .. Len(rs)
          BY <3>2, <2>3
      <4>2. (ms \o rs)[i] = rs[i - Len(ms)]
          BY <3>2, <2>1, <2>3
      <4>3. rs[i - Len(ms)].id = n + (i - Len(ms))
          BY <4>1, <1>3
      <4> QED
          BY <4>1, <4>2, <4>3, <2>3
    <3> QED
        BY <3>1, <3>2, <2>3
  <2> QED
      BY <2>1, <2>4 DEF Sending
<1> QED
    BY <1>1, <1>2, <1>3

\* The same of what comes to the page.
LEMMA ComingFacts ==
    ASSUME NEW ms, NEW n \in Nat, Coming(ms, n)
    PROVE  /\ \A k \in Nat : k >= n => Coming(ms, k)
           /\ ms # <<>> =>
                 /\ Head(ms) \in Messages /\ Coming(Tail(ms), n)
                 /\ IF IsNote(Head(ms)) THEN IsBatch(Head(ms).actions) ELSE Head(ms).id \in 1 .. n
           /\ \A m \in Messages :
                 (IF IsNote(m) THEN IsBatch(m.actions) ELSE m.id \in 1 .. n)
                    => Coming(Append(ms, m), n)
<1> DEFINE OK(m, k) == IF IsNote(m) THEN IsBatch(m.actions) ELSE m.id \in 1 .. k
<1>1. ASSUME NEW k \in Nat, k >= n
      PROVE  Coming(ms, k)
  <2>1. 1 .. n \subseteq 1 .. k
      BY <1>1
  <2> QED
      BY <2>1 DEF Coming
<1>a. \A t, k : Coming(t, k) <=> t \in Seq(Messages) /\ \A i \in 1 .. Len(t) : OK(t[i], k)
    BY DEF Coming
<1> HIDE DEF OK
<1>2. ASSUME ms # <<>>
      PROVE  Head(ms) \in Messages /\ Coming(Tail(ms), n) /\ OK(Head(ms), n)
  <2>1. /\ Head(ms) = ms[1] /\ ms[1] \in Messages
        /\ Len(ms) \in Nat /\ Len(ms) >= 1
        /\ Tail(ms) \in Seq(Messages) /\ Len(Tail(ms)) = Len(ms) - 1
        /\ \A i \in 1 .. Len(ms) - 1 : Tail(ms)[i] = ms[i + 1]
      BY <1>2, <1>a, TailFacts
  <2>2. \A i \in 1 .. Len(ms) : OK(ms[i], n)
      BY <1>a
  <2>3. \A i \in 1 .. Len(Tail(ms)) : OK(Tail(ms)[i], n)
      BY <2>1, <2>2
  <2>4. OK(ms[1], n)
      BY <2>1, <2>2
  <2>5. OK(Head(ms), n)
      BY <2>1, <2>4
  <2>6. Coming(Tail(ms), n)
      BY <2>1, <2>3, <1>a
  <2> QED
      BY <2>1, <2>5, <2>6
<1>3. ASSUME NEW m \in Messages, OK(m, n)
      PROVE  Coming(Append(ms, m), n)
  <2>1. /\ Append(ms, m) \in Seq(Messages) /\ Len(Append(ms, m)) = Len(ms) + 1
        /\ \A i \in 1 .. Len(ms) : Append(ms, m)[i] = ms[i]
        /\ Append(ms, m)[Len(ms) + 1] = m
      BY <1>a, AppendFacts
  <2>2. \A i \in 1 .. Len(ms) : OK(ms[i], n)
      BY <1>a
  <2>3. ASSUME NEW i \in 1 .. Len(Append(ms, m))
        PROVE  OK(Append(ms, m)[i], n)
    <3>1. CASE i \in 1 .. Len(ms)
        BY <3>1, <2>1, <2>2
    <3>2. CASE i = Len(ms) + 1
        BY <3>2, <2>1, <1>3
    <3> QED
        BY <3>1, <3>2, <2>1
  <2> QED
      BY <2>1, <2>3, <1>a
<1> QED
    BY <1>1, <1>2, <1>3 DEF OK

----------------------------------------------------------------------------
(* Types                                                                   *)

\* The types at the beginning.
LEMMA TypeInit == Init => TypeInv
<1> SUFFICES ASSUME Init PROVE TypeInv
    OBVIOUS
<1>1. Empty \in States
    BY DEF Empty, States, Values
<1>2. server \in States
  <2>1. server.setting \in [Groups -> Values \union {None}]
      BY DEF Init, Empty, Values
  <2>2. server.member \in [Clients -> Groups \union {None}]
      BY ControlAssumption DEF Init, Empty
  <2>3. server = [config |-> [c \in Clients |-> 0], setting |-> server.setting,
                  member |-> server.member]
      BY DEF Init, Empty
  <2>4. [c \in Clients |-> 0] \in [Clients -> Values \union {NaN, 50}]
      BY DEF Values
  <2> QED
      BY <2>1, <2>2, <2>3, <2>4 DEF States
<1>3. Sending(toServer, msgId) /\ Coming(toClient, msgId)
    BY DEF Init, Sending, Coming
<1>4. msgId \in Nat /\ statusReq \in -1 .. msgId
    BY DEF Init
<1> QED
    BY <1>1, <1>2, <1>3, <1>4 DEF Init, TypeInv

\* What the user sends over an open socket comes behind the rest.
LEMMA SendType ==
    ASSUME TypeInv, NEW rs \in Seq(Requests), Send(rs),
           \A i \in 1 .. Len(rs) : rs[i].id = msgId + i,
           UNCHANGED <<readyState, toClient>>
    PROVE  /\ Sending(toServer', msgId') /\ Coming(toClient', msgId')
           /\ msgId' \in Nat /\ msgId' = msgId + Len(rs)
           /\ acted' \in BOOLEAN
           /\ readyState' # "open" => toServer' = <<>> /\ toClient' = <<>>
<1>1. /\ msgId \in Nat /\ Len(rs) \in Nat /\ msgId' = msgId + Len(rs)
      /\ Sending(toServer, msgId) /\ Coming(toClient, msgId)
    BY DEF TypeInv, Send
<1>2. Sending(toServer', msgId')
  <2>1. CASE readyState = "open"
      BY <2>1, <1>1, SendingFacts DEF Send, Sent
  <2>2. CASE readyState # "open"
      BY <2>2, <1>1, SendingFacts DEF Send, Sent
  <2> QED
      BY <2>1, <2>2
<1>3. Coming(toClient', msgId')
    BY <1>1, ComingFacts
<1>4. acted' \in BOOLEAN
    BY DEF Send, TypeInv
<1>5. readyState' # "open" => toServer' = <<>> /\ toClient' = <<>>
    BY DEF Send, Sent, TypeInv
<1> QED
    BY <1>1, <1>2, <1>3, <1>4, <1>5

\* One request.
LEMMA SendOneType ==
    ASSUME TypeInv, NEW r \in Requests, r.id = msgId + 1, Send(<<r>>),
           UNCHANGED <<readyState, toClient>>
    PROVE  /\ Sending(toServer', msgId') /\ Coming(toClient', msgId')
           /\ msgId' \in Nat /\ msgId' = msgId + 1
           /\ acted' \in BOOLEAN
           /\ readyState' # "open" => toServer' = <<>> /\ toClient' = <<>>
<1>1. <<r>> \in Seq(Requests) /\ Len(<<r>>) = 1 /\ \A i \in 1 .. 1 : <<r>>[i] = r
    OBVIOUS
<1>2. \A i \in 1 .. Len(<<r>>) : <<r>>[i].id = msgId + i
    BY <1>1
<1> DEFINE rs == <<r>>
<1>3. /\ rs \in Seq(Requests) /\ Len(rs) = 1 /\ Send(rs)
      /\ \A i \in 1 .. Len(rs) : rs[i].id = msgId + i
    BY <1>1, <1>2
<1> HIDE DEF rs
<1> QED
    BY <1>3, SendType

\* Requests that are sent.
LEMMA RequestType ==
    ASSUME NEW id \in Nat
    PROVE  /\ Request(id, "status", None, None) \in Requests
           /\ \A c \in Clients, v \in Configs : Request(id, "config", c, v) \in Requests
           /\ \A g \in Groups, v \in Values : Request(id, "setting", g, v) \in Requests
           /\ \A g \in Groups, cs \in SUBSET Clients : Request(id, "clients", g, cs) \in Requests
           /\ \A c \in Clients : Request(id, "delete", c, None) \in Requests
           /\ \A method, t, v : /\ Request(id, method, t, v).id = id
                                /\ Request(id, method, t, v).method = method
                                /\ Request(id, method, t, v).target = t
                                /\ Request(id, method, t, v).value = v
BY DEF Request, Requests

----------------------------------------------------------------------------
(* ... of the connection                                                   *)

\* Opening, losing and closing the connection keep the types.
LEMMA TypeConnection ==
    ASSUME TypeInv, Opened \/ Lose \/ Closed \/ Connect
    PROVE  TypeInv'
<1>1. Sending(<<>>, msgId) /\ Coming(<<>>, msgId)
    BY DEF Sending, Coming
<1>2. CASE Opened
  <2> DEFINE r == Request(msgId + 1, "status", None, None)
  <2>1. r \in Requests /\ r.id = msgId + 1
      BY <1>2, RequestType DEF TypeInv
  <2>2. toServer' = <<r>> /\ msgId' = msgId + 1 /\ statusReq' = msgId + 1
      BY <1>2 DEF Opened, Awaited
  <2> HIDE DEF r
  <2>3. Sending(toServer', msgId')
      BY <2>1, <2>2 DEF Sending, TypeInv
  <2>4. Coming(toClient', msgId')
    <3>1. Coming(toClient, msgId + 1)
        BY ComingFacts DEF TypeInv
    <3> QED
        BY <1>2, <2>2, <3>1 DEF Opened, Coming
  <2>5. msgId' \in Nat /\ statusReq' \in -1 .. msgId'
      BY <2>2 DEF TypeInv
  <2>6. /\ UNCHANGED <<server, view, toClient, entered, suspect>>
        /\ readyState' = "open" /\ acted' = FALSE /\ loaded' = FALSE
      BY <1>2 DEF Opened
  <2> QED
      BY <2>3, <2>4, <2>5, <2>6 DEF TypeInv
<1>3. CASE Lose
    BY <1>1, <1>3 DEF Lose, Lost, TypeInv, history
<1>4. CASE Closed
    BY <1>4 DEF Closed, TypeInv, history
<1>5. CASE Connect
    BY <1>5 DEF Connect, TypeInv, history
<1> QED
    BY <1>2, <1>3, <1>4, <1>5

----------------------------------------------------------------------------
(* ... of what the user does                                               *)

\* A value as it is called in a request.
LEMMA ValuesAreConfigs == Values \subseteq Configs /\ NaN \in Configs
BY DEF Configs

\* Volumes of a group: what each of its clients gets, and is said to get.
GroupVolumes(cs, vol, done) ==
    /\ cs \in Seq(Clients) /\ vol \in [Clients -> Configs] /\ done \subseteq DOMAIN cs
    /\ \A i, j \in DOMAIN cs : cs[i] = cs[j] => i = j
    /\ readyState # "connecting" => done = DOMAIN cs
    /\ view' \in States /\ view'.setting = view.setting /\ view'.member = view.member
    /\ view'.config =
          [c \in Clients |-> IF \E i \in done : cs[i] = c THEN vol[c] ELSE view.config[c]]
    /\ Send([i \in 1 .. Len(cs) |-> Request(msgId + i, "config", cs[i], vol[cs[i]])])
    /\ suspect' = (suspect \ {<<"config", c>> : c \in Range(cs)})
                     \union {<<"config", c>> : c \in {x \in Range(cs) : vol[x] = NaN}}

\* setGroupVolume() sets the volumes of the group's clients.
LEMMA GroupVolumeFacts ==
    ASSUME TypeInv, NEW g \in Groups,
           NEW percent \in Values \union (IF entered = None THEN {} ELSE {entered.volume}),
           SetGroupVolume(g, percent)
    PROVE  \E cs, vol, done : GroupVolumes(cs, vol, done)
<1> DEFINE cs == Members(view, g)
           Index(c) == CHOOSE i \in DOMAIN cs : cs[i] = c
           New(c) == NewVolume(percent, Index(c))
           done == IF readyState = "connecting" THEN {1} ELSE DOMAIN cs
           Reached(c) == \E i \in done : cs[i] = c
           vol == [c \in Clients |-> IF c \in Range(cs) THEN New(c) ELSE 0]
           config == [c \in Clients |-> IF Reached(c) THEN vol[c] ELSE view.config[c]]
<1>1. /\ cs \in Seq(Clients) /\ \A i, j \in DOMAIN cs : cs[i] = cs[j] => i = j
    BY MembersFacts DEF TypeInv
<1>2. Len(cs) > 1 /\ entered # None
    BY DEF SetGroupVolume
<1>3. /\ view' = [view EXCEPT !.config = [c \in Clients |-> IF Reached(c) THEN New(c) ELSE @[c]]]
      /\ Send([i \in DOMAIN cs |-> Request(msgId + i, "config", cs[i], New(cs[i]))])
      /\ suspect' =
            (suspect \ {<<"config", c>> : c \in Range(cs)})
                \union {<<"config", c>> : c \in {x \in Range(cs) : New(x) = NaN}}
    BY DEF SetGroupVolume
<1> HIDE DEF cs
<1>4. \A c \in Range(cs) : c \in Clients /\ Index(c) \in DOMAIN cs
    BY <1>1 DEF Range
<1>5. DOMAIN cs = 1 .. Len(cs) /\ Len(cs) \in Nat /\ done \subseteq DOMAIN cs
    BY <1>1, <1>2
<1>6. \A i \in DOMAIN cs : cs[i] \in Range(cs)
    BY DEF Range
<1> HIDE DEF Index
<1>7. ASSUME NEW c \in Range(cs)
      PROVE  New(c) \in Configs
  <2> DEFINE i == Index(c)
             old == IF i <= Len(entered.volumes) THEN entered.volumes[i] ELSE NaN
  <2>1. i \in Nat /\ i >= 1
      BY <1>4, <1>5
  <2>2. entered.volumes \in Seq(Configs)
      BY <1>2 DEF TypeInv
  <2> HIDE DEF i
  <2>3. old \in Configs
      BY <2>1, <2>2, ValuesAreConfigs
  <2>4. percent # entered.volume => percent \in Configs
      BY <1>2, ValuesAreConfigs
  <2>5. New(c) = IF percent # entered.volume
                 THEN IF old = NaN THEN NaN ELSE percent
                 ELSE IF percent = 100 THEN NaN ELSE old
      BY DEF NewVolume, i
  <2> HIDE DEF old, New
  <2> QED
      BY <2>3, <2>4, <2>5, ValuesAreConfigs
<1> HIDE DEF New
<1>8. vol \in [Clients -> Configs]
    BY <1>7, ValuesAreConfigs DEF Values
<1>9. \A c \in Range(cs) : vol[c] = New(c)
    BY <1>4
<1>10. \A c \in Clients : Reached(c) => c \in Range(cs)
    BY <1>5, <1>6
<1>11. [c \in Clients |-> IF Reached(c) THEN New(c) ELSE view.config[c]] = config
    BY <1>9, <1>10
<1>12. view.config \in [Clients -> Configs] /\ view \in States
    BY DEF TypeInv, States, Configs
<1> HIDE DEF vol, Reached
<1>13. config \in [Clients -> Configs]
    BY <1>8, <1>12
<1>14. view' = [view EXCEPT !.config = config]
    BY <1>3, <1>11, <1>12 DEF States
<1> DEFINE cfg == config
<1> HIDE DEF cfg
<1>15. view' = [view EXCEPT !.config = cfg] /\ cfg \in [Clients -> Configs]
    BY <1>13, <1>14 DEF cfg
<1>16. /\ view' \in States /\ view'.setting = view.setting /\ view'.member = view.member
       /\ view'.config = cfg
    BY <1>12, <1>15 DEF States, Configs
<1>17. [i \in DOMAIN cs |-> Request(msgId + i, "config", cs[i], New(cs[i]))]
         = [i \in 1 .. Len(cs) |-> Request(msgId + i, "config", cs[i], vol[cs[i]])]
    BY <1>5, <1>6, <1>9
<1>18. {x \in Range(cs) : New(x) = NaN} = {x \in Range(cs) : vol[x] = NaN}
    BY <1>9
<1>19. readyState # "connecting" => done = DOMAIN cs
    OBVIOUS
<1>20. cfg = [c \in Clients |-> IF \E i \in done : cs[i] = c THEN vol[c] ELSE view.config[c]]
    BY DEF cfg, Reached
<1> HIDE DEF done, config
<1> QED
  <2>1. GroupVolumes(cs, vol, done)
      BY <1>1, <1>3, <1>5, <1>8, <1>16, <1>17, <1>18, <1>19, <1>20, Zenon DEF GroupVolumes
  <2> QED
      BY <2>1

\* What the user does keeps the types.
LEMMA TypeUser ==
    ASSUME TypeInv, User
    PROVE  TypeInv'
<1>1. ASSUME NEW c \in Clients, NEW v \in Values, SetVolume(c, v)
      PROVE  TypeInv'
  <2> DEFINE r == Request(msgId + 1, "config", c, v)
  <2>1. r \in Requests /\ r.id = msgId + 1
    <3>1. msgId + 1 \in Nat /\ v \in Configs
        BY ValuesAreConfigs DEF TypeInv
    <3> QED
        BY <3>1 DEF Request, Requests
  <2>2. Send(<<r>>) /\ UNCHANGED <<readyState, toClient>>
      BY <1>1 DEF SetVolume, Acts
  <2> HIDE DEF r
  <2>3. /\ Sending(toServer', msgId') /\ Coming(toClient', msgId')
        /\ msgId' \in Nat /\ msgId' = msgId + 1
        /\ acted' \in BOOLEAN
        /\ readyState' # "open" => toServer' = <<>> /\ toClient' = <<>>
      BY <2>1, <2>2, SendOneType
  <2>4. view' \in States
      BY <1>1, WithConfigFacts, ValuesAreConfigs DEF SetVolume, TypeInv
  <2>5. statusReq' \in -1 .. msgId'
      BY <1>1, <2>3 DEF SetVolume, TypeInv
  <2> QED
      BY <1>1, <2>3, <2>4, <2>5 DEF SetVolume, Acts, TypeInv
<1>2. ASSUME NEW g \in Groups, NEW v \in Values, SetGroup(g, v)
      PROVE  TypeInv'
  <2> DEFINE r == Request(msgId + 1, "setting", g, v)
  <2>1. r \in Requests /\ r.id = msgId + 1
    <3>1. msgId + 1 \in Nat
        BY DEF TypeInv
    <3> QED
        BY <3>1 DEF Request, Requests
  <2>2. Send(<<r>>) /\ UNCHANGED <<readyState, toClient>>
      BY <1>2 DEF SetGroup, Acts
  <2> HIDE DEF r
  <2>3. /\ Sending(toServer', msgId') /\ Coming(toClient', msgId')
        /\ msgId' \in Nat /\ msgId' = msgId + 1
        /\ acted' \in BOOLEAN
        /\ readyState' # "open" => toServer' = <<>> /\ toClient' = <<>>
      BY <2>1, <2>2, SendOneType
  <2>4. view' \in States
      BY <1>2, WithSettingFacts DEF SetGroup, TypeInv
  <2>5. statusReq' \in -1 .. msgId'
      BY <1>2, <2>3 DEF SetGroup, TypeInv
  <2> QED
      BY <1>2, <2>3, <2>4, <2>5 DEF SetGroup, Acts, TypeInv
<1>3. ASSUME NEW c \in Clients, NEW g \in GroupsOf(view) \union {None}, MoveClient(c, g)
      PROVE  TypeInv'
  <2> DEFINE own == view.member[c]
             target == IF g = None THEN own ELSE g
             cs == IF g = None THEN MembersOf(view, own) \ {c} ELSE MembersOf(view, g) \union {c}
             r == Request(msgId + 1, "clients", target, cs)
  <2>1. own \in Groups
      BY <1>3 DEF MoveClient, Known, States, TypeInv
  <2>2. GroupsOf(view) \subseteq Groups
      BY <2>1, GroupFacts DEF TypeInv
  <2>3. target \in Groups /\ cs \in SUBSET Clients
      BY <2>1, <2>2 DEF MembersOf
  <2>4. r \in Requests /\ r.id = msgId + 1
      BY <2>3, RequestType DEF TypeInv
  <2>5. Send(<<r>>) /\ UNCHANGED <<readyState, toClient>>
      BY <1>3 DEF MoveClient, Acts
  <2> HIDE DEF r
  <2>6. /\ Sending(toServer', msgId') /\ Coming(toClient', msgId')
        /\ msgId' \in Nat /\ msgId' = msgId + 1
        /\ acted' \in BOOLEAN
        /\ readyState' # "open" => toServer' = <<>> /\ toClient' = <<>>
      BY <2>4, <2>5, SendOneType
  <2>7. statusReq' \in -1 .. msgId'
      BY <1>3, <2>6 DEF MoveClient, TypeInv
  <2> QED
      BY <1>3, <2>6, <2>7 DEF MoveClient, Acts, TypeInv
<1>4. ASSUME NEW c \in Clients, DeleteClient(c)
      PROVE  TypeInv'
  <2> DEFINE r == Request(msgId + 1, "delete", c, None)
  <2>1. r \in Requests /\ r.id = msgId + 1
    <3>1. msgId + 1 \in Nat
        BY DEF TypeInv
    <3> QED
        BY <3>1 DEF Request, Requests
  <2>2. Send(<<r>>) /\ UNCHANGED <<readyState, toClient>>
      BY <1>4 DEF DeleteClient, Acts
  <2> HIDE DEF r
  <2>3. /\ Sending(toServer', msgId') /\ Coming(toClient', msgId')
        /\ msgId' \in Nat /\ msgId' = msgId + 1
        /\ acted' \in BOOLEAN
        /\ readyState' # "open" => toServer' = <<>> /\ toClient' = <<>>
      BY <2>1, <2>2, SendOneType
  <2>4. view' \in States
      BY <1>4, WithoutFacts DEF DeleteClient, TypeInv
  <2>5. statusReq' \in -1 .. msgId'
      BY <1>4, <2>3 DEF DeleteClient, TypeInv
  <2> QED
      BY <1>4, <2>3, <2>4, <2>5 DEF DeleteClient, Acts, TypeInv
<1>5. ASSUME NEW g \in Groups, GroupVolumeEnter(g)
      PROVE  TypeInv'
  <2> DEFINE ms == Members(view, g)
             vs == [i \in DOMAIN ms |-> view.config[ms[i]]]
  <2>1. ms \in Seq(Clients) /\ view.config \in [Clients -> Configs]
      BY MembersFacts DEF TypeInv, States, Configs
  <2>2. entered' = [volume |-> Average(vs), volumes |-> vs]
      BY <1>5 DEF GroupVolumeEnter
  <2> HIDE DEF ms
  <2>3. vs \in Seq(Configs)
      BY <2>1
  <2> HIDE DEF vs
  <2>4. entered'.volumes \in Seq(Configs)
      BY <2>2, <2>3
  <2> QED
      BY <1>5, <2>4 DEF GroupVolumeEnter, TypeInv, link, history
<1>6. ASSUME NEW g \in Groups,
             NEW percent \in Values \union (IF entered = None THEN {} ELSE {entered.volume}),
             SetGroupVolume(g, percent)
      PROVE  TypeInv'
  <2>1. PICK cs, vol, done : GroupVolumes(cs, vol, done)
      BY <1>6, GroupVolumeFacts
  <2> DEFINE rs == [i \in 1 .. Len(cs) |-> Request(msgId + i, "config", cs[i], vol[cs[i]])]
  <2>2. /\ cs \in Seq(Clients) /\ vol \in [Clients -> Configs] /\ view' \in States
        /\ Send(rs)
      BY <2>1 DEF GroupVolumes
  <2>3. msgId \in Nat
      BY DEF TypeInv
  <2>4. Len(cs) \in Nat /\ \A i \in 1 .. Len(cs) : cs[i] \in Clients
      BY <2>2
  <2>5. \A i \in 1 .. Len(cs) : rs[i] \in Requests /\ rs[i].id = msgId + i
      BY <2>2, <2>3, <2>4, RequestType
  <2>6. DOMAIN rs = 1 .. Len(cs)
      OBVIOUS
  <2>7. rs \in [1 .. Len(cs) -> Requests]
      BY <2>5
  <2> HIDE DEF rs
  <2>8. rs \in Seq(Requests) /\ Len(rs) = Len(cs)
      BY <2>4, <2>7
  <2>9. UNCHANGED <<readyState, toClient>>
      BY <1>6 DEF SetGroupVolume, Acts
  <2>10. \A i \in 1 .. Len(rs) : rs[i].id = msgId + i
      BY <2>5, <2>8
  <2>11. /\ Sending(toServer', msgId') /\ Coming(toClient', msgId')
         /\ msgId' \in Nat /\ msgId' = msgId + Len(rs)
         /\ acted' \in BOOLEAN
         /\ readyState' # "open" => toServer' = <<>> /\ toClient' = <<>>
      BY <2>2, <2>8, <2>9, <2>10, SendType
  <2>12. suspect' \subseteq Fields
    <3>1. \A c \in Range(cs) : <<"config", c>> \in Fields
      <4>1. Range(cs) \subseteq Clients
          BY <2>2 DEF Range
      <4> QED
          BY <4>1, FieldFacts
    <3> QED
        BY <2>1, <3>1 DEF GroupVolumes, TypeInv
  <2>13. statusReq' \in -1 .. msgId'
      BY <1>6, <2>3, <2>4, <2>8, <2>11 DEF SetGroupVolume, TypeInv
  <2>14. UNCHANGED <<server, entered, loaded>>
      BY <1>6 DEF SetGroupVolume, Acts
  <2> QED
      BY <2>2, <2>9, <2>11, <2>12, <2>13, <2>14 DEF TypeInv
<1> QED
    BY <1>1, <1>2, <1>3, <1>4, <1>5, <1>6 DEF User

----------------------------------------------------------------------------
(* ... of the server and other pages                                       *)

\* A notification has its actions.
LEMMA NotificationFacts ==
    ASSUME NEW bs \in Seq(Changes)
    PROVE  /\ Notification(bs) \in Messages /\ IsNote(Notification(bs))
           /\ Notification(bs).actions = bs
BY DEF Notification, Messages, Notifications, IsNote

\* A client can always join a group: nobody leaves it.
LEMMA JoinFacts ==
    ASSUME NEW s, NEW g, NEW cs, MembersOf(s, g) \subseteq cs
    PROVE  NewGroups(s, g, cs) # {}
<1> DEFINE T == {h \in Groups : s.setting[h] = None}
<1>1. MembersOf(s, g) \ cs = {}
    OBVIOUS
<1>2. [x \in {} |-> x] \in [{} -> T]
    OBVIOUS
<1>3. [x \in {} |-> x] \in Injection({}, T)
    BY <1>2 DEF Injection, IsInjective
<1> QED
    BY <1>1, <1>3 DEF NewGroups

\* Other pages keep the types, whatever they do.
LEMMA NotifiedType ==
    ASSUME TypeInv, NEW s \in States, NEW bs \in Seq(Changes), IsBatch(bs), Notified(s, bs)
    PROVE  TypeInv'
<1> DEFINE m == Notification(bs)
<1>1. m \in Messages /\ IsNote(m) /\ IsBatch(m.actions)
    BY NotificationFacts
<1> HIDE DEF m
<1>2. /\ server' = s
      /\ toClient' = IF readyState = "open" THEN Append(toClient, m) ELSE toClient
      /\ UNCHANGED <<view, readyState, toServer, msgId, statusReq, entered, acted, loaded, suspect>>
    BY DEF Notified, history, m
<1>3. Coming(Append(toClient, m), msgId)
    BY <1>1, ComingFacts DEF TypeInv
<1>4. Coming(toClient', msgId')
    BY <1>2, <1>3 DEF TypeInv
<1>5. Sending(toServer', msgId')
    BY <1>2 DEF TypeInv
<1> QED
    BY <1>2, <1>4, <1>5 DEF TypeInv

\* What is said of the server is a change.
LEMMA ChangeType ==
           /\ \A c \in Clients, v \in Values : Change("config", c, v) \in Changes
           /\ \A g \in Groups, v \in Values : Change("setting", g, v) \in Changes
           /\ \A s \in States : Change("update", None, s) \in Changes
           /\ \A what, t, v : /\ Change(what, t, v).what = what
                              /\ Change(what, t, v).target = t
                              /\ Change(what, t, v).value = v
BY DEF Change, Changes

\* Batches of one change, and of the same change twice.
LEMMA BatchFacts ==
    ASSUME NEW a \in Changes, NEW b \in Changes
    PROVE  /\ <<a>> \in Seq(Changes) /\ IsBatch(<<a>>)
           /\ <<a, b>> \in Seq(Changes)
           /\ a.what = "config" /\ b.what = "config" /\ a.value = b.value => IsBatch(<<a, b>>)
BY DEF IsBatch

\* A client that joins a group makes a state from a state.
LEMMA JoinedType ==
    ASSUME TypeInv, NEW c \in Clients, NEW g \in GroupsOf(server)
    PROVE  /\ g \in Groups
           /\ NewGroups(server, g, MembersOf(server, g) \union {c}) # {}
           /\ Regrouped(server, g, MembersOf(server, g) \union {c}) \in States
<1>1. g \in Groups
    BY DEF TypeInv, GroupsOf, States
<1>2. NewGroups(server, g, MembersOf(server, g) \union {c}) # {}
    BY JoinFacts
<1>3. server \in States
    BY DEF TypeInv
<1> QED
    BY <1>1, <1>2, <1>3, RegroupedFacts

\* What other pages do: the server has another state, and says what changed.
LEMMA OthersCases ==
    ASSUME TypeInv, Others
    PROVE  \/ \E c \in Clients, v \in Values :
                 /\ Known(server, c)
                 /\ Notified(WithConfig(server, c, v), <<Change("config", c, v)>>)
           \/ \E c, d \in Clients, v \in Values :
                 /\ c # d /\ Known(server, c) /\ Known(server, d)
                 /\ Notified(WithConfig(WithConfig(server, c, v), d, v),
                             <<Change("config", c, v), Change("config", d, v)>>)
           \/ \E g \in Groups, v \in Values :
                 /\ g \in GroupsOf(server)
                 /\ Notified(WithSetting(server, g, v), <<Change("setting", g, v)>>)
           \/ \E c \in Clients :
                 Notified(Without(server, c), <<Change("update", None, Without(server, c))>>)
           \/ \E c \in Clients, g \in GroupsOf(server) :
                 LET s == Regrouped(server, g, MembersOf(server, g) \union {c})
                 IN  Known(server, c) /\ Notified(s, <<Change("update", None, s)>>)
BY DEF Others, OtherSetsClient, OtherSetsBoth, OtherSetsGroup, OtherRegroups

\* A notification leads from one state to the next: the page that has the one
\* can place all of it, and then has the other.
Leads(s, m, t) ==
    /\ IsNote(m)
    /\ \A i \in DOMAIN m.actions : ~Unknown(s, m.actions[i])
    /\ \/ Len(m.actions) = 1 /\ t = Did(s, m.actions[1])
       \/ Len(m.actions) = 2 /\ t = Did(Did(s, m.actions[1]), m.actions[2])

\* A notification of one change, or of the same one for two clients, that the
\* server can place.
LEMMA LeadsOne ==
    ASSUME NEW s, NEW a \in Changes, ~Unknown(s, a)
    PROVE  Leads(s, Notification(<<a>>), Did(s, a))
<1>1. <<a>> \in Seq(Changes) /\ Len(<<a>>) = 1 /\ \A i \in DOMAIN <<a>> : <<a>>[i] = a
    OBVIOUS
<1>2. <<a>>[1] = a
    OBVIOUS
<1> QED
    BY <1>1, <1>2, NotificationFacts DEF Leads

\* The same for two changes.
LEMMA LeadsTwo ==
    ASSUME NEW s, NEW a \in Changes, NEW b \in Changes, ~Unknown(s, a), ~Unknown(s, b)
    PROVE  Leads(s, Notification(<<a, b>>), Did(Did(s, a), b))
<1>1. /\ <<a, b>> \in Seq(Changes) /\ Len(<<a, b>>) = 2
      /\ \A i \in DOMAIN <<a, b>> : <<a, b>>[i] = a \/ <<a, b>>[i] = b
    OBVIOUS
<1>2. <<a, b>>[1] = a /\ <<a, b>>[2] = b
    OBVIOUS
<1> QED
    BY <1>1, <1>2, NotificationFacts DEF Leads

\* The server has another state, and says what changed.
Announces(s, bs) ==
    /\ Notified(s, bs) /\ IsBatch(bs) /\ Leads(server, Notification(bs), s)
    /\ Follows(server, s)
    /\ \A k \in DOMAIN bs :
          /\ bs[k].what = "update" => bs[k].value = s
          /\ bs[k].what = "setting" => s.setting[bs[k].target] # None

\* One change is announced.
LEMMA AnnouncesOne ==
    ASSUME NEW s, NEW a \in Changes, Notified(s, <<a>>), Follows(server, s),
           ~Unknown(server, a), Did(server, a) = s,
           a.what = "setting" => s.setting[a.target] # None
    PROVE  Announces(s, <<a>>)
<1>1. \A k \in DOMAIN <<a>> : <<a>>[k] = a
    OBVIOUS
<1>2. a.what = "update" => a.value = s
    BY DidFacts
<1>3. IsBatch(<<a>>) /\ Leads(server, Notification(<<a>>), s)
    BY BatchFacts, LeadsOne
<1> DEFINE bs == <<a>>
<1> HIDE DEF bs
<1>4. /\ \A k \in DOMAIN bs : bs[k] = a
      /\ IsBatch(bs) /\ Leads(server, Notification(bs), s) /\ Notified(s, bs)
    BY <1>1, <1>3 DEF bs
<1>5. Announces(s, bs)
    BY <1>2, <1>4 DEF Announces
<1> QED
    BY <1>5 DEF bs

\* Whatever another page does, the server announces it.
LEMMA OthersFacts ==
    ASSUME TypeInv, Others
    PROVE  \E s \in States, bs \in Seq(Changes) : Announces(s, bs)
<1>0. server \in States
    BY DEF TypeInv
<1>1. ASSUME NEW c \in Clients, NEW v \in Values, Known(server, c),
             Notified(WithConfig(server, c, v), <<Change("config", c, v)>>)
      PROVE  \E s \in States, bs \in Seq(Changes) : Announces(s, bs)
  <2> DEFINE s == WithConfig(server, c, v)
             a == Change("config", c, v)
  <2>1. s \in States /\ a \in Changes /\ Notified(s, <<a>>)
      BY <1>0, <1>1, WithConfigFacts, ChangeType, ValuesAreConfigs
  <2>2. a.what = "config" /\ a.target = c /\ a.value = v
      BY ChangeType
  <2> HIDE DEF a
  <2>3. ~Unknown(server, a) /\ Did(server, a) = s
      BY <1>1, <2>1, <2>2, UnknownFacts, DidFacts
  <2>4. s.setting = server.setting /\ s.member = server.member
      BY <1>0, WithConfigFacts, ValuesAreConfigs
  <2> HIDE DEF s
  <2>5. Follows(server, s)
      BY <1>0, <2>1, <2>4, ConfigFollows
  <2>6. Announces(s, <<a>>)
      BY <2>1, <2>2, <2>3, <2>5, AnnouncesOne
  <2> QED
      BY <2>1, <2>6, BatchFacts
<1>2. ASSUME NEW c \in Clients, NEW d \in Clients, NEW v \in Values,
             Known(server, c), Known(server, d),
             Notified(WithConfig(WithConfig(server, c, v), d, v),
                      <<Change("config", c, v), Change("config", d, v)>>)
      PROVE  \E s \in States, bs \in Seq(Changes) : Announces(s, bs)
  <2> DEFINE t == WithConfig(server, c, v)
             s == WithConfig(t, d, v)
             a == Change("config", c, v)
             b == Change("config", d, v)
  <2>1. t \in States /\ a \in Changes /\ b \in Changes /\ Notified(s, <<a, b>>)
      BY <1>0, <1>2, WithConfigFacts, ChangeType, ValuesAreConfigs
  <2>2. /\ a.what = "config" /\ a.target = c /\ a.value = v
        /\ b.what = "config" /\ b.target = d /\ b.value = v
      BY ChangeType
  <2> HIDE DEF a, b
  <2>3. ~Unknown(server, a) /\ ~Unknown(server, b) /\ Did(server, a) = t
      BY <1>2, <2>1, <2>2, UnknownFacts, DidFacts
  <2> HIDE DEF t
  <2>4. s \in States
      BY <2>1, WithConfigFacts, ValuesAreConfigs
  <2>5. Did(t, b) = s
      BY <2>1, <2>2, DidFacts
  <2>6. t.setting = server.setting /\ t.member = server.member
      BY <1>0, WithConfigFacts, ValuesAreConfigs DEF t
  <2>7. s.setting = server.setting /\ s.member = server.member
    <3>1. v \in Configs
        BY ValuesAreConfigs
    <3>2. s.setting = t.setting /\ s.member = t.member
        BY <2>1, <3>1, WithConfigFacts
    <3> QED
        BY <2>6, <3>2
  <2> HIDE DEF s
  <2>8. Follows(server, s)
      BY <1>0, <2>4, <2>7, ConfigFollows
  <2>9. \A k \in DOMAIN <<a, b>> : <<a, b>>[k] = a \/ <<a, b>>[k] = b
      OBVIOUS
  <2>10. /\ <<a, b>> \in Seq(Changes) /\ IsBatch(<<a, b>>)
         /\ Leads(server, Notification(<<a, b>>), s)
      BY <2>1, <2>2, <2>3, <2>5, BatchFacts, LeadsTwo
  <2> DEFINE bs == <<a, b>>
  <2> HIDE DEF bs
  <2>11. /\ bs \in Seq(Changes) /\ IsBatch(bs) /\ Leads(server, Notification(bs), s)
         /\ Notified(s, bs) /\ \A k \in DOMAIN bs : bs[k] = a \/ bs[k] = b
      BY <2>1, <2>9, <2>10 DEF bs
  <2>12. Announces(s, bs)
      BY <2>2, <2>8, <2>11 DEF Announces
  <2> QED
      BY <2>4, <2>11, <2>12
<1>3. ASSUME NEW g \in Groups, NEW v \in Values, g \in GroupsOf(server),
             Notified(WithSetting(server, g, v), <<Change("setting", g, v)>>)
      PROVE  \E s \in States, bs \in Seq(Changes) : Announces(s, bs)
  <2> DEFINE s == WithSetting(server, g, v)
             a == Change("setting", g, v)
  <2>1. s \in States /\ a \in Changes /\ Notified(s, <<a>>)
      BY <1>0, <1>3, WithSettingFacts, ChangeType
  <2>2. a.what = "setting" /\ a.target = g /\ a.value = v
      BY ChangeType
  <2> HIDE DEF a
  <2>3. ~Unknown(server, a) /\ Did(server, a) = s
      BY <1>3, <2>1, <2>2, UnknownFacts, DidFacts
  <2>4. Follows(server, s) /\ s.setting[g] # None
    <3>1. server.setting \in [Groups -> Values \union {None}]
        BY <1>0 DEF States
    <3>2. s.setting = [server.setting EXCEPT ![g] = v]
        BY <1>0, WithSettingFacts
    <3>3. s.setting[g] = v
        BY <3>1, <3>2
    <3> QED
        BY <1>0, <3>3, SettingFollows, ControlAssumption
  <2> HIDE DEF s
  <2>5. Announces(s, <<a>>)
      BY <2>1, <2>2, <2>3, <2>4, AnnouncesOne
  <2> QED
      BY <2>1, <2>5, BatchFacts
<1>4. ASSUME NEW s \in States, Follows(server, s), Notified(s, <<Change("update", None, s)>>)
      PROVE  \E t \in States, bs \in Seq(Changes) : Announces(t, bs)
  <2> DEFINE a == Change("update", None, s)
  <2>1. a \in Changes /\ Notified(s, <<a>>) /\ a.what = "update" /\ a.value = s
      BY <1>4, ChangeType
  <2> HIDE DEF a
  <2>2. ~Unknown(server, a) /\ Did(server, a) = s
      BY <2>1, UnknownFacts, DidFacts
  <2>3. Announces(s, <<a>>)
      BY <1>4, <2>1, <2>2, AnnouncesOne
  <2> QED
      BY <2>1, <2>3, BatchFacts
<1>5. ASSUME NEW c \in Clients,
             Notified(Without(server, c), <<Change("update", None, Without(server, c))>>)
      PROVE  \E t \in States, bs \in Seq(Changes) : Announces(t, bs)
  <2>1. Without(server, c) \in States /\ Follows(server, Without(server, c))
      BY <1>0, WithoutFacts, WithoutFollows
  <2> QED
      BY <2>1, <1>4, <1>5
<1>6. ASSUME NEW c \in Clients, NEW g \in GroupsOf(server),
             LET s == Regrouped(server, g, MembersOf(server, g) \union {c})
             IN  Known(server, c) /\ Notified(s, <<Change("update", None, s)>>)
      PROVE  \E t \in States, bs \in Seq(Changes) : Announces(t, bs)
  <2> DEFINE s == Regrouped(server, g, MembersOf(server, g) \union {c})
  <2>1. s \in States /\ Follows(server, s) /\ Notified(s, <<Change("update", None, s)>>)
      BY <1>0, <1>6, JoinedType, RegroupedFollows
  <2> HIDE DEF s
  <2> QED
      BY <2>1, <1>4
<1> QED
    BY <1>1, <1>2, <1>3, <1>5, <1>6, OthersCases

\* What other pages do keeps the types.
LEMMA TypeOthers ==
    ASSUME TypeInv, Others
    PROVE  TypeInv'
<1>1. PICK s \in States, bs \in Seq(Changes) : Announces(s, bs)
    BY OthersFacts
<1> QED
    BY <1>1, NotifiedType DEF Announces

\* Handling a request keeps the types.
LEMMA TypeServer ==
    ASSUME TypeInv, ServerHandles
    PROVE  TypeInv'
<1> DEFINE r == Head(toServer)
           m == Answer(server, r)
<1>1. /\ toServer # <<>> /\ readyState = "open"
      /\ r.method = "clients" /\ ~Refused(server, r) => IdsLeft(server, r.target, r.value)
      /\ server' = Applied(server, r) /\ toServer' = Tail(toServer)
      /\ toClient' = Append(toClient, m)
      /\ UNCHANGED <<view, readyState, msgId, statusReq, entered, acted, loaded, suspect>>
    BY DEF ServerHandles, history
<1>2. server \in States /\ msgId \in Nat /\ Sending(toServer, msgId) /\ Coming(toClient, msgId)
    BY DEF TypeInv
<1> HIDE DEF r
<1>3. r \in Requests /\ r.id \in 1 .. msgId /\ Sending(Tail(toServer), msgId)
    BY <1>1, <1>2, SendingFacts DEF r
<1>4. Applied(server, r) \in States
    BY <1>1, <1>2, <1>3, AppliedType
<1>5. m \in Answers /\ ~IsNote(m) /\ m.id = r.id
    BY <1>1, <1>2, <1>3, AnswerFacts
<1> HIDE DEF m
<1>6. m \in Messages
    BY <1>5 DEF Messages
<1>7. Coming(Append(toClient, m), msgId)
    BY <1>2, <1>3, <1>5, <1>6, ComingFacts
<1>8. server' \in States /\ Sending(toServer', msgId') /\ Coming(toClient', msgId')
    BY <1>1, <1>3, <1>4, <1>7
<1> QED
    BY <1>1, <1>8 DEF TypeInv

----------------------------------------------------------------------------
(* ... of messages                                                         *)

\* What is asked for are fields.
LEMMA OutstandingFields ==
    ASSUME NEW ts \in Seq(Requests), NEW ms \in Seq(Messages)
    PROVE  Asked(ts) \subseteq Fields /\ Asked(ms) \subseteq Fields
<1>1. ASSUME NEW f \in Asked(ts)
      PROVE  f \in Fields
  <2>1. PICK i \in DOMAIN ts : Asks(ts[i], f)
      BY AskedFacts
  <2>2. ts[i] \in Requests
      OBVIOUS
  <2> QED
      BY <2>1, <2>2, RequestField
<1>2. ASSUME NEW f \in Asked(ms)
      PROVE  f \in Fields
  <2>1. PICK i \in DOMAIN ms : Asks(ms[i], f)
      BY AskedFacts
  <2>2. ms[i] \in Messages
      OBVIOUS
  <2> QED
      BY <2>1, <2>2, AnswerField
<1> QED
    BY <1>1, <1>2

\* How much of a notification the page does.
LEMMA NotifyFacts ==
    ASSUME TypeInv, Notify
    PROVE  LET bs == Message.actions
               done == Done(bs)
           IN  /\ bs \in Seq(Changes) /\ IsBatch(bs) /\ Len(bs) >= 1 /\ bs[1] \in Changes
               /\ Len(bs) = 2 => bs[2] \in Changes
               /\ done \in Seq(Changes)
               /\ \/ done = <<>> /\ Unknown(view, bs[1]) /\ view' = view
                  \/ /\ done = <<bs[1]>> /\ ~Unknown(view, bs[1])
                     /\ Len(bs) = 2 => Unknown(view, bs[2])
                     /\ view' = Did(view, bs[1])
                  \/ /\ done = bs /\ Len(bs) = 2
                     /\ ~Unknown(view, bs[1]) /\ ~Unknown(view, bs[2])
                     /\ view' = Did(Did(view, bs[1]), bs[2])
<1> DEFINE bs == Message.actions
           done == Done(bs)
<1>1. Message.method = "notify" /\ toClient # <<>> /\ view' = AllDone(view, done)
    BY DEF Notify, Receives, AllDone
<1>2. Message \in Messages /\ IsNote(Message) /\ IsBatch(bs)
    BY <1>1, ComingFacts DEF TypeInv, Message, IsNote
<1>3. bs \in Seq(Changes)
    BY <1>2, MessageFacts
<1> HIDE DEF bs
<1>4. DOMAIN bs = 1 .. Len(bs) /\ Len(bs) \in Nat /\ (Len(bs) = 1 \/ Len(bs) = 2)
    BY <1>2, <1>3 DEF IsBatch
<1>5. Len(bs) >= 1 /\ bs[1] \in Changes /\ (Len(bs) = 2 => bs[2] \in Changes)
  <2> DEFINE l == Len(bs)
  <2>1. l = 1 \/ l = 2
      BY <1>4, Zenon
  <2>2. l >= 1
    <3> HIDE DEF l
    <3> QED
        BY <2>1
  <2>3. \A i \in 1 .. l : bs[i] \in Changes
      BY <1>3
  <2> HIDE DEF l
  <2>4. bs[1] \in Changes /\ (l = 2 => bs[2] \in Changes)
      BY <2>1, <2>3
  <2> QED
      BY <2>2, <2>4 DEF l
<1> DEFINE R == AllDone(view, done)
<1>6. CASE done = <<>> /\ Unknown(view, bs[1])
  <2>1. R = view
      BY <1>6, FoldFacts
  <2> HIDE DEF R
  <2> QED
      BY <1>6, <1>1, <1>2, <1>3, <1>5, <2>1 DEF R, bs
<1>7. CASE /\ done = <<bs[1]>> /\ ~Unknown(view, bs[1])
           /\ Len(bs) = 2 => Unknown(view, bs[2])
  <2>1. R = Did(view, bs[1])
      BY <1>7, FoldFacts
  <2>2. done \in Seq(Changes)
      BY <1>7, <1>5
  <2> HIDE DEF R
  <2> QED
      BY <1>7, <1>1, <1>2, <1>3, <1>5, <2>1, <2>2 DEF R, bs
<1>8. CASE done = bs /\ Len(bs) = 2 /\ ~Unknown(view, bs[1]) /\ ~Unknown(view, bs[2])
  <2>1. R = Did(Did(view, bs[1]), bs[2])
      BY <1>8, <1>4, FoldFacts
  <2> HIDE DEF R
  <2> QED
      BY <1>8, <1>1, <1>2, <1>3, <1>5, <2>1 DEF R, bs
<1> HIDE DEF done, R
<1> QED
  <2>1. \/ done = <<>> /\ Unknown(view, bs[1])
        \/ /\ done = <<bs[1]>> /\ ~Unknown(view, bs[1])
           /\ Len(bs) = 2 => Unknown(view, bs[2])
        \/ done = bs /\ Len(bs) = 2 /\ ~Unknown(view, bs[1]) /\ ~Unknown(view, bs[2])
      BY <1>2, <1>3, DoneFacts DEF done
  <2> QED
      BY <2>1, <1>6, <1>7, <1>8

\* An answer, or a notification.
LEMMA TypeMessage ==
    ASSUME TypeInv, OnMessage
    PROVE  TypeInv'
<1>1. Receives
    BY DEF OnMessage, AdoptStatus, IgnoreAnswer, Notify
<1>2. /\ toClient # <<>> /\ toClient' = Tail(toClient) /\ readyState = "open"
      /\ UNCHANGED <<server, readyState, toServer, msgId, statusReq, entered, acted>>
    BY <1>1 DEF Receives
<1>3. Message \in Messages /\ Coming(Tail(toClient), msgId)
    BY <1>2, ComingFacts DEF TypeInv, Message
<1>4. Outstanding(Tail(toClient)) \subseteq Fields
    BY <1>3, OutstandingFields DEF Outstanding, TypeInv, Sending, Coming
<1>5. Sending(toServer', msgId') /\ Coming(toClient', msgId')
    BY <1>2, <1>3 DEF TypeInv
<1>6. CASE AdoptStatus
  <2>1. ~IsNote(Message)
      BY <1>6 DEF AdoptStatus, IsStatus, IsNote
  <2>2. Message.result # None => Message.result \in States
      BY <1>3, <2>1, MessageFacts
  <2>3. view' \in States /\ suspect' \subseteq Fields /\ loaded' \in BOOLEAN
      BY <1>6, <1>4, <2>2 DEF AdoptStatus, TypeInv
  <2> QED
      BY <1>2, <1>5, <2>3 DEF TypeInv
<1>7. CASE IgnoreAnswer
  <2>1. view' = view /\ suspect' \subseteq Fields /\ loaded' = loaded
      BY <1>7, FieldFacts DEF IgnoreAnswer, TypeInv
  <2> QED
      BY <1>2, <1>5, <2>1 DEF TypeInv
<1>8. CASE Notify
  <2> DEFINE bs == Message.actions
             done == Done(bs)
  <2>1. bs \in Seq(Changes) /\ done \in Seq(Changes)
      BY <1>8, NotifyFacts
  <2>2. FieldsOf(bs) \subseteq Fields /\ FieldsOf(done) \subseteq Fields
      BY <2>1, FieldsOfFacts
  <2>3. suspect' \subseteq Fields /\ loaded' = loaded
      BY <1>8, <2>2, <1>4 DEF Notify, TypeInv
  <2>4. view \in States
      BY DEF TypeInv
  <2>5. bs[1] \in Changes /\ (Len(bs) = 2 => bs[2] \in Changes)
      BY <1>8, NotifyFacts
  <2>6. Did(view, bs[1]) \in States
      BY <2>4, <2>5, DidType
  <2>7. Len(bs) = 2 => Did(Did(view, bs[1]), bs[2]) \in States
      BY <2>5, <2>6, DidType
  <2>8. \/ view' = view
        \/ view' = Did(view, bs[1])
        \/ Len(bs) = 2 /\ view' = Did(Did(view, bs[1]), bs[2])
      BY <1>8, NotifyFacts, Zenon
  <2>9. view' \in States
      BY <2>4, <2>6, <2>7, <2>8, Zenon
  <2> QED
      BY <1>2, <1>5, <2>3, <2>9 DEF TypeInv
<1> QED
    BY <1>6, <1>7, <1>8 DEF OnMessage

----------------------------------------------------------------------------

\* Every variable has its type, and so has every message under way.
THEOREM TypeInvariant == Spec => []TypeInv
<1>1. Init => TypeInv
    BY TypeInit
<1>2. TypeInv /\ [Next]_vars => TypeInv'
  <2> SUFFICES ASSUME TypeInv, [Next]_vars
               PROVE  TypeInv'
      OBVIOUS
  <2>1. CASE Opened \/ Lose \/ Closed \/ Connect
      BY <2>1, TypeConnection
  <2>2. CASE User
      BY <2>2, TypeUser
  <2>3. CASE ServerHandles
      BY <2>3, TypeServer
  <2>4. CASE Others
      BY <2>4, TypeOthers
  <2>5. CASE OnMessage
      BY <2>5, TypeMessage
  <2>6. CASE UNCHANGED vars
      BY <2>6 DEF vars, link, history, TypeInv
  <2> QED
      BY <2>1, <2>2, <2>3, <2>4, <2>5, <2>6 DEF Next
<1> QED
    BY <1>1, <1>2, PTL DEF Spec

\* States of server and page, what is under way, and the ids of requests keep
\* their types, whatever the user, other pages and the connection do.
THEOREM TypeCorrect == Spec => []TypeOK
<1>1. TypeInv => TypeOK
  <2> SUFFICES ASSUME TypeInv PROVE TypeOK
      OBVIOUS
  <2>1. \A r \in Range(toServer) : r.id \in 1 .. msgId
      BY DEF TypeInv, Sending, Range
  <2>2. \A m \in Range(toClient) : m.method # "notify" => m.id \in 1 .. msgId
    <3>1. ASSUME NEW i \in DOMAIN toClient, toClient[i].method # "notify"
          PROVE  toClient[i].id \in 1 .. msgId
        BY <3>1 DEF TypeInv, Coming, IsNote
    <3> QED
        BY <3>1 DEF Range
  <2> QED
      BY <2>1, <2>2 DEF TypeInv, TypeOK
<1> QED
    BY <1>1, TypeInvariant, PTL

----------------------------------------------------------------------------
(* A page whose user has sent nothing                                      *)

\* The messages behind the k-th lead from one state to another.
Path(ms, k, s, t) ==
    \E S \in [k .. Len(ms) -> States] :
        /\ S[k] = s /\ S[Len(ms)] = t
        /\ \A i \in k + 1 .. Len(ms) : Leads(S[i - 1], ms[i], S[i])

\* The status is still to be answered, is on its way, or has been adopted; and
\* what comes after it leads to what the server has.
Unanswered ==
    /\ toServer = <<Request(statusReq, "status", None, None)>>
    /\ \A i \in 1 .. Len(toClient) : IsNote(toClient[i])

Answered ==
    /\ toServer = <<>>
    /\ \E k \in 1 .. Len(toClient) :
          /\ \A i \in 1 .. k - 1 : IsNote(toClient[i])
          /\ ~IsNote(toClient[k]) /\ toClient[k].id = statusReq
          /\ toClient[k].result # None
          /\ Path(toClient, k, toClient[k].result, server)

Adopted == toServer = <<>> /\ Path(toClient, 0, view, server)

FreshInv == readyState = "open" /\ ~acted => Unanswered \/ Answered \/ Adopted

\* No messages lead nowhere.
LEMMA PathEmpty ==
    ASSUME NEW ms, NEW k \in Nat, k = Len(ms), NEW s \in States, NEW t
    PROVE  Path(ms, k, s, t) <=> s = t
<1>1. ASSUME Path(ms, k, s, t)
      PROVE  s = t
    BY <1>1 DEF Path
<1>2. ASSUME s = t
      PROVE  Path(ms, k, s, t)
  <2> DEFINE S == [i \in k .. Len(ms) |-> s]
  <2>1. S \in [k .. Len(ms) -> States] /\ S[k] = s /\ S[Len(ms)] = t
      BY <1>2
  <2>2. \A i \in k + 1 .. Len(ms) : Leads(S[i - 1], ms[i], S[i])
      OBVIOUS
  <2> QED
      BY <2>1, <2>2 DEF Path
<1> QED
    BY <1>1, <1>2

\* One more message leads further.
LEMMA PathAppend ==
    ASSUME NEW ms \in Seq(Messages), NEW m \in Messages, NEW k \in 0 .. Len(ms),
           NEW s, NEW t, NEW u \in States, Path(ms, k, s, t), Leads(t, m, u)
    PROVE  Path(Append(ms, m), k, s, u)
<1> DEFINE n == Len(ms)
<1>1. PICK S \in [k .. n -> States] :
          /\ S[k] = s /\ S[n] = t
          /\ \A i \in k + 1 .. n : Leads(S[i - 1], ms[i], S[i])
    BY DEF Path
<1>2. /\ n \in Nat /\ Len(Append(ms, m)) = n + 1
      /\ \A i \in 1 .. n : Append(ms, m)[i] = ms[i]
      /\ Append(ms, m)[n + 1] = m
    BY AppendFacts
<1> DEFINE T == [i \in k .. n + 1 |-> IF i = n + 1 THEN u ELSE S[i]]
<1>3. T \in [k .. n + 1 -> States] /\ T[k] = s /\ T[n + 1] = u
    BY <1>1, <1>2
<1>4. ASSUME NEW i \in k + 1 .. n + 1
      PROVE  Leads(T[i - 1], Append(ms, m)[i], T[i])
  <2>1. CASE i = n + 1
    <3>1. T[i - 1] = t /\ T[i] = u /\ Append(ms, m)[i] = m
        BY <2>1, <1>1, <1>2
    <3> QED
        BY <3>1
  <2>2. CASE i # n + 1
    <3>1. i \in k + 1 .. n /\ i \in 1 .. n /\ i - 1 \in k .. n
        BY <2>2, <1>2
    <3>2. T[i - 1] = S[i - 1] /\ T[i] = S[i] /\ Append(ms, m)[i] = ms[i]
        BY <2>2, <3>1, <1>2
    <3> QED
        BY <3>1, <3>2, <1>1
  <2> QED
      BY <2>1, <2>2
<1> HIDE DEF T, n
<1> QED
    BY <1>2, <1>3, <1>4 DEF Path

\* The first message is taken.
LEMMA PathTail ==
    ASSUME NEW ms \in Seq(Messages), ms # <<>>, NEW k \in 1 .. Len(ms), NEW s, NEW t,
           Path(ms, k, s, t)
    PROVE  Path(Tail(ms), k - 1, s, t)
<1> DEFINE n == Len(ms)
<1>1. PICK S \in [k .. n -> States] :
          /\ S[k] = s /\ S[n] = t
          /\ \A i \in k + 1 .. n : Leads(S[i - 1], ms[i], S[i])
    BY DEF Path
<1>2. /\ n \in Nat /\ n >= 1 /\ Len(Tail(ms)) = n - 1
      /\ \A i \in 1 .. n - 1 : Tail(ms)[i] = ms[i + 1]
    BY TailFacts
<1> DEFINE T == [i \in k - 1 .. n - 1 |-> S[i + 1]]
<1>3. T \in [k - 1 .. n - 1 -> States] /\ T[k - 1] = s /\ T[n - 1] = t
    BY <1>1, <1>2
<1>4. ASSUME NEW i \in k .. n - 1
      PROVE  Leads(T[i - 1], Tail(ms)[i], T[i])
  <2>1. i + 1 \in k + 1 .. n /\ i \in 1 .. n - 1 /\ (i + 1) - 1 = i /\ (i - 1) + 1 = i
      BY <1>2
  <2>2. T[i - 1] = S[i] /\ T[i] = S[i + 1] /\ Tail(ms)[i] = ms[i + 1]
      BY <2>1, <1>2
  <2>3. Leads(S[(i + 1) - 1], ms[i + 1], S[i + 1])
      BY <2>1, <1>1
  <2> QED
      BY <2>1, <2>2, <2>3
<1>5. (k - 1) + 1 = k
    OBVIOUS
<1> HIDE DEF T, n
<1> QED
    BY <1>2, <1>3, <1>4, <1>5 DEF Path

\* The first message of a path leads from where it begins to where the rest does.
LEMMA PathFirst ==
    ASSUME NEW ms \in Seq(Messages), ms # <<>>, NEW s, NEW t, Path(ms, 0, s, t)
    PROVE  \E u \in States : Leads(s, ms[1], u) /\ Path(Tail(ms), 0, u, t)
<1> DEFINE n == Len(ms)
<1>1. PICK S \in [0 .. n -> States] :
          /\ S[0] = s /\ S[n] = t
          /\ \A i \in 0 + 1 .. n : Leads(S[i - 1], ms[i], S[i])
    BY DEF Path
<1>2. n \in Nat /\ n >= 1
    BY TailFacts
<1>3. S[1] \in States
    BY <1>1, <1>2
<1>4. Leads(S[0], ms[1], S[1])
  <2>1. 1 \in 0 + 1 .. n /\ 1 - 1 = 0
      BY <1>2
  <2> QED
      BY <2>1, <1>1
<1>5. Path(ms, 1, S[1], t)
  <2> DEFINE T == [i \in 1 .. n |-> S[i]]
  <2>1. T \in [1 .. n -> States] /\ T[1] = S[1] /\ T[n] = t
      BY <1>1, <1>2
  <2>2. ASSUME NEW i \in 1 + 1 .. n
        PROVE  Leads(T[i - 1], ms[i], T[i])
    <3>1. i \in 0 + 1 .. n /\ T[i - 1] = S[i - 1] /\ T[i] = S[i]
        BY <1>2
    <3> QED
        BY <3>1, <1>1
  <2> HIDE DEF T
  <2> QED
      BY <2>1, <2>2 DEF Path
<1>6. Path(Tail(ms), 1 - 1, S[1], t)
    BY <1>2, <1>5, PathTail
<1>7. 1 - 1 = 0
    OBVIOUS
<1> QED
    BY <1>1, <1>3, <1>4, <1>6, <1>7

----------------------------------------------------------------------------

\* The first message is a notification that leads from the view: all of it is
\* done.
LEMMA NotifyLeads ==
    ASSUME TypeInv, Notify, NEW u, Leads(view, Message, u)
    PROVE  view' = u
<1> DEFINE bs == Message.actions
           l == Len(bs)
<1>1. /\ l = 1 \/ l = 2
      /\ l = 1 => u = Did(view, bs[1])
      /\ l = 2 => u = Did(Did(view, bs[1]), bs[2])
      /\ \A i \in DOMAIN bs : ~Unknown(view, bs[i])
  <2>1. l = 1 => l # 2
      OBVIOUS
  <2> QED
      BY <2>1, Zenon DEF Leads
<1>2. bs \in Seq(Changes)
    BY NotifyFacts
<1>3. DOMAIN bs = 1 .. l
    BY <1>2
<1> HIDE DEF l
<1>4. ~Unknown(view, bs[1]) /\ (l = 2 => ~Unknown(view, bs[2]))
    BY <1>1, <1>3
<1>5. \/ Unknown(view, bs[1])
      \/ (l = 2 => Unknown(view, bs[2])) /\ view' = Did(view, bs[1])
      \/ l = 2 /\ view' = Did(Did(view, bs[1]), bs[2])
    BY NotifyFacts, Zenon DEF l
<1> QED
    BY <1>1, <1>4, <1>5, Zenon

\* Handling the request for the status answers it.
LEMMA FreshServer ==
    ASSUME TypeInv, FreshInv, ServerHandles
    PROVE  FreshInv'
<1> SUFFICES ASSUME readyState' = "open", ~acted' PROVE Answered'
    BY DEF FreshInv
<1> DEFINE r == Request(statusReq, "status", None, None)
           m == Answer(server, r)
           n == Len(toClient)
<1>1. /\ readyState = "open" /\ ~acted /\ toServer # <<>>
      /\ UNCHANGED statusReq
      /\ server' = Applied(server, Head(toServer)) /\ toServer' = Tail(toServer)
      /\ toClient' = Append(toClient, Answer(server, Head(toServer)))
    BY DEF ServerHandles, history
<1>2. Unanswered
    BY <1>1 DEF FreshInv, Answered, Adopted
<1>3. toServer = <<r>> /\ \A i \in 1 .. n : IsNote(toClient[i])
    BY <1>2 DEF Unanswered
<1>4. r \in Requests
  <2>1. Head(toServer) = r
      BY <1>3
  <2> QED
      BY <1>1, <2>1, SendingFacts DEF TypeInv
<1>5. r.method = "status" /\ r.id = statusReq
    BY DEF Request
<1> HIDE DEF r
<1>6. Head(toServer) = r /\ Tail(toServer) = <<>>
    BY <1>3
<1>7. ~Refused(server, r) /\ Applied(server, r) = server
    BY <1>4, <1>5, RefusedFacts, AppliedFacts
<1>8. /\ m \in Answers /\ ~IsNote(m) /\ m.id = statusReq
      /\ m.result # None /\ m.result = server
    BY <1>4, <1>5, <1>7, AnswerFacts DEF TypeInv
<1> HIDE DEF m
<1>9. m \in Messages /\ toClient \in Seq(Messages) /\ n \in Nat
    BY <1>8 DEF Messages, TypeInv, Coming
<1>10. /\ toClient' = Append(toClient, m) /\ toServer' = <<>> /\ server' = server
       /\ statusReq' = statusReq
    BY <1>1, <1>6, <1>7 DEF m
<1>11. /\ Append(toClient, m) \in Seq(Messages) /\ Len(Append(toClient, m)) = n + 1
       /\ \A i \in 1 .. n : Append(toClient, m)[i] = toClient[i]
       /\ Append(toClient, m)[n + 1] = m
    BY <1>9, AppendFacts
<1>12. Path(Append(toClient, m), n + 1, server, server)
  <2>1. n + 1 \in Nat /\ n + 1 = Len(Append(toClient, m)) /\ server \in States
      BY <1>9, <1>11 DEF TypeInv
  <2> HIDE DEF n
  <2> QED
      BY <2>1, PathEmpty
<1> HIDE DEF n
<1> DEFINE tc == Append(toClient, m)
<1>13. /\ n + 1 \in 1 .. Len(tc)
       /\ \A i \in 1 .. (n + 1) - 1 : IsNote(tc[i])
       /\ ~IsNote(tc[n + 1]) /\ tc[n + 1].id = statusReq /\ tc[n + 1].result # None
       /\ Path(tc, n + 1, tc[n + 1].result, server)
    BY <1>3, <1>8, <1>9, <1>11, <1>12 DEF n
<1> HIDE DEF tc
<1>14. toClient' = tc
    BY <1>10 DEF tc
<1> QED
  <2>1. \E k \in 1 .. Len(tc) :
          /\ \A i \in 1 .. k - 1 : IsNote(tc[i])
          /\ ~IsNote(tc[k]) /\ tc[k].id = statusReq
          /\ tc[k].result # None
          /\ Path(tc, k, tc[k].result, server)
      BY <1>13
  <2> QED
      BY <1>10, <1>14, <2>1 DEF Answered, IsNote

\* What is announced prolongs the path.
LEMMA FreshOthers ==
    ASSUME TypeInv, FreshInv, Others
    PROVE  FreshInv'
<1> SUFFICES ASSUME readyState' = "open", ~acted' PROVE (Unanswered \/ Answered \/ Adopted)'
    BY DEF FreshInv
<1>1. PICK s \in States, bs \in Seq(Changes) : Announces(s, bs)
    BY OthersFacts
<1> DEFINE m == Notification(bs)
           tc == Append(toClient, m)
           n == Len(toClient)
<1>2. m \in Messages /\ IsNote(m)
    BY NotificationFacts
<1>3. /\ readyState = "open" /\ ~acted /\ server' = s /\ toClient' = tc
      /\ UNCHANGED <<view, toServer, statusReq>>
    BY <1>1 DEF Announces, Notified, history
<1>4. Leads(server, m, s)
    BY <1>1 DEF Announces
<1> HIDE DEF m
<1>5. toClient \in Seq(Messages) /\ n \in Nat
    BY DEF TypeInv, Coming
<1>6. /\ Len(tc) = n + 1 /\ \A i \in 1 .. n : tc[i] = toClient[i]
      /\ tc[n + 1] = m
    BY <1>2, <1>5, AppendFacts
<1>7. ASSUME NEW k \in 0 .. n, NEW t, Path(toClient, k, t, server)
      PROVE  Path(tc, k, t, s)
    BY <1>2, <1>4, <1>5, <1>7, PathAppend
<1> HIDE DEF tc
<1>8. CASE Unanswered
  <2>1. \A i \in 1 .. Len(tc) : IsNote(tc[i])
    <3>1. ASSUME NEW i \in 1 .. Len(tc)
          PROVE  IsNote(tc[i])
      <4>1. CASE i = n + 1
          BY <4>1, <1>2, <1>6
      <4>2. CASE i # n + 1
        <5>1. i \in 1 .. n
            BY <4>2, <1>5, <1>6
        <5> QED
            BY <5>1, <1>6, <1>8 DEF Unanswered
      <4> QED
          BY <4>1, <4>2
    <3> QED
        BY <3>1
  <2> QED
      BY <1>3, <1>8, <2>1 DEF Unanswered, Request, IsNote
<1>9. CASE Answered
  <2>1. PICK k \in 1 .. n :
          /\ \A i \in 1 .. k - 1 : IsNote(toClient[i])
          /\ ~IsNote(toClient[k]) /\ toClient[k].id = statusReq
          /\ toClient[k].result # None
          /\ Path(toClient, k, toClient[k].result, server)
      BY <1>9 DEF Answered
  <2>2. Path(tc, k, toClient[k].result, s)
      BY <2>1, <1>7
  <2>3. /\ k \in 1 .. Len(tc) /\ tc[k] = toClient[k]
        /\ \A i \in 1 .. k - 1 : IsNote(tc[i])
      BY <1>5, <1>6, <2>1
  <2>4. \E j \in 1 .. Len(tc) :
          /\ \A i \in 1 .. j - 1 : IsNote(tc[i])
          /\ ~IsNote(tc[j]) /\ tc[j].id = statusReq
          /\ tc[j].result # None
          /\ Path(tc, j, tc[j].result, s)
      BY <2>1, <2>2, <2>3
  <2> QED
      BY <1>3, <1>9, <2>4 DEF Answered, IsNote
<1>10. CASE Adopted
  <2>1. Path(tc, 0, view, s)
      BY <1>5, <1>7, <1>10 DEF Adopted
  <2> QED
      BY <1>3, <1>10, <2>1 DEF Adopted
<1> QED
    BY <1>3, <1>8, <1>9, <1>10 DEF FreshInv

\* A message is taken from the path, and the view goes with it.
LEMMA FreshMessage ==
    ASSUME TypeInv, FreshInv, OnMessage
    PROVE  FreshInv'
<1> SUFFICES ASSUME readyState' = "open", ~acted' PROVE (Unanswered \/ Answered \/ Adopted)'
    BY DEF FreshInv
<1> DEFINE n == Len(toClient)
           tc == Tail(toClient)
<1>1. Receives
    BY DEF OnMessage, AdoptStatus, IgnoreAnswer, Notify
<1>2. /\ readyState = "open" /\ ~acted /\ toClient # <<>> /\ toClient' = tc
      /\ UNCHANGED <<server, toServer, statusReq>>
    BY <1>1 DEF Receives
<1>3. toClient \in Seq(Messages)
    BY DEF TypeInv, Coming
<1>4. /\ Message = toClient[1] /\ n \in Nat /\ n >= 1 /\ Len(tc) = n - 1 /\ tc \in Seq(Messages)
      /\ \A i \in 1 .. n - 1 : tc[i] = toClient[i + 1]
    BY <1>2, <1>3, TailFacts DEF Message
<1>5. AdoptStatus => ~IsNote(Message) /\ Message.id = statusReq
    BY DEF AdoptStatus, IsStatus, IsNote
<1>6. IgnoreAnswer => ~IsNote(Message) /\ Message.id # statusReq
    BY DEF IgnoreAnswer, IsStatus, IsNote
<1>7. Notify => IsNote(Message)
    BY DEF Notify, IsNote
<1>8. CASE Unanswered
  <2>1. IsNote(Message)
      BY <1>4, <1>8 DEF Unanswered
  <2>2. \A i \in 1 .. Len(tc) : IsNote(tc[i])
      BY <1>4, <1>8 DEF Unanswered
  <2> HIDE DEF tc
  <2> QED
      BY <1>2, <1>8, <2>2 DEF Unanswered, Request, IsNote
<1>9. CASE Answered
  <2>1. PICK k \in 1 .. n :
          /\ \A i \in 1 .. k - 1 : IsNote(toClient[i])
          /\ ~IsNote(toClient[k]) /\ toClient[k].id = statusReq
          /\ toClient[k].result # None
          /\ Path(toClient, k, toClient[k].result, server)
      BY <1>9 DEF Answered
  <2>2. Path(tc, k - 1, toClient[k].result, server)
      BY <2>1, <1>2, <1>3, PathTail
  <2> HIDE DEF tc
  <2>3. CASE k = 1
    <3>1. AdoptStatus
        BY <1>4, <1>6, <1>7, <2>1, <2>3 DEF OnMessage
    <3>2. view' = toClient[1].result
        BY <3>1, <1>4, <2>1, <2>3 DEF AdoptStatus
    <3>3. Path(tc, 0, view', server)
        BY <2>2, <2>3, <3>2
    <3> QED
        BY <1>2, <1>9, <3>3 DEF Answered, Adopted
  <2>4. CASE k # 1
    <3>1. IsNote(Message)
        BY <1>4, <2>1, <2>4
    <3>2. /\ k - 1 \in 1 .. Len(tc) /\ tc[k - 1] = toClient[k]
          /\ \A i \in 1 .. (k - 1) - 1 : IsNote(tc[i])
        BY <1>4, <2>1, <2>4
    <3>3. \E j \in 1 .. Len(tc) :
            /\ \A i \in 1 .. j - 1 : IsNote(tc[i])
            /\ ~IsNote(tc[j]) /\ tc[j].id = statusReq
            /\ tc[j].result # None
            /\ Path(tc, j, tc[j].result, server)
        BY <2>1, <2>2, <3>2
    <3> QED
        BY <1>2, <1>9, <3>3 DEF Answered, IsNote
  <2> QED
      BY <2>3, <2>4
<1>10. CASE Adopted
  <2>1. PICK u \in States : Leads(view, toClient[1], u) /\ Path(tc, 0, u, server)
      BY <1>2, <1>3, <1>10, PathFirst DEF Adopted
  <2> HIDE DEF tc
  <2>2. IsNote(Message) /\ Leads(view, Message, u)
      BY <1>4, <2>1 DEF Leads
  <2>3. Notify
      BY <1>5, <1>6, <2>2 DEF OnMessage
  <2>4. view' = u
      BY <2>2, <2>3, NotifyLeads
  <2> QED
      BY <1>2, <1>10, <2>1, <2>4 DEF Adopted
<1> QED
    BY <1>2, <1>8, <1>9, <1>10 DEF FreshInv

\* The user sends something, or nothing changes.
LEMMA UserFacts ==
    ASSUME User
    PROVE  /\ UNCHANGED <<server, readyState, toClient, loaded>>
           /\ \/ \E rs : Send(rs)
              \/ UNCHANGED <<view, toServer, msgId, statusReq, acted, suspect>>
BY DEF User, SetVolume, SetGroup, MoveClient, DeleteClient, GroupVolumeEnter, SetGroupVolume,
       Acts, link, history

\* A page whose user sends something is not fresh.
LEMMA FreshUser ==
    ASSUME TypeInv, FreshInv, User
    PROVE  FreshInv'
<1>1. CASE \E rs : Send(rs)
  <2>1. readyState' = "open" => acted'
      BY <1>1, UserFacts DEF Send
  <2> QED
      BY <2>1 DEF FreshInv
<1>2. CASE UNCHANGED <<view, toServer, msgId, statusReq, acted, suspect>>
  <2>1. UNCHANGED <<server, readyState, toClient>>
      BY UserFacts
  <2> QED
      BY <1>2, <2>1 DEF FreshInv, Unanswered, Answered, Adopted, Path
<1> QED
    BY <1>1, <1>2, UserFacts

\* A connection that has just been opened has its status asked for.
LEMMA FreshLink ==
    ASSUME TypeInv, FreshInv, Opened \/ Lose \/ Closed \/ Connect
    PROVE  FreshInv'
<1>1. CASE Opened
  <2>1. toClient = <<>>
      BY <1>1 DEF Opened, TypeInv
  <2>2. /\ toServer' = <<Request(msgId + 1, "status", None, None)>>
        /\ statusReq' = msgId + 1 /\ toClient' = <<>>
      BY <1>1, <2>1 DEF Opened, Awaited
  <2>3. Unanswered'
      BY <2>2 DEF Unanswered, Request
  <2> QED
      BY <2>3 DEF FreshInv
<1>2. CASE Lose \/ Closed \/ Connect
  <2>1. readyState' # "open"
      BY <1>2 DEF Lose, Lost, Closed, Connect
  <2> QED
      BY <2>1 DEF FreshInv
<1> QED
    BY <1>1, <1>2

\* Over a connection the user has sent nothing over, what is under way leads from
\* the view to what the server has.
THEOREM FreshInvariant == Spec => []FreshInv
<1>1. Init => FreshInv
    BY DEF Init, FreshInv
<1>2. TypeInv /\ FreshInv /\ [Next]_vars => FreshInv'
  <2> SUFFICES ASSUME TypeInv, FreshInv, [Next]_vars
               PROVE  FreshInv'
      OBVIOUS
  <2>1. CASE Opened \/ Lose \/ Closed \/ Connect
      BY <2>1, FreshLink
  <2>2. CASE User
      BY <2>2, FreshUser
  <2>3. CASE ServerHandles
      BY <2>3, FreshServer
  <2>4. CASE Others
      BY <2>4, FreshOthers
  <2>5. CASE OnMessage
      BY <2>5, FreshMessage
  <2>6. CASE UNCHANGED vars
      BY <2>6 DEF vars, link, history, FreshInv, Unanswered, Answered, Adopted, Path
  <2> QED
      BY <2>1, <2>2, <2>3, <2>4, <2>5, <2>6 DEF Next
<1> QED
    BY <1>1, <1>2, TypeInvariant, PTL DEF Spec

\* A page whose user has sent nothing since it connected shows exactly what the
\* server has once nothing is under way: the status is adopted, and whatever
\* comes after it leads from there to what the server has.
THEOREM FreshConnectionHolds == Spec => []FreshConnection
<1>1. TypeInv /\ FreshInv => FreshConnection
  <2> SUFFICES ASSUME TypeInv, FreshInv, Quiet, ~acted, NEW f \in Fields
               PROVE  Agrees(f)
      BY DEF FreshConnection
  <2>1. readyState = "open" /\ toServer = <<>> /\ toClient = <<>>
      BY DEF Quiet
  <2>2. Adopted
    <3>1. ~Unanswered
        BY <2>1 DEF Unanswered
    <3>2. ~Answered
        BY <2>1 DEF Answered
    <3> QED
        BY <2>1, <3>1, <3>2 DEF FreshInv
  <2>3. Path(<<>>, 0, view, server)
      BY <2>1, <2>2 DEF Adopted
  <2>4. view = server
      BY <2>3, PathEmpty DEF TypeInv
  <2> QED
      BY <2>4 DEF Agrees
<1> QED
    BY <1>1, TypeInvariant, FreshInvariant, PTL

----------------------------------------------------------------------------
(* Values of fields                                                        *)

Val(s, f) ==
    CASE f[1] = "config" -> s.config[f[2]]
      [] f[1] = "setting" -> s.setting[f[2]]
      [] OTHER -> s.member

\* A value of a field is the server's, if the server has the field at all.
Same(s, v, f) ==
    CASE f[1] = "config" -> Known(s, f[2]) => v = s.config[f[2]]
      [] f[1] = "setting" -> f[2] \in GroupsOf(s) /\ v # None => v = s.setting[f[2]]
      [] OTHER -> v = s.member

\* A change sets a field, to a value that it gives.
Sets(a, f) == a.what = "update" \/ Field(a.what, a.target) = f
Given(a, f) == IF a.what = "update" THEN Val(a.value, f) ELSE a.value
Writes(m, f) == IsNote(m) /\ \E i \in DOMAIN m.actions : Sets(m.actions[i], f)

\* The value of each kind of field.
LEMMA ValFacts ==
    ASSUME NEW s, NEW v
    PROVE  /\ \A c : /\ Val(s, <<"config", c>>) = s.config[c]
                     /\ Same(s, v, <<"config", c>>) <=> (Known(s, c) => v = s.config[c])
           /\ \A g : /\ Val(s, <<"setting", g>>) = s.setting[g]
                     /\ Same(s, v, <<"setting", g>>)
                           <=> (g \in GroupsOf(s) /\ v # None => v = s.setting[g])
           /\ Val(s, MemberField) = s.member
           /\ Same(s, v, MemberField) <=> v = s.member
BY DEF Val, Same, MemberField

\* A server has its own values.
LEMMA SameVal ==
    ASSUME NEW s, NEW f
    PROVE  Same(s, Val(s, f), f)
BY DEF Same, Val

\* What is the same in two states.
LEMMA SameIn ==
    ASSUME NEW s \in States, NEW t \in States, NEW f \in Fields, t.member = s.member,
           Val(t, f) = Val(s, f)
    PROVE  \A v : Same(s, v, f) <=> Same(t, v, f)
BY DEF Same, Val, Known, GroupsOf

\* The fields that a change sets.
LEMMA SetsFacts ==
    ASSUME NEW a \in Changes, NEW f
    PROVE  /\ a.what = "config" => (Sets(a, f) <=> f = <<"config", a.target>>)
           /\ a.what = "setting" => (Sets(a, f) <=> f = <<"setting", a.target>>)
           /\ a.what = "update" => Sets(a, f)
           /\ a.what # "update" => ~Sets(a, MemberField)
<1>1. /\ Field("config", a.target) = <<"config", a.target>>
      /\ Field("setting", a.target) = <<"setting", a.target>>
      /\ <<"config", a.target>> # MemberField /\ <<"setting", a.target>> # MemberField
    BY FieldFacts DEF MemberField
<1>2. CASE a.what = "config"
    BY <1>1, <1>2 DEF Sets
<1>3. CASE a.what = "setting"
    BY <1>1, <1>3 DEF Sets
<1>4. CASE a.what = "update"
    BY <1>4 DEF Sets
<1> QED
    BY <1>2, <1>3, <1>4, ChangeFacts

\* A change does to a field what it says, and leaves the others alone.
LEMMA DidField ==
    ASSUME NEW s \in States, NEW a \in Changes, NEW f \in Fields
    PROVE  /\ Sets(a, f) => Val(Did(s, a), f) = Given(a, f)
           /\ ~Sets(a, f) => Did(s, a).member = s.member /\ Val(Did(s, a), f) = Val(s, f)
           /\ a.what # "update" => Did(s, a).member = s.member
<1>1. CASE a.what = "update"
  <2>1. Did(s, a) = a.value
      BY <1>1, DidFacts
  <2> QED
      BY <1>1, <2>1, SetsFacts DEF Given
<1>2. CASE a.what = "config"
  <2> DEFINE c == a.target
             v == a.value
             t == WithConfig(s, c, v)
  <2>1. c \in Clients /\ v \in Configs
      BY <1>2, ChangeFacts, ValuesAreConfigs
  <2>2. Did(s, a) = t
      BY <1>2, DidFacts
  <2>3. Sets(a, f) <=> f = <<"config", c>>
      BY <1>2, SetsFacts
  <2>4. a.what # "update" /\ Given(a, f) = v
      BY <1>2 DEF Given
  <2> HIDE DEF c, v
  <2>5. t.config = [s.config EXCEPT ![c] = v] /\ t.setting = s.setting /\ t.member = s.member
      BY <2>1, WithConfigFacts
  <2> HIDE DEF t
  <2>6. s.config \in [Clients -> Configs]
      BY DEF States, Configs
  <2>7. t.config[c] = v /\ \A d \in Clients : d # c => t.config[d] = s.config[d]
      BY <2>1, <2>5, <2>6
  <2>8. CASE f = <<"config", c>>
    <3>1. Val(t, f) = v
        BY <2>7, <2>8, ValFacts
    <3> QED
        BY <2>2, <2>3, <2>4, <2>5, <2>8, <3>1
  <2>9. CASE f # <<"config", c>>
    <3>1. Val(t, f) = Val(s, f)
      <4>1. CASE f[1] = "config" /\ f[2] \in Clients /\ f = <<"config", f[2]>>
        <5>1. t.config[f[2]] = s.config[f[2]]
            BY <4>1, <2>7, <2>9
        <5> QED
            BY <4>1, <5>1 DEF Val
      <4>2. CASE f[1] = "setting"
          BY <4>2, <2>5 DEF Val
      <4>3. CASE f[1] = "member"
          BY <4>3, <2>5 DEF Val
      <4> QED
          BY <4>1, <4>2, <4>3, FieldKinds
    <3> QED
        BY <2>2, <2>3, <2>4, <2>5, <2>9, <3>1
  <2> QED
      BY <2>8, <2>9
<1>3. CASE a.what = "setting"
  <2> DEFINE g == a.target
             v == a.value
             t == WithSetting(s, g, v)
  <2>1. g \in Groups /\ v \in Values
      BY <1>3, ChangeFacts
  <2>2. Did(s, a) = t
      BY <1>3, DidFacts
  <2>3. Sets(a, f) <=> f = <<"setting", g>>
      BY <1>3, SetsFacts
  <2>4. a.what # "update" /\ Given(a, f) = v
      BY <1>3 DEF Given
  <2> HIDE DEF g, v
  <2>5. t.config = s.config /\ t.setting = [s.setting EXCEPT ![g] = v] /\ t.member = s.member
      BY <2>1, WithSettingFacts
  <2> HIDE DEF t
  <2>6. s.setting \in [Groups -> Values \union {None}]
      BY DEF States
  <2>7. t.setting[g] = v /\ \A h \in Groups : h # g => t.setting[h] = s.setting[h]
      BY <2>1, <2>5, <2>6
  <2>8. CASE f = <<"setting", g>>
    <3>1. Val(t, f) = v
        BY <2>7, <2>8, ValFacts
    <3> QED
        BY <2>2, <2>3, <2>4, <2>5, <2>8, <3>1
  <2>9. CASE f # <<"setting", g>>
    <3>1. Val(t, f) = Val(s, f)
      <4>1. CASE f[1] = "setting" /\ f[2] \in Groups /\ f = <<"setting", f[2]>>
        <5>1. t.setting[f[2]] = s.setting[f[2]]
            BY <4>1, <2>7, <2>9
        <5> QED
            BY <4>1, <5>1 DEF Val
      <4>2. CASE f[1] = "config"
          BY <4>2, <2>5 DEF Val
      <4>3. CASE f[1] = "member"
          BY <4>3, <2>5 DEF Val
      <4> QED
          BY <4>1, <4>2, <4>3, FieldKinds
    <3> QED
        BY <2>2, <2>3, <2>4, <2>5, <2>9, <3>1
  <2> QED
      BY <2>8, <2>9
<1> QED
    BY <1>1, <1>2, <1>3, ChangeFacts

\* Likewise a batch.
LEMMA LeadsField ==
    ASSUME NEW s \in States, NEW bs \in Seq(Changes), IsBatch(bs), NEW t,
           Leads(s, Notification(bs), t), NEW f \in Fields
    PROVE  /\ t \in States
           /\ \A i \in DOMAIN bs : Sets(bs[i], f) => Val(t, f) = Given(bs[i], f)
           /\ (\A i \in DOMAIN bs : ~Sets(bs[i], f))
                 => t.member = s.member /\ Val(t, f) = Val(s, f)
<1> DEFINE l == Len(bs)
<1>1. Notification(bs).actions = bs
    BY NotificationFacts
<1>2. \/ l = 1 /\ t = Did(s, bs[1])
      \/ l = 2 /\ t = Did(Did(s, bs[1]), bs[2])
    BY <1>1, Zenon DEF Leads
<1>3. DOMAIN bs = 1 .. l /\ \A i \in 1 .. l : bs[i] \in Changes
    OBVIOUS
<1>4. l = 2 => /\ bs[1].what = "config" /\ bs[2].what = "config"
               /\ bs[1].value = bs[2].value
  <2>1. l = 2 => l # 1
      OBVIOUS
  <2> QED
      BY <2>1, Zenon DEF IsBatch
<1> HIDE DEF l
<1>5. CASE l = 1
  <2>1. DOMAIN bs = {1} /\ bs[1] \in Changes /\ t = Did(s, bs[1])
      BY <1>2, <1>3, <1>5
  <2>2. t \in States
      BY <2>1, DidType
  <2> QED
      BY <2>1, <2>2, DidField
<1>6. CASE l = 2
  <2> DEFINE a == bs[1]
             b == bs[2]
             u == Did(s, a)
  <2>1. DOMAIN bs = {1, 2} /\ a \in Changes /\ b \in Changes /\ t = Did(u, b)
      BY <1>2, <1>3, <1>6
  <2>2. u \in States
      BY <2>1, DidType
  <2>3. a.what = "config" /\ b.what = "config" /\ a.value = b.value
      BY <1>4, <1>6
  <2>4. Given(a, f) = Given(b, f)
      BY <2>3 DEF Given
  <2> HIDE DEF u, a, b
  <2>5. t \in States
      BY <2>1, <2>2, DidType
  <2>6. /\ Sets(b, f) => Val(t, f) = Given(b, f)
        /\ ~Sets(b, f) => t.member = u.member /\ Val(t, f) = Val(u, f)
      BY <2>1, <2>2, DidField
  <2>7. /\ Sets(a, f) => Val(u, f) = Given(a, f)
        /\ ~Sets(a, f) => u.member = s.member /\ Val(u, f) = Val(s, f)
      BY <2>1, DidField DEF u
  <2>8. Sets(a, f) => Val(t, f) = Given(a, f)
      BY <2>4, <2>6, <2>7
  <2>9. \A i \in DOMAIN bs : Sets(bs[i], f) => Val(t, f) = Given(bs[i], f)
      BY <2>1, <2>6, <2>8 DEF a, b
  <2>10. ~Sets(a, f) /\ ~Sets(b, f) => t.member = s.member /\ Val(t, f) = Val(s, f)
      BY <2>6, <2>7
  <2>11. (\A i \in DOMAIN bs : ~Sets(bs[i], f)) => ~Sets(a, f) /\ ~Sets(b, f)
      BY <2>1 DEF a, b
  <2> QED
      BY <2>5, <2>9, <2>10, <2>11
<1> QED
    BY <1>2, <1>5, <1>6

\* Fields of changes.
LEMMA FieldsOfSets ==
    ASSUME NEW bs \in Seq(Changes), NEW f \in Fields
    PROVE  f \in FieldsOf(bs) <=> \E i \in DOMAIN bs : Sets(bs[i], f)
BY DEF FieldsOf, Sets

----------------------------------------------------------------------------
(* Ids                                                                     *)

\* Ids that a state has settings for are taken.
Taken(s, t) == \A g \in Groups : s.setting[g] # None => t.setting[g] # None

SoundChange(a, t) ==
    /\ a.what = "update" => Housed(a.value) /\ Taken(a.value, t)
    /\ a.what = "setting" => t.setting[a.target] # None

SoundMessage(m, t) ==
    IF IsNote(m)
    THEN \A k \in DOMAIN m.actions : SoundChange(m.actions[k], t)
    ELSE m.result # None => Housed(m.result) /\ Taken(m.result, t)

\* Groups have settings; and whoever knows of an id, it is taken.
SoundInv ==
    /\ Housed(server) /\ Housed(view) /\ Taken(view, server)
    /\ \A i \in 1 .. Len(toClient) : SoundMessage(toClient[i], server)

\* What is sound remains so.
LEMMA SoundRemains ==
    ASSUME NEW t, NEW u, Taken(t, u), NEW m \in Messages, SoundMessage(m, t)
    PROVE  SoundMessage(m, u)
<1>1. CASE IsNote(m)
  <2>1. m.actions \in Seq(Changes)
      BY <1>1, MessageFacts
  <2>2. ASSUME NEW k \in DOMAIN m.actions
        PROVE  SoundChange(m.actions[k], u)
    <3>1. m.actions[k] \in Changes /\ SoundChange(m.actions[k], t)
        BY <1>1, <2>1 DEF SoundMessage
    <3> DEFINE a == m.actions[k]
    <3> HIDE DEF a
    <3>2. a \in Changes /\ SoundChange(a, t)
        BY <3>1 DEF a
    <3>3. SoundChange(a, u)
        BY <3>2, ChangeFacts DEF SoundChange, Taken
    <3> QED
        BY <3>3 DEF a
  <2> QED
      BY <1>1, <2>2 DEF SoundMessage
<1>2. CASE ~IsNote(m)
    BY <1>2 DEF SoundMessage, Taken
<1> QED
    BY <1>1, <1>2

\* Requests lead on: no id, client or group comes back.
LEMMA AppliedFollows ==
    ASSUME NEW s \in States, NEW r \in Requests,
           r.method = "clients" /\ ~Refused(s, r) => IdsLeft(s, r.target, r.value)
    PROVE  Follows(s, Applied(s, r))
<1>1. CASE Refused(s, r) \/ r.method = "status"
    BY <1>1, AppliedFacts, ConfigFollows
<1>2. CASE ~Refused(s, r) /\ r.method = "config"
  <2> DEFINE c == r.target
             v == r.value
             t == WithConfig(s, c, v)
  <2>1. c \in Clients /\ v \in Configs /\ Applied(s, r) = t
      BY <1>2, RequestFacts, AppliedFacts
  <2> HIDE DEF c, v
  <2>2. t \in States /\ t.setting = s.setting /\ t.member = s.member
      BY <2>1, WithConfigFacts
  <2> HIDE DEF t
  <2> QED
      BY <2>1, <2>2, ConfigFollows
<1>3. CASE ~Refused(s, r) /\ r.method = "setting"
  <2> DEFINE g == r.target
             v == r.value
  <2>1. g \in Groups /\ v \in Values /\ Applied(s, r) = WithSetting(s, g, v)
      BY <1>3, RequestFacts, AppliedFacts
  <2> HIDE DEF g, v
  <2> QED
      BY <2>1, SettingFollows
<1>4. CASE ~Refused(s, r) /\ r.method = "clients"
  <2> DEFINE g == r.target
             cs == r.value
  <2>1. /\ g \in Groups /\ Applied(s, r) = Regrouped(s, g, cs)
        /\ g \in GroupsOf(s) /\ NewGroups(s, g, cs) # {}
      BY <1>4, RequestFacts, AppliedFacts, RefusedFacts DEF IdsLeft
  <2> HIDE DEF g, cs
  <2> QED
      BY <2>1, RegroupedFollows
<1>5. CASE ~Refused(s, r) /\ r.method = "delete"
  <2> DEFINE c == r.target
  <2>1. c \in Clients /\ Applied(s, r) = Without(s, c)
      BY <1>5, RequestFacts, AppliedFacts
  <2> HIDE DEF c
  <2> QED
      BY <2>1, WithoutFollows
<1> QED
    BY <1>1, <1>2, <1>3, <1>4, <1>5, RequestFacts

\* The server handles a request.
Handles(r, m) ==
    /\ readyState = "open" /\ toServer # <<>> /\ r = Head(toServer)
    /\ r \in Requests /\ m \in Messages /\ ~IsNote(m)
    /\ r.id \in 1 .. msgId
    /\ r.method = "clients" /\ ~Refused(server, r) => IdsLeft(server, r.target, r.value)
    /\ server' = Applied(server, r) /\ server' \in States /\ Follows(server, server')
    /\ m.id = r.id /\ m.method = r.method /\ m.target = r.target
    /\ m.result # None <=> r.method \in {"status", "clients"} /\ ~Refused(server, r)
    /\ m.result # None => m.result = server'
    /\ toServer' = Tail(toServer) /\ toClient' = Append(toClient, m)
    /\ UNCHANGED <<view, readyState, msgId, statusReq, acted, loaded, suspect>>

\* The server handles the first request.
LEMMA ServerFacts ==
    ASSUME TypeInv, ServerHandles
    PROVE  \E r, m : Handles(r, m)
<1> DEFINE r == Head(toServer)
           m == Answer(server, r)
<1>1. /\ toServer # <<>> /\ readyState = "open"
      /\ r.method = "clients" /\ ~Refused(server, r) => IdsLeft(server, r.target, r.value)
      /\ server' = Applied(server, r) /\ toServer' = Tail(toServer)
      /\ toClient' = Append(toClient, m)
      /\ UNCHANGED <<view, readyState, msgId, statusReq, acted, loaded, suspect>>
    BY DEF ServerHandles, history
<1>2. server \in States /\ msgId \in Nat /\ Sending(toServer, msgId)
    BY DEF TypeInv
<1>3. r = Head(toServer)
    OBVIOUS
<1> HIDE DEF r
<1>4. r \in Requests /\ r.id \in 1 .. msgId
    BY <1>1, <1>2, <1>3, SendingFacts
<1>5. Applied(server, r) \in States /\ Follows(server, Applied(server, r))
    BY <1>1, <1>2, <1>4, AppliedType, AppliedFollows
<1>6. /\ m \in Answers /\ ~IsNote(m) /\ m.id = r.id /\ m.method = r.method
      /\ m.target = r.target
      /\ m.result # None <=> r.method \in {"status", "clients"} /\ ~Refused(server, r)
      /\ m.result # None => m.result = Applied(server, r)
    BY <1>1, <1>2, <1>4, AnswerFacts
<1> HIDE DEF m
<1>7. m \in Messages
    BY <1>6 DEF Messages
<1>8. Handles(r, m)
    BY <1>1, <1>3, <1>4, <1>5, <1>6, <1>7 DEF Handles
<1> QED
    BY <1>8

\* The invariant after a step, from the values after it.
LEMMA SoundNext ==
    ASSUME Housed(server'), Housed(view'), Taken(view', server'),
           \A i \in 1 .. Len(toClient') : SoundMessage(toClient'[i], server')
    PROVE  SoundInv'
BY DEF SoundInv, Housed, Taken, Known, SoundMessage, SoundChange, IsNote

\* Handling a request keeps ids sound.
LEMMA SoundServer ==
    ASSUME TypeInv, SoundInv, ServerHandles
    PROVE  SoundInv'
<1>1. PICK r, m : Handles(r, m)
    BY ServerFacts
<1>2. /\ Taken(server, server') /\ Housed(server') /\ view' = view
      /\ m \in Messages /\ ~IsNote(m) /\ (m.result # None => m.result = server')
      /\ toClient' = Append(toClient, m)
    BY <1>1 DEF Handles, Follows, SoundInv, Taken
<1>3. SoundMessage(m, server')
    BY <1>2 DEF SoundMessage, Taken
<1>4. toClient \in Seq(Messages)
    BY DEF TypeInv, Coming
<1>5. /\ Len(toClient') = Len(toClient) + 1 /\ Len(toClient) \in Nat
      /\ \A i \in 1 .. Len(toClient) : toClient'[i] = toClient[i] /\ toClient[i] \in Messages
      /\ toClient'[Len(toClient) + 1] = m
    BY <1>2, <1>4, AppendFacts
<1>6. ASSUME NEW i \in 1 .. Len(toClient')
      PROVE  SoundMessage(toClient'[i], server')
  <2>1. CASE i = Len(toClient) + 1
      BY <2>1, <1>3, <1>5
  <2>2. CASE i # Len(toClient) + 1
    <3>1. i \in 1 .. Len(toClient)
        BY <2>2, <1>5
    <3>2. SoundMessage(toClient[i], server)
        BY <3>1 DEF SoundInv
    <3> QED
        BY <3>1, <3>2, <1>2, <1>5, SoundRemains
  <2> QED
      BY <2>1, <2>2
<1>7. Housed(view) /\ Taken(view, server')
    BY <1>2 DEF SoundInv, Taken
<1> QED
    BY <1>2, <1>6, <1>7, SoundNext

\* So does what other pages do.
LEMMA SoundOthers ==
    ASSUME TypeInv, SoundInv, Others
    PROVE  SoundInv'
<1>1. PICK s \in States, bs \in Seq(Changes) : Announces(s, bs)
    BY OthersFacts
<1> DEFINE m == Notification(bs)
<1>2. /\ server' = s /\ Taken(server, s) /\ Housed(s) /\ view' = view
      /\ toClient' = IF readyState = "open" THEN Append(toClient, m) ELSE toClient
    BY <1>1 DEF Announces, Notified, Follows, SoundInv, Taken
<1>3. m \in Messages /\ IsNote(m) /\ m.actions = bs
    BY NotificationFacts
<1> HIDE DEF m
<1>4. SoundMessage(m, s)
  <2>1. ASSUME NEW k \in DOMAIN bs
        PROVE  SoundChange(bs[k], s)
    <3>1. /\ bs[k].what = "update" => bs[k].value = s
          /\ bs[k].what = "setting" => s.setting[bs[k].target] # None
        BY <1>1 DEF Announces
    <3> QED
        BY <3>1, <1>2 DEF SoundChange, Taken
  <2> QED
      BY <1>3, <2>1 DEF SoundMessage
<1>5. toClient \in Seq(Messages)
    BY DEF TypeInv, Coming
<1>6. \A i \in 1 .. Len(toClient) : SoundMessage(toClient[i], s)
  <2>1. \A i \in 1 .. Len(toClient) : toClient[i] \in Messages
      BY <1>5
  <2> QED
      BY <2>1, <1>2, SoundRemains DEF SoundInv
<1>7. \A i \in 1 .. Len(toClient') : SoundMessage(toClient'[i], s)
  <2>1. CASE readyState # "open"
      BY <2>1, <1>2, <1>6
  <2>2. CASE readyState = "open"
    <3>1. toClient' = Append(toClient, m)
        BY <2>2, <1>2
    <3>2. /\ Len(toClient') = Len(toClient) + 1 /\ Len(toClient) \in Nat
          /\ \A i \in 1 .. Len(toClient) : toClient'[i] = toClient[i]
          /\ toClient'[Len(toClient) + 1] = m
        BY <3>1, <1>3, <1>5, AppendFacts
    <3>3. ASSUME NEW i \in 1 .. Len(toClient')
          PROVE  SoundMessage(toClient'[i], s)
      <4>1. CASE i = Len(toClient) + 1
          BY <4>1, <1>4, <3>2
      <4>2. CASE i # Len(toClient) + 1
        <5>1. i \in 1 .. Len(toClient)
            BY <4>2, <3>2
        <5> QED
            BY <5>1, <1>6, <3>2
      <4> QED
          BY <4>1, <4>2
    <3> QED
        BY <3>3
  <2> QED
      BY <2>1, <2>2
<1>8. Housed(view) /\ Taken(view, s)
    BY <1>2 DEF SoundInv, Taken
<1>9. /\ Housed(server') /\ Housed(view') /\ Taken(view', server')
      /\ \A i \in 1 .. Len(toClient') : SoundMessage(toClient'[i], server')
    BY <1>2, <1>7, <1>8
<1> QED
    BY <1>9, SoundNext

\* What the user does to the view.
LEMMA UserView ==
    ASSUME TypeInv, User
    PROVE  \/ view'.setting = view.setting /\ view'.member = view.member
           \/ \E g \in Groups, v \in Values : g \in GroupsOf(view) /\ view' = WithSetting(view, g, v)
           \/ \E c \in Clients : view' = Without(view, c)
<1>0. view \in States
    BY DEF TypeInv
<1>1. ASSUME NEW c \in Clients, NEW v \in Values, SetVolume(c, v)
      PROVE  view'.setting = view.setting /\ view'.member = view.member
  <2>1. view' = WithConfig(view, c, v) /\ v \in Configs
      BY <1>1, ValuesAreConfigs DEF SetVolume
  <2> QED
      BY <1>0, <2>1, WithConfigFacts
<1>2. ASSUME NEW g \in Groups, NEW v \in Values, SetGroup(g, v)
      PROVE  g \in GroupsOf(view) /\ view' = WithSetting(view, g, v)
    BY <1>2 DEF SetGroup
<1>3. ASSUME NEW c \in Clients, NEW g, MoveClient(c, g)
      PROVE  view' = view
    BY <1>3 DEF MoveClient
<1>4. ASSUME NEW c \in Clients, DeleteClient(c)
      PROVE  view' = Without(view, c)
    BY <1>4 DEF DeleteClient
<1>5. ASSUME NEW g \in Groups, GroupVolumeEnter(g)
      PROVE  view' = view
    BY <1>5 DEF GroupVolumeEnter
<1>6. ASSUME NEW g \in Groups,
             NEW percent \in Values \union (IF entered = None THEN {} ELSE {entered.volume}),
             SetGroupVolume(g, percent)
      PROVE  view'.setting = view.setting /\ view'.member = view.member
    BY <1>6, GroupVolumeFacts DEF GroupVolumes
<1> QED
    BY <1>1, <1>2, <1>3, <1>4, <1>5, <1>6 DEF User

\* So does what the user does.
LEMMA SoundUser ==
    ASSUME TypeInv, SoundInv, User
    PROVE  SoundInv'
<1>0. view \in States
    BY DEF TypeInv
<1>1. UNCHANGED <<server, toClient>>
    BY UserFacts
<1>2. ASSUME Housed(view'), Taken(view', server)
      PROVE  SoundInv'
  <2>1. /\ Housed(server') /\ Taken(view', server')
        /\ \A i \in 1 .. Len(toClient') : SoundMessage(toClient'[i], server')
      BY <1>1, <1>2 DEF SoundInv
  <2> QED
      BY <1>2, <2>1, SoundNext
<1>3. ASSUME NEW g \in Groups, NEW v \in Values, g \in GroupsOf(view),
             view' = WithSetting(view, g, v)
      PROVE  SoundInv'
  <2>1. Follows(view, WithSetting(view, g, v))
      BY <1>0, SettingFollows
  <2>2. Housed(view')
      BY <1>3, <2>1 DEF Follows, SoundInv
  <2>3. PICK c \in Clients : view.member[c] = g
      BY <1>0, <1>3, GroupFacts
  <2>4. view.setting[g] # None
    <3>1. Known(view, c)
        BY <2>3, ControlAssumption DEF Known
    <3> QED
        BY <2>3, <3>1 DEF SoundInv, Housed
  <2>5. view'.setting = [view.setting EXCEPT ![g] = v]
      BY <1>0, <1>3, WithSettingFacts
  <2>6. \A h \in Groups : h # g => view'.setting[h] = view.setting[h]
      BY <1>0, <2>5 DEF States
  <2>7. Taken(view', server)
      BY <2>4, <2>6 DEF Taken, SoundInv
  <2> QED
      BY <1>2, <2>2, <2>7
<1>4. ASSUME NEW c \in Clients, view' = Without(view, c)
      PROVE  SoundInv'
  <2>1. Follows(view, view') /\ view'.setting = view.setting
      BY <1>0, <1>4, WithoutFacts, WithoutFollows
  <2>2. Housed(view') /\ Taken(view', server)
      BY <2>1 DEF Follows, SoundInv, Taken
  <2> QED
      BY <1>2, <2>2
<1>5. CASE view'.setting = view.setting /\ view'.member = view.member
  <2>1. Housed(view') /\ Taken(view', server)
      BY <1>5 DEF SoundInv, Housed, Taken, Known
  <2> QED
      BY <1>2, <2>1
<1> QED
    BY <1>3, <1>4, <1>5, UserView

\* A sound change keeps a view sound.
LEMMA DidSound ==
    ASSUME NEW s \in States, NEW t, NEW a \in Changes, Housed(s), Taken(s, t), SoundChange(a, t)
    PROVE  Housed(Did(s, a)) /\ Taken(Did(s, a), t)
<1>1. CASE a.what = "update"
    BY <1>1, DidFacts DEF SoundChange
<1>2. CASE a.what = "config"
  <2> DEFINE c == a.target
             v == a.value
  <2>1. c \in Clients /\ v \in Configs /\ Did(s, a) = WithConfig(s, c, v)
      BY <1>2, ChangeFacts, DidFacts, ValuesAreConfigs
  <2> HIDE DEF c, v
  <2>2. /\ WithConfig(s, c, v).setting = s.setting
        /\ WithConfig(s, c, v).member = s.member
      BY <2>1, WithConfigFacts
  <2> QED
      BY <2>1, <2>2 DEF Housed, Taken, Known
<1>3. CASE a.what = "setting"
  <2> DEFINE g == a.target
             v == a.value
             u == WithSetting(s, g, v)
  <2>1. g \in Groups /\ v \in Values /\ Did(s, a) = u /\ t.setting[g] # None
      BY <1>3, ChangeFacts, DidFacts DEF SoundChange
  <2> HIDE DEF g, v
  <2>2. Follows(s, u) /\ u.setting = [s.setting EXCEPT ![g] = v]
      BY <2>1, SettingFollows, WithSettingFacts
  <2> HIDE DEF u
  <2>3. \A h \in Groups : h # g => u.setting[h] = s.setting[h]
      BY <2>2 DEF States
  <2> QED
      BY <2>1, <2>2, <2>3 DEF Follows, Taken
<1> QED
    BY <1>1, <1>2, <1>3, ChangeFacts

\* So does taking a message.
LEMMA SoundOnMessage ==
    ASSUME TypeInv, SoundInv, OnMessage
    PROVE  SoundInv'
<1>1. Receives
    BY DEF OnMessage, AdoptStatus, IgnoreAnswer, Notify
<1>2. toClient # <<>> /\ toClient' = Tail(toClient) /\ server' = server
    BY <1>1 DEF Receives
<1>3. toClient \in Seq(Messages)
    BY DEF TypeInv, Coming
<1>4. /\ Message = toClient[1] /\ Len(toClient) \in Nat /\ Len(toClient) >= 1
      /\ Len(toClient') = Len(toClient) - 1
      /\ \A i \in 1 .. Len(toClient) - 1 : toClient'[i] = toClient[i + 1]
    BY <1>2, <1>3, TailFacts DEF Message
<1>5. \A i \in 1 .. Len(toClient') : SoundMessage(toClient'[i], server')
    BY <1>2, <1>4 DEF SoundInv
<1>6. SoundMessage(Message, server)
    BY <1>4 DEF SoundInv
<1>7. view \in States /\ Housed(view) /\ Taken(view, server)
    BY DEF TypeInv, SoundInv
<1>8. Housed(view') /\ Taken(view', server)
  <2>1. CASE AdoptStatus
    <3>1. ~IsNote(Message)
        BY <2>1 DEF AdoptStatus, IsStatus, IsNote
    <3> QED
        BY <2>1, <3>1, <1>6, <1>7 DEF AdoptStatus, SoundMessage
  <2>2. CASE IgnoreAnswer
      BY <2>2, <1>7 DEF IgnoreAnswer
  <2>3. CASE Notify
    <3> DEFINE bs == Message.actions
               a == bs[1]
               b == bs[2]
               l == Len(bs)
    <3>1. /\ bs \in Seq(Changes) /\ a \in Changes /\ l >= 1
          /\ l = 2 => b \in Changes
          /\ \/ view' = view
             \/ view' = Did(view, a)
             \/ l = 2 /\ view' = Did(Did(view, a), b)
        BY <2>3, NotifyFacts, Zenon
    <3>2. IsNote(Message)
        BY <2>3 DEF Notify, IsNote
    <3>3. \A k \in 1 .. l : SoundChange(bs[k], server)
        BY <1>6, <3>1, <3>2 DEF SoundMessage
    <3> HIDE DEF l
    <3>4. SoundChange(a, server) /\ (l = 2 => SoundChange(b, server))
        BY <3>1, <3>3
    <3> HIDE DEF a, b
    <3>5. Did(view, a) \in States /\ Housed(Did(view, a)) /\ Taken(Did(view, a), server)
        BY <1>7, <3>1, <3>4, DidSound, DidType
    <3>6. l = 2 => Housed(Did(Did(view, a), b)) /\ Taken(Did(Did(view, a), b), server)
        BY <3>1, <3>4, <3>5, DidSound
    <3> QED
        BY <1>7, <3>1, <3>5, <3>6, Zenon
  <2> QED
      BY <2>1, <2>2, <2>3 DEF OnMessage
<1>9. /\ Housed(server') /\ Housed(view') /\ Taken(view', server')
      /\ \A i \in 1 .. Len(toClient') : SoundMessage(toClient'[i], server')
    BY <1>2, <1>5, <1>8 DEF SoundInv
<1> QED
    BY <1>9, SoundNext

\* So do opening, losing and closing the connection.
LEMMA SoundLink ==
    ASSUME TypeInv, SoundInv, Opened \/ Lose \/ Closed \/ Connect
    PROVE  SoundInv'
<1>1. UNCHANGED <<server, view>> /\ (toClient' = toClient \/ toClient' = <<>>)
    BY DEF Opened, Lose, Lost, Closed, Connect
<1>2. \A i \in 1 .. Len(toClient') : SoundMessage(toClient'[i], server)
    BY <1>1 DEF SoundInv
<1>3. /\ Housed(server') /\ Housed(view') /\ Taken(view', server')
      /\ \A i \in 1 .. Len(toClient') : SoundMessage(toClient'[i], server')
    BY <1>1, <1>2 DEF SoundInv
<1> QED
    BY <1>3, SoundNext

\* No group comes back: whatever id the view or a message has a setting for is
\* taken at the server.
THEOREM SoundInvariant == Spec => []SoundInv
<1>1. Init => SoundInv
  <2> SUFFICES ASSUME Init PROVE SoundInv
      OBVIOUS
  <2>1. Housed(server)
    <3>1. \A c \in Clients : server.member[c] = Home[c] /\ Home[c] \in Groups
        BY ControlAssumption DEF Init, Empty
    <3>2. \A c \in Clients : Home[c] \in Range(Home)
        BY ControlAssumption DEF Range
    <3>3. server.setting = [g \in Groups |-> IF g \in Range(Home) THEN 0 ELSE None]
        BY DEF Init, Empty
    <3>4. 0 # None
        BY ControlAssumption DEF Values
    <3> QED
        BY <3>1, <3>2, <3>3, <3>4 DEF Housed
  <2>2. Housed(view) /\ Taken(view, server)
      BY DEF Init, Empty, Housed, Taken, Known
  <2>3. toClient = <<>>
      BY DEF Init
  <2> QED
      BY <2>1, <2>2, <2>3 DEF SoundInv
<1>2. TypeInv /\ SoundInv /\ [Next]_vars => SoundInv'
  <2> SUFFICES ASSUME TypeInv, SoundInv, [Next]_vars
               PROVE  SoundInv'
      OBVIOUS
  <2>1. CASE Opened \/ Lose \/ Closed \/ Connect
      BY <2>1, SoundLink
  <2>2. CASE User
      BY <2>2, SoundUser
  <2>3. CASE ServerHandles
      BY <2>3, SoundServer
  <2>4. CASE Others
      BY <2>4, SoundOthers
  <2>5. CASE OnMessage
      BY <2>5, SoundOnMessage
  <2>6. CASE UNCHANGED vars
    <3>1. UNCHANGED <<server, view, toClient>>
        BY <2>6 DEF vars, link
    <3>2. /\ Housed(server') /\ Housed(view') /\ Taken(view', server')
          /\ \A i \in 1 .. Len(toClient') : SoundMessage(toClient'[i], server')
        BY <3>1 DEF SoundInv
    <3> QED
        BY <3>2, SoundNext
  <2> QED
      BY <2>1, <2>2, <2>3, <2>4, <2>5, <2>6 DEF Next
<1> QED
    BY <1>1, <1>2, TypeInvariant, PTL DEF Spec

----------------------------------------------------------------------------
(* What the last message about a field tells                               *)

\* Behind the k-th message, none writes a field, and none is about it.
Silent(ms, k, f) == \A i \in k + 1 .. Len(ms) : ~Writes(ms[i], f)
Unasked(ms, k, f) == \A i \in k + 1 .. Len(ms) : ~Asks(ms[i], f)

\* What a message tells of a field: a notification of its changes, the answer
\* that will be adopted of everything.
Tells(m, f, v, id) ==
    IF IsNote(m)
    THEN \E i \in DOMAIN m.actions : Sets(m.actions[i], f) /\ v = Given(m.actions[i], f)
    ELSE m.id = id /\ m.result # None /\ v = Val(m.result, f)

\* The last message about a field tells what the server has, unless a request
\* about it comes after.
Latest(s, ts, ms, id) ==
    \A i \in 1 .. Len(ms) : \A f \in Fields :
        Silent(ms, i, f) /\ Unasked(ts, 0, f) /\ Unasked(ms, i, f)
            => \A v : Tells(ms[i], f, v, id) => Same(s, v, f)

LatestInv == Latest(server, toServer, toClient, statusReq)

\* A request does nothing to the fields that it is not about.
LEMMA AppliedFields ==
    ASSUME NEW s \in States, NEW r \in Requests,
           r.method = "clients" /\ ~Refused(s, r) => IdsLeft(s, r.target, r.value)
    PROVE  LET t == Applied(s, r)
           IN  /\ \A c \in Clients : (r.method = "config" /\ r.target = c) \/ t.config[c] = s.config[c]
               /\ \A g \in Groups :
                     \/ r.method = "setting" /\ r.target = g
                     \/ s.setting[g] # None => t.setting[g] = s.setting[g]
               /\ r.method \notin {"clients", "delete"} => t.member = s.member
<1> DEFINE t == Applied(s, r)
<1>1. CASE Refused(s, r) \/ r.method = "status"
  <2>1. t = s
      BY <1>1, AppliedFacts
  <2> HIDE DEF t
  <2> QED
      BY <2>1 DEF t
<1>2. CASE ~Refused(s, r) /\ r.method = "config"
  <2> DEFINE c == r.target
             v == r.value
  <2>1. c \in Clients /\ v \in Configs /\ t = WithConfig(s, c, v)
      BY <1>2, RequestFacts, AppliedFacts
  <2> HIDE DEF t, v
  <2>2. t.config = [s.config EXCEPT ![c] = v] /\ t.setting = s.setting /\ t.member = s.member
      BY <2>1, WithConfigFacts
  <2>3. \A d \in Clients : d # c => t.config[d] = s.config[d]
      BY <2>2 DEF States
  <2> QED
      BY <1>2, <2>2, <2>3 DEF t
<1>3. CASE ~Refused(s, r) /\ r.method = "setting"
  <2> DEFINE g == r.target
             v == r.value
  <2>1. g \in Groups /\ v \in Values /\ t = WithSetting(s, g, v)
      BY <1>3, RequestFacts, AppliedFacts
  <2> HIDE DEF t, v
  <2>2. t.setting = [s.setting EXCEPT ![g] = v] /\ t.config = s.config /\ t.member = s.member
      BY <2>1, WithSettingFacts
  <2>3. \A h \in Groups : h # g => t.setting[h] = s.setting[h]
      BY <2>2 DEF States
  <2> QED
      BY <1>3, <2>2, <2>3 DEF t
<1>4. CASE ~Refused(s, r) /\ r.method = "clients"
  <2>1. /\ r.target \in Groups /\ t = Regrouped(s, r.target, r.value)
        /\ NewGroups(s, r.target, r.value) # {}
      BY <1>4, RequestFacts, AppliedFacts DEF IdsLeft
  <2> HIDE DEF t
  <2>2. /\ t.config = s.config
        /\ \A g \in Groups : s.setting[g] # None => t.setting[g] = s.setting[g]
      BY <2>1, RegroupedFacts
  <2> QED
      BY <1>4, <2>2 DEF t
<1>5. CASE ~Refused(s, r) /\ r.method = "delete"
  <2>1. r.target \in Clients /\ t = Without(s, r.target)
      BY <1>5, RequestFacts, AppliedFacts
  <2> HIDE DEF t
  <2>2. t.config = s.config /\ t.setting = s.setting
      BY <2>1, WithoutFacts
  <2> QED
      BY <1>5, <2>2 DEF t
<1> QED
    BY <1>1, <1>2, <1>3, <1>4, <1>5, RequestFacts

\* A value that the server has remains its value when it handles a request about
\* something else.
LEMMA ServerKeeps ==
    ASSUME NEW s \in States, NEW r \in Requests,
           r.method = "clients" /\ ~Refused(s, r) => IdsLeft(s, r.target, r.value),
           NEW f \in Fields, ~Asks(r, f), NEW v, Same(s, v, f),
           f[1] = "setting" /\ v # None => s.setting[f[2]] # None
    PROVE  Same(Applied(s, r), v, f)
<1> DEFINE t == Applied(s, r)
<1>1. /\ \A c \in Clients : (r.method = "config" /\ r.target = c) \/ t.config[c] = s.config[c]
      /\ \A g \in Groups :
            \/ r.method = "setting" /\ r.target = g
            \/ s.setting[g] # None => t.setting[g] = s.setting[g]
      /\ r.method \notin {"clients", "delete"} => t.member = s.member
    BY AppliedFields
<1>2. Follows(s, t)
    BY AppliedFollows
<1>3. t = Applied(s, r)
    OBVIOUS
<1> HIDE DEF t
<1>4. CASE f[1] = "config" /\ f[2] \in Clients /\ f = <<"config", f[2]>>
  <2> DEFINE c == f[2]
  <2>1. c \in Clients /\ f = <<"config", c>>
      BY <1>4
  <2> HIDE DEF c
  <2>2. ~(r.method = "config" /\ r.target = c)
      BY <2>1, FieldFacts DEF Asks
  <2>3. t.config[c] = s.config[c] /\ (Known(t, c) => Known(s, c))
      BY <1>1, <1>2, <2>1, <2>2 DEF Follows
  <2>4. Same(s, v, <<"config", c>>)
      BY <2>1
  <2>5. Same(t, v, <<"config", c>>)
      BY <2>3, <2>4 DEF Same
  <2> QED
      BY <1>3, <2>1, <2>5
<1>5. CASE f[1] = "setting" /\ f[2] \in Groups /\ f = <<"setting", f[2]>>
  <2> DEFINE g == f[2]
  <2>1. g \in Groups /\ f = <<"setting", g>> /\ (v # None => s.setting[g] # None)
      BY <1>5
  <2> HIDE DEF g
  <2>2. ~(r.method = "setting" /\ r.target = g)
      BY <2>1, FieldFacts DEF Asks
  <2>3. s.setting[g] # None
            => t.setting[g] = s.setting[g] /\ (g \in GroupsOf(t) => g \in GroupsOf(s))
      BY <1>1, <1>2, <2>1, <2>2 DEF Follows
  <2>4. g \in GroupsOf(s) /\ v # None => v = s.setting[g]
      BY <2>1, ValFacts
  <2>5. Same(t, v, <<"setting", g>>)
      BY <2>1, <2>3, <2>4, ValFacts
  <2> QED
      BY <1>3, <2>1, <2>5
<1>6. CASE f = MemberField
  <2>1. r.method \notin {"clients", "delete"}
      BY <1>6, FieldFacts DEF Asks
  <2>2. v = s.member
      BY <1>6, ValFacts
  <2>3. Same(t, v, MemberField)
      BY <1>1, <2>1, <2>2, ValFacts
  <2> QED
      BY <1>3, <1>6, <2>3
<1> QED
    BY <1>4, <1>5, <1>6, FieldKinds

\* What a message tells of a group is about an id that is taken.
LEMMA TellsSound ==
    ASSUME NEW m \in Messages, NEW t, SoundMessage(m, t), NEW f \in Fields, NEW v, NEW id,
           Tells(m, f, v, id), f[1] = "setting", v # None
    PROVE  t.setting[f[2]] # None
<1> DEFINE g == f[2]
<1>1. g \in Groups /\ f = <<"setting", g>>
    BY FieldKinds
<1> HIDE DEF g
<1>2. CASE IsNote(m)
  <2>1. PICK i \in DOMAIN m.actions : Sets(m.actions[i], f) /\ v = Given(m.actions[i], f)
      BY <1>2 DEF Tells
  <2> DEFINE a == m.actions[i]
  <2>2. a \in Changes /\ SoundChange(a, t) /\ Sets(a, f) /\ v = Given(a, f)
      BY <1>2, <2>1, MessageFacts DEF SoundMessage
  <2> HIDE DEF a
  <2>3. CASE a.what = "update"
    <3>1. v = a.value.setting[g]
        BY <1>1, <2>2, <2>3, ValFacts DEF Given
    <3> QED
        BY <1>1, <2>2, <2>3, <3>1 DEF SoundChange, Taken, g
  <2>4. CASE a.what = "setting"
    <3>1. f = <<"setting", a.target>>
        BY <2>2, <2>4, SetsFacts
    <3>2. g = a.target
        BY <1>1, <3>1
    <3> QED
        BY <2>2, <2>4, <3>2 DEF SoundChange, g
  <2>5. CASE a.what = "config"
    <3>1. f = <<"config", a.target>>
        BY <2>2, <2>5, SetsFacts
    <3> QED
        BY <3>1
  <2> QED
      BY <2>2, <2>3, <2>4, <2>5, ChangeFacts
<1>3. CASE ~IsNote(m)
  <2>1. m.result # None /\ v = m.result.setting[g]
      BY <1>1, <1>3, ValFacts DEF Tells
  <2> QED
      BY <1>1, <1>3, <2>1 DEF SoundMessage, Taken, g
<1> QED
    BY <1>2, <1>3

\* The invariant after a step, from the values after it.
LEMMA LatestNext ==
    ASSUME Latest(server', toServer', toClient', statusReq')
    PROVE  LatestInv'
BY DEF LatestInv, Latest, Silent, Unasked, Tells, Same, Writes, Sets, Given, Val, Asks, Field,
       IsNote, Known, GroupsOf, MemberField

\* Messages at the ends of a queue.
LEMMA QuietTail ==
    ASSUME NEW S, NEW ms \in Seq(S), ms # <<>>, NEW f, NEW k \in 0 .. Len(ms) - 1
    PROVE  /\ Silent(Tail(ms), k, f) <=> Silent(ms, k + 1, f)
           /\ Unasked(Tail(ms), k, f) <=> Unasked(ms, k + 1, f)
<1> DEFINE tl == Tail(ms)
           n == Len(ms)
<1>1. /\ n \in Nat /\ n >= 1 /\ Len(tl) = n - 1
      /\ \A i \in 1 .. n - 1 : tl[i] = ms[i + 1]
    BY TailFacts
<1> HIDE DEF tl
<1>2. /\ \A i \in k + 1 .. Len(tl) : i \in 1 .. n - 1 /\ i + 1 \in k + 2 .. n
      /\ \A j \in k + 2 .. n : j - 1 \in k + 1 .. Len(tl) /\ ms[j] = tl[j - 1]
      /\ k + 1 + 1 = k + 2
    BY <1>1
<1> QED
    BY <1>1, <1>2 DEF Silent, Unasked

\* ... the first one and those behind it,
LEMMA QuietFirst ==
    ASSUME NEW S, NEW ms \in Seq(S), ms # <<>>, NEW f
    PROVE  /\ Silent(ms, 0, f) <=> ~Writes(ms[1], f) /\ Silent(ms, 1, f)
           /\ Unasked(ms, 0, f) <=> ~Asks(ms[1], f) /\ Unasked(ms, 1, f)
<1>1. Len(ms) \in Nat /\ Len(ms) >= 1
    BY TailFacts
<1>2. /\ 1 \in 0 + 1 .. Len(ms) /\ 1 + 1 .. Len(ms) \subseteq 0 + 1 .. Len(ms)
      /\ \A i \in 0 + 1 .. Len(ms) : i = 1 \/ i \in 1 + 1 .. Len(ms)
    BY <1>1
<1> QED
    BY <1>2 DEF Silent, Unasked

\* ... one more behind them,
LEMMA QuietAppend ==
    ASSUME NEW S, NEW ms \in Seq(S), NEW m \in S, NEW f, NEW k \in 0 .. Len(ms)
    PROVE  /\ Silent(Append(ms, m), k, f) <=> Silent(ms, k, f) /\ ~Writes(m, f)
           /\ Unasked(Append(ms, m), k, f) <=> Unasked(ms, k, f) /\ ~Asks(m, f)
<1> DEFINE ap == Append(ms, m)
           n == Len(ms)
<1>1. /\ n \in Nat /\ Len(ap) = n + 1 /\ ap[n + 1] = m
      /\ \A i \in 1 .. n : ap[i] = ms[i]
    BY AppendFacts
<1> HIDE DEF ap
<1>2. /\ \A i \in k + 1 .. n : i \in 1 .. n /\ i \in k + 1 .. Len(ap)
      /\ \A i \in k + 1 .. Len(ap) : i = n + 1 \/ i \in k + 1 .. n
      /\ n + 1 \in k + 1 .. Len(ap)
    BY <1>1
<1> QED
    BY <1>1, <1>2 DEF Silent, Unasked

\* ... several more behind them.
LEMMA QuietConcat ==
    ASSUME NEW S, NEW ms \in Seq(S), NEW ns \in Seq(S), NEW f, NEW k \in 0 .. Len(ms)
    PROVE  Unasked(ms \o ns, k, f) <=> Unasked(ms, k, f) /\ Unasked(ns, 0, f)
<1> DEFINE cat == ms \o ns
           n == Len(ms)
           l == Len(ns)
<1>1. /\ n \in Nat /\ l \in Nat /\ Len(cat) = n + l
      /\ \A i \in 1 .. n : cat[i] = ms[i]
      /\ \A i \in n + 1 .. n + l : cat[i] = ns[i - n]
    BY ConcatFacts
<1> HIDE DEF cat
<1>2. ASSUME Unasked(cat, k, f)
      PROVE  Unasked(ms, k, f) /\ Unasked(ns, 0, f)
  <2>1. ASSUME NEW i \in k + 1 .. n
        PROVE  ~Asks(ms[i], f)
    <3>1. i \in 1 .. n /\ i \in k + 1 .. Len(cat)
        BY <1>1
    <3> QED
        BY <1>1, <1>2, <3>1 DEF Unasked
  <2>2. ASSUME NEW i \in 0 + 1 .. l
        PROVE  ~Asks(ns[i], f)
    <3>1. i + n \in n + 1 .. n + l /\ i + n \in k + 1 .. Len(cat) /\ i + n - n = i
        BY <1>1
    <3>2. cat[i + n] = ns[i]
        BY <1>1, <3>1
    <3> QED
        BY <1>2, <3>1, <3>2 DEF Unasked
  <2> QED
      BY <2>1, <2>2 DEF Unasked
<1>3. ASSUME Unasked(ms, k, f), Unasked(ns, 0, f)
      PROVE  Unasked(cat, k, f)
  <2>1. \A i \in k + 1 .. Len(cat) :
            \/ i \in k + 1 .. n /\ i \in 1 .. n
            \/ i \in n + 1 .. n + l /\ i - n \in 0 + 1 .. l
      BY <1>1
  <2> QED
      BY <1>1, <1>3, <2>1 DEF Unasked
<1> QED
    BY <1>2, <1>3 DEF cat

\* An answer with a status tells what the server has just then.
LEMMA LatestServer ==
    ASSUME TypeInv, SoundInv, LatestInv, ServerHandles
    PROVE  LatestInv'
<1>1. PICK r, m : Handles(r, m)
    BY ServerFacts
<1> DEFINE n == Len(toClient)
<1>2. /\ toServer # <<>> /\ r = Head(toServer) /\ r \in Requests
      /\ r.method = "clients" /\ ~Refused(server, r) => IdsLeft(server, r.target, r.value)
      /\ server' = Applied(server, r) /\ m \in Messages /\ ~IsNote(m)
      /\ m.method = r.method /\ m.target = r.target
      /\ m.result # None => m.result = server'
      /\ toServer' = Tail(toServer) /\ toClient' = Append(toClient, m)
      /\ statusReq' = statusReq
    BY <1>1 DEF Handles
<1>3. /\ server \in States /\ toServer \in Seq(Requests) /\ toClient \in Seq(Messages)
      /\ n \in Nat
    BY DEF TypeInv, Sending, Coming
<1>4. r = toServer[1] /\ Len(toServer) \in Nat /\ Len(toServer) >= 1
    BY <1>2, <1>3, TailFacts
<1>5. /\ Len(toClient') = n + 1 /\ toClient'[n + 1] = m
      /\ \A i \in 1 .. n : toClient'[i] = toClient[i]
    BY <1>2, <1>3, AppendFacts
<1>6. ASSUME NEW i \in 1 .. n, NEW f \in Fields,
             Silent(toClient', i, f), Unasked(toServer', 0, f), Unasked(toClient', i, f),
             NEW v, Tells(toClient'[i], f, v, statusReq')
      PROVE  Same(server', v, f)
  <2>1. Silent(toClient, i, f) /\ Unasked(toClient, i, f) /\ ~Asks(m, f)
      BY <1>2, <1>3, <1>6, QuietAppend
  <2>2. ~Asks(r, f)
      BY <1>2, <2>1 DEF Asks
  <2>3. Unasked(toServer, 1, f)
    <3>1. Unasked(Tail(toServer), 0, f) <=> Unasked(toServer, 0 + 1, f)
        BY <1>2, <1>3, <1>4, QuietTail
    <3> QED
        BY <1>2, <1>6, <3>1
  <2>4. Unasked(toServer, 0, f)
      BY <1>2, <1>3, <1>4, <2>2, <2>3, QuietFirst
  <2>5. Tells(toClient[i], f, v, statusReq) /\ toClient[i] \in Messages
      BY <1>2, <1>3, <1>5, <1>6
  <2>6. Same(server, v, f)
      BY <2>1, <2>4, <2>5 DEF LatestInv, Latest
  <2>7. SoundMessage(toClient[i], server)
      BY DEF SoundInv
  <2>8. f[1] = "setting" /\ v # None => server.setting[f[2]] # None
      BY <2>5, <2>7, TellsSound
  <2> QED
      BY <1>2, <1>3, <2>2, <2>6, <2>8, ServerKeeps
<1>7. ASSUME NEW f, NEW v, Tells(m, f, v, statusReq')
      PROVE  Same(server', v, f)
  <2>1. v = Val(server', f)
      BY <1>2, <1>7 DEF Tells
  <2> QED
      BY <2>1, SameVal
<1>8. \A i \in 1 .. Len(toClient') : i \in 1 .. n \/ toClient'[i] = m
    BY <1>3, <1>5
<1>9. Latest(server', toServer', toClient', statusReq')
    BY <1>6, <1>7, <1>8 DEF Latest
<1> QED
    BY <1>9, LatestNext

\* A notification tells what the server has just then.
LEMMA LatestOthers ==
    ASSUME TypeInv, LatestInv, Others
    PROVE  LatestInv'
<1>1. PICK s \in States, bs \in Seq(Changes) : Announces(s, bs)
    BY OthersFacts
<1> DEFINE m == Notification(bs)
           n == Len(toClient)
<1>2. /\ IsBatch(bs) /\ Leads(server, m, s) /\ server' = s
      /\ toClient' = IF readyState = "open" THEN Append(toClient, m) ELSE toClient
      /\ UNCHANGED <<toServer, statusReq>>
    BY <1>1 DEF Announces, Notified
<1>3. /\ server \in States /\ toClient \in Seq(Messages) /\ n \in Nat
      /\ readyState # "open" => n = 0
    BY DEF TypeInv, Coming
<1>4. \A f \in Fields :
          /\ \A i \in DOMAIN bs : Sets(bs[i], f) => Val(s, f) = Given(bs[i], f)
          /\ (\A i \in DOMAIN bs : ~Sets(bs[i], f))
                => s.member = server.member /\ Val(s, f) = Val(server, f)
    BY <1>2, <1>3, LeadsField
<1>5. m \in Messages /\ IsNote(m) /\ m.actions = bs
    BY NotificationFacts
<1> HIDE DEF m
<1>6. CASE readyState # "open"
  <2>1. Len(toClient') = 0
      BY <1>2, <1>3, <1>6
  <2>2. Latest(server', toServer', toClient', statusReq')
      BY <2>1 DEF Latest
  <2> QED
      BY <2>2, LatestNext
<1>7. CASE readyState = "open"
  <2>1. toClient' = Append(toClient, m)
      BY <1>2, <1>7
  <2>2. /\ Len(toClient') = n + 1 /\ toClient'[n + 1] = m
        /\ \A i \in 1 .. n : toClient'[i] = toClient[i]
      BY <1>3, <1>5, <2>1, AppendFacts
  <2>3. ASSUME NEW i \in 1 .. n, NEW f \in Fields,
               Silent(toClient', i, f), Unasked(toServer', 0, f), Unasked(toClient', i, f),
               NEW v, Tells(toClient'[i], f, v, statusReq')
        PROVE  Same(server', v, f)
    <3>1. Silent(toClient, i, f) /\ Unasked(toClient, i, f) /\ ~Writes(m, f)
        BY <1>3, <1>5, <2>1, <2>3, QuietAppend
    <3>2. Same(server, v, f)
        BY <1>2, <2>2, <2>3, <3>1 DEF LatestInv, Latest
    <3>3. s.member = server.member /\ Val(s, f) = Val(server, f)
        BY <1>4, <1>5, <3>1 DEF Writes
    <3> QED
        BY <1>2, <1>3, <3>2, <3>3, SameIn
  <2>4. ASSUME NEW f \in Fields, NEW v, Tells(m, f, v, statusReq')
        PROVE  Same(server', v, f)
    <3>1. v = Val(s, f)
        BY <1>4, <1>5, <2>4 DEF Tells
    <3> QED
        BY <1>2, <3>1, SameVal
  <2>5. \A i \in 1 .. Len(toClient') : i \in 1 .. n \/ toClient'[i] = m
      BY <1>3, <2>2
  <2>6. Latest(server', toServer', toClient', statusReq')
      BY <2>3, <2>4, <2>5 DEF Latest
  <2> QED
      BY <2>6, LatestNext
<1> QED
    BY <1>6, <1>7

\* Taking the first message leaves the others behind each other.
LEMMA LatestOnMessage ==
    ASSUME TypeInv, LatestInv, OnMessage
    PROVE  LatestInv'
<1>1. Receives
    BY DEF OnMessage, AdoptStatus, IgnoreAnswer, Notify
<1>2. /\ toClient # <<>> /\ toClient' = Tail(toClient)
      /\ UNCHANGED <<server, toServer, statusReq>>
    BY <1>1 DEF Receives
<1> DEFINE n == Len(toClient)
<1>3. toClient \in Seq(Messages)
    BY DEF TypeInv, Coming
<1>4. /\ n \in Nat /\ n >= 1 /\ Len(toClient') = n - 1
      /\ \A i \in 1 .. n - 1 : toClient'[i] = toClient[i + 1]
    BY <1>2, <1>3, TailFacts
<1>5. ASSUME NEW i \in 1 .. Len(toClient'), NEW f \in Fields,
             Silent(toClient', i, f), Unasked(toServer', 0, f), Unasked(toClient', i, f),
             NEW v, Tells(toClient'[i], f, v, statusReq')
      PROVE  Same(server', v, f)
  <2>1. i \in 0 .. n - 1 /\ i \in 1 .. n - 1 /\ i + 1 \in 1 .. n
      BY <1>4
  <2>2. Silent(toClient, i + 1, f) /\ Unasked(toClient, i + 1, f)
      BY <1>2, <1>3, <1>5, <2>1, QuietTail
  <2>3. Tells(toClient[i + 1], f, v, statusReq)
      BY <1>2, <1>4, <1>5, <2>1
  <2> QED
      BY <1>2, <1>5, <2>1, <2>2, <2>3 DEF LatestInv, Latest
<1>6. Latest(server', toServer', toClient', statusReq')
    BY <1>5 DEF Latest
<1> QED
    BY <1>6, LatestNext

\* No message is under way when the connection opens, or is gone.
LEMMA LatestLink ==
    ASSUME TypeInv, Opened \/ Lose \/ Closed \/ Connect
    PROVE  LatestInv'
<1>1. Len(toClient') = 0
    BY DEF Opened, Lose, Lost, Closed, Connect, TypeInv
<1>2. Latest(server', toServer', toClient', statusReq')
    BY <1>1 DEF Latest
<1> QED
    BY <1>2, LatestNext

----------------------------------------------------------------------------
(* What the user sends                                                     *)

\* Clients that requests delete, and the members when they have been deleted.
Gone(ts, c) == \E i \in 1 .. Len(ts) : ts[i].method = "delete" /\ ts[i].target = c
Left(member, ts) == [c \in Clients |-> IF Gone(ts, c) THEN None ELSE member[c]]

\* Requests under way, and what the view and the fields that are suspect have to
\* do with them.  Only over an open connection is the view sure to have what
\* the requests say.
UserSends(rs) ==
    /\ rs \in Seq(Requests) /\ Send(rs)
    /\ \A i \in 1 .. Len(rs) : rs[i].id = msgId + i
    /\ statusReq' = statusReq \/ (Len(rs) = 1 /\ statusReq' = msgId + 1)
    /\ view'.member = Left(view.member, rs)
    /\ MemberField \in suspect => MemberField \in suspect'
    /\ \A f \in Fields \ {MemberField} :
          IF Unasked(rs, 0, f)
          THEN Val(view', f) = Val(view, f) /\ (f \in suspect => f \in suspect')
          ELSE readyState = "open" /\ f \notin suspect' =>
                  \A i \in 1 .. Len(rs) :
                      Asks(rs[i], f) => rs[i].value = Val(view', f) /\ rs[i].value # NaN

\* One request.
LEMMA OneRequest ==
    ASSUME NEW r \in Requests
    PROVE  /\ <<r>> \in Seq(Requests) /\ Len(<<r>>) = 1 /\ \A i \in 1 .. 1 : <<r>>[i] = r
           /\ \A f : Unasked(<<r>>, 0, f) <=> ~Asks(r, f)
           /\ \A c : Gone(<<r>>, c) <=> r.method = "delete" /\ r.target = c
<1> DEFINE rs == <<r>>
<1>1. rs \in Seq(Requests) /\ Len(rs) = 1 /\ \A i \in 1 .. 1 : rs[i] = r
    OBVIOUS
<1> HIDE DEF rs
<1>2. 0 + 1 .. Len(rs) = 1 .. 1 /\ 1 .. Len(rs) = 1 .. 1 /\ 1 \in 1 .. 1
    BY <1>1
<1>3. \A f : Unasked(rs, 0, f) <=> ~Asks(r, f)
    BY <1>1, <1>2 DEF Unasked
<1>4. \A c : Gone(rs, c) <=> r.method = "delete" /\ r.target = c
    BY <1>1, <1>2 DEF Gone
<1> QED
    BY <1>1, <1>3, <1>4 DEF rs

\* Nobody is deleted.
LEMMA NoneGone ==
    ASSUME NEW s \in States, NEW ts, \A c : ~Gone(ts, c)
    PROVE  Left(s.member, ts) = s.member
BY DEF Left, States

\* A request sets one field, or moves a client, or deletes one.
LEMMA SendsOne ==
    ASSUME TypeInv, NEW r \in Requests, r.id = msgId + 1, Send(<<r>>),
           statusReq' \in {statusReq, msgId + 1},
           view'.member = IF r.method = "delete"
                          THEN [view.member EXCEPT ![r.target] = None] ELSE view.member,
           MemberField \in suspect => MemberField \in suspect',
           \A f \in Fields \ {MemberField} :
              IF ~Asks(r, f)
              THEN Val(view', f) = Val(view, f) /\ (f \in suspect => f \in suspect')
              ELSE r.value = Val(view', f) /\ r.value # NaN
    PROVE  \E rs : UserSends(rs)
<1> DEFINE rs == <<r>>
<1>1. /\ rs \in Seq(Requests) /\ Len(rs) = 1 /\ (\A i \in 1 .. 1 : rs[i] = r) /\ Send(rs)
      /\ \A f : Unasked(rs, 0, f) <=> ~Asks(r, f)
      /\ \A c : Gone(rs, c) <=> r.method = "delete" /\ r.target = c
    BY OneRequest
<1> HIDE DEF rs
<1>2. /\ \A i \in 1 .. Len(rs) : rs[i].id = msgId + i
      /\ statusReq' = statusReq \/ (Len(rs) = 1 /\ statusReq' = msgId + 1)
    BY <1>1
<1>3. view'.member = Left(view.member, rs)
  <2>1. view \in States /\ view.member = [c \in Clients |-> view.member[c]]
      BY DEF TypeInv, States
  <2>2. CASE r.method = "delete"
    <3>1. view'.member = [view.member EXCEPT ![r.target] = None]
        BY <2>2
    <3>2. view'.member = [c \in Clients |-> IF r.target = c THEN None ELSE view.member[c]]
        BY <2>1, <3>1
    <3> QED
        BY <1>1, <2>2, <3>2 DEF Left
  <2>3. CASE r.method # "delete"
      BY <1>1, <2>1, <2>3, NoneGone
  <2> QED
      BY <2>2, <2>3
<1>4. ASSUME NEW f \in Fields \ {MemberField}
      PROVE  IF Unasked(rs, 0, f)
             THEN Val(view', f) = Val(view, f) /\ (f \in suspect => f \in suspect')
             ELSE readyState = "open" /\ f \notin suspect' =>
                     \A i \in 1 .. Len(rs) :
                         Asks(rs[i], f) => rs[i].value = Val(view', f) /\ rs[i].value # NaN
  <2>1. CASE Asks(r, f)
      BY <1>1, <2>1
  <2>2. CASE ~Asks(r, f)
      BY <1>1, <2>2
  <2> QED
      BY <2>1, <2>2
<1>5. UserSends(rs)
    BY <1>1, <1>2, <1>3, <1>4 DEF UserSends
<1> QED
    BY <1>5

\* A request for the setting of a client or of a group is about that field.
LEMMA AsksFacts ==
    ASSUME NEW r, NEW f \in Fields
    PROVE  /\ r.method = "config" => (Asks(r, f) <=> f = <<"config", r.target>>)
           /\ r.method = "setting" => (Asks(r, f) <=> f = <<"setting", r.target>>)
           /\ r.method \in {"clients", "delete"} => (Asks(r, f) <=> f = MemberField)
<1>1. /\ Field("config", r.target) = <<"config", r.target>>
      /\ Field("setting", r.target) = <<"setting", r.target>>
      /\ Field("clients", r.target) = MemberField /\ Field("delete", r.target) = MemberField
    BY FieldFacts
<1>2. CASE r.method = "config"
    BY <1>1, <1>2 DEF Asks
<1>3. CASE r.method = "setting"
    BY <1>1, <1>3 DEF Asks
<1>4. CASE r.method \in {"clients", "delete"}
    BY <1>1, <1>4 DEF Asks
<1> QED
    BY <1>2, <1>3, <1>4

\* What a state keeps when one setting is changed.
LEMMA ConfigChanged ==
    ASSUME NEW s \in States, NEW t, NEW c \in Clients, NEW v,
           t.member = s.member, t.setting = s.setting, t.config = [s.config EXCEPT ![c] = v]
    PROVE  /\ Val(t, <<"config", c>>) = v
           /\ \A f \in Fields : f # <<"config", c>> => Val(t, f) = Val(s, f)
<1>1. t.config[c] = v /\ \A d \in Clients : d # c => t.config[d] = s.config[d]
    BY DEF States
<1>2. ASSUME NEW f \in Fields, f # <<"config", c>>
      PROVE  Val(t, f) = Val(s, f)
  <2>1. CASE f[1] = "config" /\ f[2] \in Clients /\ f = <<"config", f[2]>>
    <3>1. f[2] # c
        BY <1>2, <2>1
    <3> QED
        BY <1>1, <2>1, <3>1 DEF Val
  <2>2. CASE f[1] = "setting"
      BY <2>2 DEF Val
  <2>3. CASE f[1] = "member"
      BY <2>3 DEF Val
  <2> QED
      BY <2>1, <2>2, <2>3, FieldKinds
<1>3. Val(t, <<"config", c>>) = t.config[c]
    BY DEF Val
<1> QED
    BY <1>1, <1>2, <1>3

\* The same of a group.
LEMMA SettingChanged ==
    ASSUME NEW s \in States, NEW t, NEW g \in Groups, NEW v,
           t.member = s.member, t.config = s.config, t.setting = [s.setting EXCEPT ![g] = v]
    PROVE  /\ Val(t, <<"setting", g>>) = v
           /\ \A f \in Fields : f # <<"setting", g>> => Val(t, f) = Val(s, f)
<1>1. t.setting[g] = v /\ \A h \in Groups : h # g => t.setting[h] = s.setting[h]
    BY DEF States
<1>2. ASSUME NEW f \in Fields, f # <<"setting", g>>
      PROVE  Val(t, f) = Val(s, f)
  <2>1. CASE f[1] = "setting" /\ f[2] \in Groups /\ f = <<"setting", f[2]>>
    <3>1. f[2] # g
        BY <1>2, <2>1
    <3> QED
        BY <1>1, <2>1, <3>1 DEF Val
  <2>2. CASE f[1] = "config"
      BY <2>2 DEF Val
  <2>3. CASE f[1] = "member"
      BY <2>3 DEF Val
  <2> QED
      BY <2>1, <2>2, <2>3, FieldKinds
<1>3. Val(t, <<"setting", g>>) = t.setting[g]
    BY DEF Val
<1> QED
    BY <1>1, <1>2, <1>3

\* setGroupVolume() sends the volumes that the view gets.
LEMMA VolumesSent ==
    ASSUME TypeInv, NEW cs, NEW vol, NEW done, GroupVolumes(cs, vol, done),
           statusReq' = statusReq
    PROVE  \E rs : UserSends(rs)
<1> DEFINE rs == [i \in 1 .. Len(cs) |-> Request(msgId + i, "config", cs[i], vol[cs[i]])]
           n == Len(cs)
<1>1. /\ cs \in Seq(Clients) /\ vol \in [Clients -> Configs] /\ done \subseteq DOMAIN cs
      /\ readyState # "connecting" => done = DOMAIN cs
      /\ view'.setting = view.setting /\ view'.member = view.member
      /\ view'.config =
            [c \in Clients |-> IF \E i \in done : cs[i] = c THEN vol[c] ELSE view.config[c]]
      /\ suspect' = (suspect \ {<<"config", c>> : c \in Range(cs)})
                       \union {<<"config", c>> : c \in {x \in Range(cs) : vol[x] = NaN}}
      /\ Send(rs)
    BY DEF GroupVolumes
<1>2. msgId \in Nat /\ view \in States
    BY DEF TypeInv
<1>3. /\ n \in Nat /\ DOMAIN cs = 1 .. n /\ \A i \in 1 .. n : cs[i] \in Clients
      /\ Range(cs) \subseteq Clients /\ \A i \in 1 .. n : cs[i] \in Range(cs)
    BY <1>1 DEF Range
<1>4. \A i \in 1 .. n :
          /\ rs[i] \in Requests /\ rs[i].id = msgId + i
          /\ rs[i].method = "config" /\ rs[i].target = cs[i] /\ rs[i].value = vol[cs[i]]
    BY <1>1, <1>2, <1>3, RequestType
<1>5. rs \in [1 .. n -> Requests]
    BY <1>4
<1> HIDE DEF rs
<1>6. rs \in Seq(Requests) /\ Len(rs) = n
    BY <1>3, <1>5
<1> HIDE DEF n
<1>7. \A f \in Fields, i \in 1 .. n : Asks(rs[i], f) <=> f = <<"config", cs[i]>>
    BY <1>4, AsksFacts
<1>8. view'.member = Left(view.member, rs)
  <2>1. \A c : ~Gone(rs, c)
      BY <1>4, <1>6 DEF Gone
  <2> QED
      BY <1>1, <1>2, <2>1, NoneGone
<1>9. MemberField \in suspect => MemberField \in suspect'
  <2>1. \A c : <<"config", c>> # MemberField
      BY DEF MemberField
  <2> QED
      BY <1>1, <2>1
<1>10. ASSUME NEW f \in Fields \ {MemberField}
       PROVE  IF Unasked(rs, 0, f)
              THEN Val(view', f) = Val(view, f) /\ (f \in suspect => f \in suspect')
              ELSE readyState = "open" /\ f \notin suspect' =>
                      \A i \in 1 .. Len(rs) :
                          Asks(rs[i], f) => rs[i].value = Val(view', f) /\ rs[i].value # NaN
  <2>1. CASE f[1] = "setting" /\ f[2] \in Groups /\ f = <<"setting", f[2]>>
    <3>1. \A c : f # <<"config", c>>
        BY <2>1
    <3>2. Unasked(rs, 0, f)
        BY <1>6, <1>7, <3>1 DEF Unasked
    <3>3. Val(view', f) = Val(view, f)
        BY <1>1, <2>1 DEF Val
    <3>4. f \in suspect => f \in suspect'
        BY <1>1, <3>1
    <3> QED
        BY <3>2, <3>3, <3>4
  <2>2. CASE f[1] = "config" /\ f[2] \in Clients /\ f = <<"config", f[2]>>
    <3> DEFINE c == f[2]
    <3>1. c \in Clients /\ f = <<"config", c>> /\ f \in Fields
        BY <2>2
    <3> HIDE DEF c
    <3>2. \A i \in 1 .. n : Asks(rs[i], f) <=> cs[i] = c
        BY <1>7, <3>1
    <3>3. /\ Val(view', f) = view'.config[c] /\ Val(view, f) = view.config[c]
          /\ view'.config[c] = IF \E i \in done : cs[i] = c THEN vol[c] ELSE view.config[c]
      <4>1. Val(view', f) = view'.config[c] /\ Val(view, f) = view.config[c]
          BY <3>1 DEF Val
      <4>2. view'.config[c] = IF \E i \in done : cs[i] = c THEN vol[c] ELSE view.config[c]
          BY <1>1, <3>1
      <4> QED
          BY <4>1, <4>2
    <3>4. ASSUME Unasked(rs, 0, f)
          PROVE  Val(view', f) = Val(view, f) /\ (f \in suspect => f \in suspect')
      <4>1. \A i \in 1 .. n : cs[i] # c
          BY <1>6, <3>2, <3>4 DEF Unasked
      <4>2. ~\E i \in done : cs[i] = c
          BY <1>1, <1>3, <4>1
      <4>3. c \notin Range(cs)
          BY <1>3, <4>1 DEF Range
      <4>4. f \notin {<<"config", d>> : d \in Range(cs)}
          BY <3>1, <4>3
      <4> QED
          BY <1>1, <3>3, <4>2, <4>4
    <3>5. ASSUME readyState = "open", f \notin suspect', NEW i \in 1 .. n, Asks(rs[i], f)
          PROVE  rs[i].value = Val(view', f) /\ rs[i].value # NaN
      <4>1. cs[i] = c /\ c \in Range(cs) /\ i \in done
          BY <1>1, <1>3, <3>2, <3>5
      <4>2. Val(view', f) = vol[c] /\ rs[i].value = vol[c]
          BY <1>4, <3>3, <4>1
      <4>3. vol[c] # NaN
          BY <1>1, <3>1, <3>5, <4>1
      <4> QED
          BY <4>2, <4>3
    <3> QED
        BY <1>6, <3>4, <3>5
  <2> QED
      BY <2>1, <2>2, FieldKinds
<1>11. UserSends(rs)
  <2>1. \A i \in 1 .. Len(rs) : rs[i].id = msgId + i
      BY <1>4, <1>6
  <2> QED
      BY <1>1, <1>6, <1>8, <1>9, <1>10, <2>1 DEF UserSends
<1> QED
    BY <1>11

\* Whatever the user does, it sends what the view has, or nothing.
LEMMA UserActs ==
    ASSUME TypeInv, User
    PROVE  \/ \E rs : UserSends(rs)
           \/ UNCHANGED <<view, toServer, msgId, statusReq, acted, suspect>>
<1>0. view \in States /\ msgId \in Nat /\ msgId + 1 \in Nat
    BY DEF TypeInv
<1>1. ASSUME NEW c \in Clients, NEW v \in Values, SetVolume(c, v)
      PROVE  \E rs : UserSends(rs)
  <2> DEFINE r == Request(msgId + 1, "config", c, v)
             x == <<"config", c>>
  <2>1. v \in Configs /\ v # NaN
      BY ValuesAreConfigs, ControlAssumption DEF Values
  <2>2. /\ r \in Requests /\ r.id = msgId + 1 /\ r.method = "config"
        /\ r.target = c /\ r.value = v
      BY <1>0, <2>1, RequestType
  <2>3. /\ view' = WithConfig(view, c, v) /\ Send(<<r>>) /\ suspect' = suspect \ {x}
        /\ statusReq' = statusReq
      BY <1>1 DEF SetVolume
  <2> HIDE DEF r
  <2>4. /\ view'.config = [view.config EXCEPT ![c] = v]
        /\ view'.setting = view.setting /\ view'.member = view.member
      BY <1>0, <2>1, <2>3, WithConfigFacts
  <2>5. Val(view', x) = v /\ \A f \in Fields : f # x => Val(view', f) = Val(view, f)
      BY <1>0, <2>4, ConfigChanged
  <2>6. \A f \in Fields : Asks(r, f) <=> f = x
      BY <2>2, AsksFacts
  <2>7. MemberField \in suspect => MemberField \in suspect'
      BY <2>3 DEF MemberField
  <2>8. \A f \in Fields \ {MemberField} :
            IF ~Asks(r, f)
            THEN Val(view', f) = Val(view, f) /\ (f \in suspect => f \in suspect')
            ELSE r.value = Val(view', f) /\ r.value # NaN
    <3> HIDE DEF x
    <3> QED
        BY <2>1, <2>2, <2>3, <2>5, <2>6
  <2> QED
      BY <2>2, <2>3, <2>4, <2>7, <2>8, SendsOne
<1>2. ASSUME NEW g \in Groups, NEW v \in Values, SetGroup(g, v)
      PROVE  \E rs : UserSends(rs)
  <2> DEFINE r == Request(msgId + 1, "setting", g, v)
             x == <<"setting", g>>
  <2>1. v # NaN
      BY ControlAssumption DEF Values
  <2>2. /\ r \in Requests /\ r.id = msgId + 1 /\ r.method = "setting"
        /\ r.target = g /\ r.value = v
      BY <1>0, RequestType
  <2>3. /\ view' = WithSetting(view, g, v) /\ Send(<<r>>) /\ suspect' = suspect \ {x}
        /\ statusReq' = statusReq
      BY <1>2 DEF SetGroup
  <2> HIDE DEF r
  <2>4. /\ view'.setting = [view.setting EXCEPT ![g] = v]
        /\ view'.config = view.config /\ view'.member = view.member
      BY <1>0, <2>3, WithSettingFacts
  <2>5. Val(view', x) = v /\ \A f \in Fields : f # x => Val(view', f) = Val(view, f)
      BY <1>0, <2>4, SettingChanged
  <2>6. \A f \in Fields : Asks(r, f) <=> f = x
      BY <2>2, AsksFacts
  <2>7. MemberField \in suspect => MemberField \in suspect'
      BY <2>3 DEF MemberField
  <2>8. \A f \in Fields \ {MemberField} :
            IF ~Asks(r, f)
            THEN Val(view', f) = Val(view, f) /\ (f \in suspect => f \in suspect')
            ELSE r.value = Val(view', f) /\ r.value # NaN
    <3> HIDE DEF x
    <3> QED
        BY <2>1, <2>2, <2>3, <2>5, <2>6
  <2> QED
      BY <2>2, <2>3, <2>4, <2>7, <2>8, SendsOne
<1>3. ASSUME NEW c \in Clients, NEW g \in GroupsOf(view) \union {None}, MoveClient(c, g)
      PROVE  \E rs : UserSends(rs)
  <2> DEFINE own == view.member[c]
             target == IF g = None THEN own ELSE g
             cs == IF g = None THEN MembersOf(view, own) \ {c} ELSE MembersOf(view, g) \union {c}
             r == Request(msgId + 1, "clients", target, cs)
  <2>1. own \in Groups
      BY <1>3 DEF MoveClient, Known, States, TypeInv
  <2>2. GroupsOf(view) \subseteq Groups
      BY <2>1, GroupFacts DEF TypeInv
  <2>3. target \in Groups /\ cs \in SUBSET Clients
      BY <2>1, <2>2 DEF MembersOf
  <2>4. r \in Requests /\ r.id = msgId + 1 /\ r.method = "clients"
      BY <1>0, <2>3, RequestType
  <2>5. Send(<<r>>) /\ statusReq' = msgId + 1 /\ view' = view /\ suspect' = suspect
      BY <1>3 DEF MoveClient
  <2> HIDE DEF r
  <2>6. \A f \in Fields : Asks(r, f) <=> f = MemberField
      BY <2>4, AsksFacts
  <2> QED
      BY <2>4, <2>5, <2>6, SendsOne
<1>4. ASSUME NEW c \in Clients, DeleteClient(c)
      PROVE  \E rs : UserSends(rs)
  <2> DEFINE r == Request(msgId + 1, "delete", c, None)
  <2>1. r \in Requests /\ r.id = msgId + 1 /\ r.method = "delete" /\ r.target = c
      BY <1>0, RequestType
  <2>2. /\ Send(<<r>>) /\ statusReq' = statusReq /\ suspect' = suspect
        /\ view' = Without(view, c)
      BY <1>4 DEF DeleteClient
  <2> HIDE DEF r
  <2>3. /\ view'.member = [view.member EXCEPT ![c] = None]
        /\ view'.config = view.config /\ view'.setting = view.setting
      BY <1>0, <2>2, WithoutFacts
  <2>4. \A f \in Fields : Asks(r, f) <=> f = MemberField
      BY <2>1, AsksFacts
  <2>5. \A f \in Fields \ {MemberField} : Val(view', f) = Val(view, f)
      BY <2>3, FieldKinds DEF Val
  <2> QED
      BY <2>1, <2>2, <2>3, <2>4, <2>5, SendsOne
<1>5. ASSUME NEW g \in Groups, GroupVolumeEnter(g)
      PROVE  UNCHANGED <<view, toServer, msgId, statusReq, acted, suspect>>
    BY <1>5 DEF GroupVolumeEnter, link, history
<1>6. ASSUME NEW g \in Groups,
             NEW percent \in Values \union (IF entered = None THEN {} ELSE {entered.volume}),
             SetGroupVolume(g, percent)
      PROVE  \E rs : UserSends(rs)
  <2>1. statusReq' = statusReq
      BY <1>6 DEF SetGroupVolume
  <2> QED
      BY <1>6, <2>1, GroupVolumeFacts, VolumesSent
<1> QED
    BY <1>1, <1>2, <1>3, <1>4, <1>5, <1>6 DEF User

\* Requests go behind the others, if they go anywhere.
LEMMA SendsFacts ==
    ASSUME TypeInv, User, NEW rs, UserSends(rs)
    PROVE  /\ toServer \in Seq(Requests) /\ rs \in Seq(Requests)
           /\ toServer' = IF readyState = "open" THEN toServer \o rs ELSE toServer
           /\ UNCHANGED <<server, readyState, toClient, loaded>>
           /\ \A f : Unasked(toServer', 0, f) => Unasked(toServer, 0, f)
<1>1. toServer \in Seq(Requests) /\ rs \in Seq(Requests) /\ Len(toServer) \in Nat
    BY DEF TypeInv, Sending, UserSends
<1>2. toServer' = IF readyState = "open" THEN toServer \o rs ELSE toServer
    BY DEF UserSends, Send, Sent
<1>3. UNCHANGED <<server, readyState, toClient, loaded>>
    BY UserFacts
<1>4. 0 \in 0 .. Len(toServer)
    BY <1>1
<1>5. \A f : Unasked(toServer \o rs, 0, f) => Unasked(toServer, 0, f)
    BY <1>1, <1>4, QuietConcat
<1>6. ASSUME NEW f, Unasked(toServer', 0, f)
      PROVE  Unasked(toServer, 0, f)
  <2>1. CASE readyState = "open"
    <3>1. toServer' = toServer \o rs
        BY <1>2, <2>1
    <3>2. Unasked(toServer \o rs, 0, f)
        BY <1>6, <3>1
    <3> QED
        BY <1>5, <3>2
  <2>2. CASE readyState # "open"
    <3>1. toServer' = toServer
        BY <1>2, <2>2
    <3> QED
        BY <1>6, <3>1
  <2> QED
      BY <2>1, <2>2
<1> QED
    BY <1>1, <1>2, <1>3, <1>6

\* What the user sends takes no message from what is latest.
LEMMA LatestUser ==
    ASSUME TypeInv, LatestInv, User
    PROVE  LatestInv'
<1>1. UNCHANGED <<server, toClient>>
    BY UserFacts
<1>2. CASE UNCHANGED <<view, toServer, msgId, statusReq, acted, suspect>>
  <2>1. Latest(server', toServer', toClient', statusReq')
      BY <1>1, <1>2 DEF LatestInv
  <2> QED
      BY <2>1, LatestNext
<1>3. ASSUME NEW rs, UserSends(rs)
      PROVE  LatestInv'
  <2>1. /\ \A f : Unasked(toServer', 0, f) => Unasked(toServer, 0, f)
        /\ statusReq' \in {statusReq, msgId + 1}
      BY <1>3, SendsFacts DEF UserSends
  <2>2. msgId \in Nat /\ \A i \in 1 .. Len(toClient) : IsNote(toClient[i]) \/ toClient[i].id \in 1 .. msgId
      BY DEF TypeInv, Coming
  <2>3. ASSUME NEW i \in 1 .. Len(toClient), NEW f \in Fields,
               Silent(toClient, i, f), Unasked(toServer', 0, f), Unasked(toClient, i, f),
               NEW v, Tells(toClient[i], f, v, statusReq')
        PROVE  Same(server, v, f)
    <3>1. Tells(toClient[i], f, v, statusReq)
        BY <2>1, <2>2, <2>3 DEF Tells
    <3>2. Unasked(toServer, 0, f)
        BY <2>1, <2>3
    <3> QED
        BY <2>3, <3>1, <3>2 DEF LatestInv, Latest
  <2>4. Latest(server', toServer', toClient', statusReq')
      BY <1>1, <2>3 DEF Latest
  <2> QED
      BY <2>4, LatestNext
<1> QED
    BY <1>2, <1>3, UserActs

\* The last message about a field never tells anything but what the server has,
\* unless a request about it is still to be handled, or answered.
THEOREM LatestInvariant == Spec => []LatestInv
<1>1. Init => LatestInv
  <2> SUFFICES ASSUME Init PROVE LatestInv
      OBVIOUS
  <2>1. Len(toClient) = 0
      BY DEF Init
  <2> QED
      BY <2>1 DEF LatestInv, Latest
<1>2. TypeInv /\ SoundInv /\ LatestInv /\ [Next]_vars => LatestInv'
  <2> SUFFICES ASSUME TypeInv, SoundInv, LatestInv, [Next]_vars
               PROVE  LatestInv'
      OBVIOUS
  <2>1. CASE Opened \/ Lose \/ Closed \/ Connect
      BY <2>1, LatestLink
  <2>2. CASE User
      BY <2>2, LatestUser
  <2>3. CASE ServerHandles
      BY <2>3, LatestServer
  <2>4. CASE Others
      BY <2>4, LatestOthers
  <2>5. CASE OnMessage
      BY <2>5, LatestOnMessage
  <2>6. CASE UNCHANGED vars
    <3>1. UNCHANGED <<server, toServer, toClient, statusReq>>
        BY <2>6 DEF vars, link
    <3>2. Latest(server', toServer', toClient', statusReq')
        BY <3>1 DEF LatestInv
    <3> QED
        BY <3>2, LatestNext
  <2> QED
      BY <2>1, <2>2, <2>3, <2>4, <2>5, <2>6 DEF Next
<1> QED
    BY <1>1, <1>2, TypeInvariant, SoundInvariant, PTL DEF Spec

----------------------------------------------------------------------------
(* What is not suspect                                                     *)

\* A client has moved, and the answer says how.
Moved(m) == m.method = "clients" /\ m.result # None

\* What the view has of a field the server has as well, or will have when it has
\* handled all requests; but what SetClients did the view has only with the
\* answer.
Due(s, v, ts, ms, f) ==
    IF f = MemberField
    THEN (\A i \in 1 .. Len(ms) : ~Moved(ms[i])) => v.member = Left(s.member, ts)
    ELSE /\ Unasked(ts, 0, f) => Same(s, Val(v, f), f)
         /\ \A i \in 1 .. Len(ts) :
               Asks(ts[i], f) /\ Unasked(ts, i, f)
                   => ts[i].value = Val(v, f) /\ ts[i].value # NaN

\* No status is awaited before the first one.
Settled(ts, ms, id, done) ==
    \/ done
    \/ /\ \A i \in 1 .. Len(ts) : ts[i].id # id
       /\ \A i \in 1 .. Len(ms) : IsNote(ms[i]) \/ ms[i].id # id

\* That holds for all fields that are not suspect, and that no message under way
\* writes.
SettledInv ==
    readyState = "open" /\ Settled(toServer, toClient, statusReq, loaded) =>
        \A f \in Fields \ suspect :
            Silent(toClient, 0, f) => Due(server, view, toServer, toClient, f)

\* The invariant after a step, from the values after it.
LEMMA SettledNext ==
    ASSUME readyState' = "open" /\ Settled(toServer', toClient', statusReq', loaded') =>
              \A f \in Fields \ suspect' :
                  Silent(toClient', 0, f) => Due(server', view', toServer', toClient', f)
    PROVE  SettledInv'
BY DEF SettledInv, Settled, Silent, Unasked, Due, Moved, Left, Gone, Same, Writes, Sets, Given,
       Val, Asks, Field, IsNote, Known, GroupsOf, MemberField

\* What is no longer asked for is due at once.
LEMMA DueAtOnce ==
    ASSUME NEW s \in States, NEW v \in States, NEW ts \in Seq(Requests), NEW ms, NEW f \in Fields,
           Unasked(ts, 0, f), Same(s, Val(v, f), f)
    PROVE  Due(s, v, ts, ms, f)
<1>1. \A i \in 1 .. Len(ts) : ~Asks(ts[i], f)
    BY DEF Unasked
<1>2. CASE f = MemberField
  <2>1. v.member = s.member
      BY <1>2, ValFacts
  <2>2. \A c : ~Gone(ts, c)
    <3>1. \A i \in 1 .. Len(ts) : ts[i].method # "delete"
        BY <1>1, <1>2, AsksFacts
    <3> QED
        BY <3>1 DEF Gone
  <2>3. v.member = Left(s.member, ts)
      BY <2>1, <2>2, NoneGone
  <2> QED
      BY <1>2, <2>3 DEF Due
<1>3. CASE f # MemberField
    BY <1>1, <1>3 DEF Due
<1> QED
    BY <1>2, <1>3

\* Deleted with requests that come first, and with those that come after.
LEMMA LeftConcat ==
    ASSUME NEW member, NEW ts \in Seq(Requests), NEW rs \in Seq(Requests)
    PROVE  Left(Left(member, ts), rs) = Left(member, ts \o rs)
<1> DEFINE cat == ts \o rs
           n == Len(ts)
           l == Len(rs)
<1>1. /\ n \in Nat /\ l \in Nat /\ Len(cat) = n + l
      /\ \A i \in 1 .. n : cat[i] = ts[i]
      /\ \A i \in n + 1 .. n + l : cat[i] = rs[i - n]
    BY ConcatFacts
<1> HIDE DEF cat
<1>2. ASSUME NEW c, Gone(cat, c)
      PROVE  Gone(ts, c) \/ Gone(rs, c)
  <2>1. PICK i \in 1 .. Len(cat) : cat[i].method = "delete" /\ cat[i].target = c
      BY <1>2 DEF Gone
  <2>2. i \in 1 .. n \/ (i \in n + 1 .. n + l /\ i - n \in 1 .. l)
      BY <1>1
  <2> QED
      BY <1>1, <2>1, <2>2 DEF Gone
<1>3. ASSUME NEW c, Gone(ts, c)
      PROVE  Gone(cat, c)
  <2>1. PICK i \in 1 .. n : ts[i].method = "delete" /\ ts[i].target = c
      BY <1>3 DEF Gone
  <2>2. i \in 1 .. Len(cat) /\ cat[i] = ts[i]
      BY <1>1
  <2> QED
      BY <2>1, <2>2 DEF Gone
<1>4. ASSUME NEW c, Gone(rs, c)
      PROVE  Gone(cat, c)
  <2>1. PICK i \in 1 .. l : rs[i].method = "delete" /\ rs[i].target = c
      BY <1>4 DEF Gone
  <2>2. i + n \in n + 1 .. n + l /\ i + n \in 1 .. Len(cat) /\ i + n - n = i
      BY <1>1
  <2>3. cat[i + n] = rs[i]
      BY <1>1, <2>2
  <2> QED
      BY <2>1, <2>2, <2>3 DEF Gone
<1>5. ASSUME NEW c \in Clients
      PROVE  Left(Left(member, ts), rs)[c] = Left(member, cat)[c]
    BY <1>2, <1>3, <1>4 DEF Left
<1>6. Left(Left(member, ts), rs) = Left(member, cat)
    BY <1>5 DEF Left
<1> QED
    BY <1>6 DEF cat

\* The first of them handled.
LEMMA LeftFirst ==
    ASSUME NEW s \in States, NEW ts \in Seq(Requests), ts # <<>>, NEW t,
           t = IF ts[1].method = "delete"
               THEN [s.member EXCEPT ![ts[1].target] = None] ELSE s.member
    PROVE  Left(s.member, ts) = Left(t, Tail(ts))
<1> DEFINE tl == Tail(ts)
           n == Len(ts)
           r == ts[1]
<1>1. /\ n \in Nat /\ n >= 1 /\ Len(tl) = n - 1
      /\ \A i \in 1 .. n - 1 : tl[i] = ts[i + 1]
    BY TailFacts
<1>2. t = IF r.method = "delete" THEN [s.member EXCEPT ![r.target] = None] ELSE s.member
    OBVIOUS
<1> HIDE DEF tl
<1>3. ASSUME NEW c, Gone(ts, c)
      PROVE  Gone(tl, c) \/ (r.method = "delete" /\ r.target = c)
  <2>1. PICK i \in 1 .. n : ts[i].method = "delete" /\ ts[i].target = c
      BY <1>3 DEF Gone
  <2>2. i = 1 \/ (i - 1 \in 1 .. n - 1 /\ i - 1 \in 1 .. Len(tl) /\ tl[i - 1] = ts[i])
      BY <1>1
  <2> QED
      BY <2>1, <2>2 DEF Gone
<1>4. ASSUME NEW c, Gone(tl, c)
      PROVE  Gone(ts, c)
  <2>1. PICK i \in 1 .. Len(tl) : tl[i].method = "delete" /\ tl[i].target = c
      BY <1>4 DEF Gone
  <2>2. i + 1 \in 1 .. n /\ tl[i] = ts[i + 1]
      BY <1>1
  <2> QED
      BY <2>1, <2>2 DEF Gone
<1>5. ASSUME NEW c, r.method = "delete", r.target = c
      PROVE  Gone(ts, c)
  <2>1. 1 \in 1 .. Len(ts)
      BY <1>1
  <2> QED
      BY <1>5, <2>1 DEF Gone
<1> HIDE DEF r
<1>6. \A c \in Clients : t[c] = IF r.method = "delete" /\ r.target = c THEN None ELSE s.member[c]
    BY <1>2 DEF States
<1>7. \A c \in Clients : Left(s.member, ts)[c] = Left(t, tl)[c]
    BY <1>3, <1>4, <1>5, <1>6 DEF Left
<1>8. Left(s.member, ts) = Left(t, tl)
    BY <1>7 DEF Left
<1> QED
    BY <1>8 DEF tl

\* What the user does to the view, the server will do as well.
LEMMA SettledUser ==
    ASSUME TypeInv, SettledInv, User
    PROVE  SettledInv'
<1>1. UNCHANGED <<server, readyState, toClient, loaded>>
    BY UserFacts
<1>2. CASE UNCHANGED <<view, toServer, msgId, statusReq, acted, suspect>>
  <2>1. readyState' = "open" /\ Settled(toServer', toClient', statusReq', loaded') =>
            \A f \in Fields \ suspect' :
                Silent(toClient', 0, f) => Due(server', view', toServer', toClient', f)
      BY <1>1, <1>2 DEF SettledInv
  <2> QED
      BY <2>1, SettledNext
<1>3. ASSUME NEW rs, UserSends(rs)
      PROVE  SettledInv'
  <2> DEFINE n == Len(toServer)
             l == Len(rs)
             cat == toServer \o rs
  <2> SUFFICES ASSUME readyState = "open", Settled(toServer', toClient, statusReq', loaded),
                      NEW f \in Fields \ suspect', Silent(toClient, 0, f)
               PROVE  Due(server, view', toServer', toClient, f)
    <3>1. UNCHANGED <<server, readyState, toClient, loaded>>
        BY <1>1
    <3> QED
        BY <3>1, SettledNext
  <2>1. toServer \in Seq(Requests) /\ rs \in Seq(Requests) /\ toServer' = cat
      BY <1>3, SendsFacts
  <2>2. /\ n \in Nat /\ l \in Nat /\ Len(cat) = n + l
        /\ \A i \in 1 .. n : cat[i] = toServer[i]
        /\ \A i \in n + 1 .. n + l : cat[i] = rs[i - n]
      BY <2>1, ConcatFacts
  <2>3. msgId \in Nat
      BY DEF TypeInv
  <2>4. /\ \A i \in 1 .. l : rs[i].id = msgId + i
        /\ statusReq' = statusReq \/ (l = 1 /\ statusReq' = msgId + 1)
        /\ view'.member = Left(view.member, rs)
        /\ MemberField \in suspect => MemberField \in suspect'
        /\ \A g \in Fields \ {MemberField} :
              IF Unasked(rs, 0, g)
              THEN Val(view', g) = Val(view, g) /\ (g \in suspect => g \in suspect')
              ELSE g \notin suspect' =>
                      \A i \in 1 .. l :
                          Asks(rs[i], g) => rs[i].value = Val(view', g) /\ rs[i].value # NaN
      BY <1>3 DEF UserSends
  <2>5. \A k \in 0 .. n : Unasked(cat, k, f) <=> Unasked(toServer, k, f) /\ Unasked(rs, 0, f)
      BY <2>1, QuietConcat
  <2>6. Settled(cat, toClient, statusReq', loaded)
      BY <2>1
  <2> HIDE DEF cat, n, l
  <2>7. Settled(toServer, toClient, statusReq, loaded)
    <3>1. CASE loaded
        BY <3>1 DEF Settled
    <3>2. CASE ~loaded
      <4>1. /\ \A i \in 1 .. Len(cat) : cat[i].id # statusReq'
            /\ \A i \in 1 .. Len(toClient) : IsNote(toClient[i]) \/ toClient[i].id # statusReq'
          BY <2>6, <3>2 DEF Settled
      <4>2. statusReq' = statusReq
        <5>1. l = 1 => n + 1 \in n + 1 .. n + l /\ n + 1 \in 1 .. Len(cat) /\ n + 1 - n = 1 /\ 1 \in 1 .. l
            BY <2>2
        <5>2. l = 1 => cat[n + 1].id = msgId + 1
            BY <2>2, <2>4, <5>1
        <5> QED
            BY <2>4, <4>1, <5>1, <5>2
      <4>3. \A i \in 1 .. n : i \in 1 .. Len(cat)
          BY <2>2
      <4> QED
          BY <2>2, <4>1, <4>2, <4>3 DEF Settled, n
    <3> QED
        BY <3>1, <3>2
  <2>8. CASE f = MemberField
    <3>1. Due(server, view, toServer, toClient, f)
        BY <2>4, <2>7, <2>8 DEF SettledInv
    <3>2. ASSUME \A i \in 1 .. Len(toClient) : ~Moved(toClient[i])
          PROVE  view'.member = Left(server.member, cat)
      <4>1. view.member = Left(server.member, toServer)
          BY <2>8, <3>1, <3>2 DEF Due
      <4> QED
          BY <2>1, <2>4, <4>1, LeftConcat DEF cat
    <3> QED
        BY <2>1, <2>8, <3>2 DEF Due
  <2>9. CASE f # MemberField /\ Unasked(rs, 0, f)
    <3>1. Val(view', f) = Val(view, f) /\ f \notin suspect
        BY <2>4, <2>9
    <3>2. Due(server, view, toServer, toClient, f)
        BY <2>7, <3>1 DEF SettledInv
    <3>3. Unasked(cat, 0, f) => Same(server, Val(view', f), f)
      <4>1. 0 \in 0 .. n
          BY <2>2
      <4> QED
          BY <2>5, <2>9, <3>1, <3>2, <4>1 DEF Due
    <3>4. ASSUME NEW i \in 1 .. Len(cat), Asks(cat[i], f), Unasked(cat, i, f)
          PROVE  cat[i].value = Val(view', f) /\ cat[i].value # NaN
      <4>1. CASE i \in 1 .. n
        <5>1. cat[i] = toServer[i] /\ i \in 0 .. n
            BY <2>2, <4>1
        <5>2. Asks(toServer[i], f) /\ Unasked(toServer, i, f)
            BY <2>5, <3>4, <5>1
        <5> QED
            BY <2>9, <3>1, <3>2, <4>1, <5>1, <5>2 DEF Due, n
      <4>2. CASE i \notin 1 .. n
        <5>1. i \in n + 1 .. n + l /\ i - n \in 0 + 1 .. l
            BY <2>2, <4>2
        <5>2. ~Asks(rs[i - n], f)
            BY <2>9, <5>1 DEF Unasked, l
        <5> QED
            BY <2>2, <3>4, <5>1, <5>2
      <4> QED
          BY <4>1, <4>2
    <3> QED
        BY <2>1, <2>9, <3>3, <3>4 DEF Due
  <2>10. CASE f # MemberField /\ ~Unasked(rs, 0, f)
    <3>1. \A k \in 0 .. n : ~Unasked(cat, k, f)
        BY <2>5, <2>10
    <3>2. ASSUME NEW i \in 1 .. Len(cat), Asks(cat[i], f), Unasked(cat, i, f)
          PROVE  cat[i].value = Val(view', f) /\ cat[i].value # NaN
      <4>1. i \in n + 1 .. n + l /\ i - n \in 1 .. l
        <5>1. i \notin 0 .. n
            BY <3>1, <3>2
        <5> QED
            BY <2>2, <5>1
      <4>2. cat[i] = rs[i - n]
          BY <2>2, <4>1
      <4> QED
          BY <2>4, <2>10, <3>2, <4>1, <4>2
    <3>3. ~Unasked(cat, 0, f)
      <4>1. 0 \in 0 .. n
          BY <2>2
      <4> QED
          BY <3>1, <4>1
    <3> QED
        BY <2>1, <2>10, <3>2, <3>3 DEF Due
  <2> QED
      BY <2>8, <2>9, <2>10
<1> QED
    BY <1>2, <1>3, UserActs

\* A request for a setting is done, or the server does not have what it is of.
LEMMA ServerDoes ==
    ASSUME NEW s \in States, NEW r \in Requests, NEW f \in Fields, Asks(r, f), f # MemberField,
           r.value # NaN
    PROVE  Same(Applied(s, r), r.value, f)
<1>1. r.method \in {"config", "setting"}
    BY AsksFacts DEF Asks
<1>2. CASE r.method = "config"
  <2> DEFINE c == r.target
             v == r.value
             t == Applied(s, r)
  <2>1. c \in Clients /\ v \in Configs /\ f = <<"config", c>>
      BY <1>2, RequestFacts, AsksFacts
  <2>2. CASE ~Known(s, c)
    <3>1. Applied(s, r) = s
        BY <1>2, <2>2, RefusedFacts, AppliedFacts
    <3>2. Same(s, v, <<"config", c>>)
        BY <2>2 DEF Same
    <3> QED
        BY <2>1, <3>1, <3>2
  <2>3. CASE Known(s, c)
    <3>1. t = WithConfig(s, c, v)
        BY <1>2, <2>3, RefusedFacts, AppliedFacts
    <3> HIDE DEF t, v
    <3>2. t.config = [s.config EXCEPT ![c] = v]
        BY <2>1, <3>1, WithConfigFacts
    <3>3. t.config[c] = v
        BY <2>1, <3>2 DEF States
    <3>4. Same(t, v, <<"config", c>>)
        BY <3>3 DEF Same
    <3> QED
        BY <2>1, <3>4 DEF t, v
  <2> QED
      BY <2>2, <2>3
<1>3. CASE r.method = "setting"
  <2> DEFINE g == r.target
             v == r.value
             t == Applied(s, r)
  <2>1. g \in Groups /\ v \in Values /\ f = <<"setting", g>>
      BY <1>3, RequestFacts, AsksFacts
  <2>2. CASE g \notin GroupsOf(s)
    <3>1. Applied(s, r) = s
        BY <1>3, <2>2, RefusedFacts, AppliedFacts
    <3>2. Same(s, v, <<"setting", g>>)
        BY <2>2 DEF Same
    <3> QED
        BY <2>1, <3>1, <3>2
  <2>3. CASE g \in GroupsOf(s)
    <3>1. t = WithSetting(s, g, v)
        BY <1>3, <2>3, RefusedFacts, AppliedFacts
    <3> HIDE DEF t, v
    <3>2. t.setting = [s.setting EXCEPT ![g] = v]
        BY <2>1, <3>1, WithSettingFacts
    <3>3. t.setting[g] = v
        BY <2>1, <3>2 DEF States
    <3>4. Same(t, v, <<"setting", g>>)
        BY <3>3 DEF Same
    <3> QED
        BY <2>1, <3>4 DEF t, v
  <2> QED
      BY <2>2, <2>3
<1> QED
    BY <1>1, <1>2, <1>3

\* The server does what was due.
LEMMA SettledServer ==
    ASSUME TypeInv, SoundInv, SettledInv, ServerHandles
    PROVE  SettledInv'
<1>1. PICK r, m : Handles(r, m)
    BY ServerFacts
<1> DEFINE n == Len(toClient)
           l == Len(toServer)
           tl == Tail(toServer)
           ap == Append(toClient, m)
<1>2. /\ readyState = "open" /\ toServer # <<>> /\ r = Head(toServer) /\ r \in Requests
      /\ r.method = "clients" /\ ~Refused(server, r) => IdsLeft(server, r.target, r.value)
      /\ server' = Applied(server, r) /\ server' \in States /\ m \in Messages /\ ~IsNote(m)
      /\ m.id = r.id /\ m.method = r.method /\ m.target = r.target
      /\ m.result # None <=> r.method \in {"status", "clients"} /\ ~Refused(server, r)
      /\ toServer' = tl /\ toClient' = ap
      /\ UNCHANGED <<view, readyState, statusReq, loaded, suspect>>
    BY <1>1 DEF Handles
<1>3. /\ server \in States /\ view \in States /\ toServer \in Seq(Requests)
      /\ toClient \in Seq(Messages) /\ n \in Nat
    BY DEF TypeInv, Sending, Coming
<1>4. /\ r = toServer[1] /\ l \in Nat /\ l >= 1 /\ Len(tl) = l - 1
      /\ \A i \in 1 .. l - 1 : tl[i] = toServer[i + 1]
    BY <1>2, <1>3, TailFacts
<1>5. /\ Len(ap) = n + 1 /\ ap[n + 1] = m /\ \A i \in 1 .. n : ap[i] = toClient[i]
    BY <1>2, <1>3, AppendFacts
<1>6. \A f : /\ Silent(ap, 0, f) <=> Silent(toClient, 0, f) /\ ~Writes(m, f)
             /\ Unasked(toServer, 0, f) <=> ~Asks(r, f) /\ Unasked(toServer, 1, f)
             /\ \A k \in 0 .. l - 1 : Unasked(tl, k, f) <=> Unasked(toServer, k + 1, f)
  <2>1. 0 \in 0 .. n
      BY <1>3
  <2>2. \A f : Silent(ap, 0, f) <=> Silent(toClient, 0, f) /\ ~Writes(m, f)
      BY <1>2, <1>3, <2>1, QuietAppend
  <2>3. \A f : Unasked(toServer, 0, f) <=> ~Asks(r, f) /\ Unasked(toServer, 1, f)
      BY <1>2, <1>3, <1>4, QuietFirst
  <2>4. \A f : \A k \in 0 .. l - 1 : Unasked(tl, k, f) <=> Unasked(toServer, k + 1, f)
      BY <1>2, <1>3, QuietTail
  <2> QED
      BY <2>2, <2>3, <2>4
<1> SUFFICES ASSUME Settled(tl, ap, statusReq, loaded), NEW f \in Fields \ suspect, Silent(ap, 0, f)
             PROVE  Due(server', view, tl, ap, f)
  <2>1. readyState' = "open" /\ Settled(toServer', toClient', statusReq', loaded') =>
            \A f \in Fields \ suspect' :
                Silent(toClient', 0, f) => Due(server', view', toServer', toClient', f)
      BY <1>2
  <2> QED
      BY <2>1, SettledNext
<1> HIDE DEF tl, ap, n, l
<1>7. Settled(toServer, toClient, statusReq, loaded)
  <2>1. CASE loaded
      BY <2>1 DEF Settled
  <2>2. CASE ~loaded
    <3>1. /\ \A i \in 1 .. Len(tl) : tl[i].id # statusReq
          /\ \A i \in 1 .. Len(ap) : IsNote(ap[i]) \/ ap[i].id # statusReq
        BY <2>2 DEF Settled
    <3>2. r.id # statusReq
      <4>1. n + 1 \in 1 .. Len(ap)
          BY <1>3, <1>5
      <4> QED
          BY <1>2, <1>5, <3>1, <4>1
    <3>3. \A i \in 1 .. n : IsNote(toClient[i]) \/ toClient[i].id # statusReq
      <4>1. \A i \in 1 .. n : i \in 1 .. Len(ap)
          BY <1>3, <1>5
      <4> QED
          BY <1>5, <3>1, <4>1
    <3>4. \A i \in 1 .. l : toServer[i].id # statusReq
      <4>1. \A i \in 1 .. l : i = 1 \/ (i - 1 \in 1 .. l - 1 /\ i - 1 \in 1 .. Len(tl) /\ tl[i - 1] = toServer[i])
          BY <1>4
      <4> QED
          BY <1>4, <3>1, <3>2, <4>1
    <3> QED
        BY <3>3, <3>4 DEF Settled, n, l
  <2> QED
      BY <2>1, <2>2
<1>8. Due(server, view, toServer, toClient, f)
    BY <1>2, <1>6, <1>7 DEF SettledInv
<1>9. CASE f = MemberField
  <2> SUFFICES ASSUME \A i \in 1 .. Len(ap) : ~Moved(ap[i])
               PROVE  view.member = Left(server'.member, tl)
      BY <1>9 DEF Due
  <2>1. ~Moved(m) /\ \A i \in 1 .. n : ~Moved(toClient[i])
    <3>1. n + 1 \in 1 .. Len(ap) /\ \A i \in 1 .. n : i \in 1 .. Len(ap)
        BY <1>3, <1>5
    <3> QED
        BY <1>5, <3>1
  <2>2. view.member = Left(server.member, toServer)
      BY <1>8, <1>9, <2>1 DEF Due, n
  <2>3. r.method = "clients" => Refused(server, r)
      BY <1>2, <2>1 DEF Moved
  <2>4. server'.member = IF r.method = "delete"
                         THEN [server.member EXCEPT ![r.target] = None] ELSE server.member
    <3>1. CASE r.method = "delete"
      <4>1. server' = Without(server, r.target) /\ r.target \in Clients
          BY <1>2, <3>1, RequestFacts, RefusedFacts, AppliedFacts
      <4> QED
          BY <1>3, <3>1, <4>1, WithoutFacts
    <3>2. CASE r.method = "clients"
      <4>1. server' = server
          BY <1>2, <2>3, <3>2, AppliedFacts
      <4> QED
          BY <3>2, <4>1
    <3>3. CASE r.method \notin {"clients", "delete"}
        BY <1>2, <1>3, <3>3, AppliedFields
    <3> QED
        BY <3>1, <3>2, <3>3
  <2>5. Left(server.member, toServer) = Left(server'.member, tl)
      BY <1>2, <1>3, <1>4, <2>4, LeftFirst DEF tl
  <2> QED
      BY <2>2, <2>5
<1>10. CASE f # MemberField
  <2>1. /\ Unasked(toServer, 0, f) => Same(server, Val(view, f), f)
        /\ \A i \in 1 .. l :
              Asks(toServer[i], f) /\ Unasked(toServer, i, f)
                  => toServer[i].value = Val(view, f) /\ toServer[i].value # NaN
      BY <1>8, <1>10 DEF Due, l
  <2>2. ASSUME Unasked(tl, 0, f)
        PROVE  Same(server', Val(view, f), f)
    <3>1. Unasked(toServer, 1, f)
      <4>1. 0 \in 0 .. l - 1 /\ 0 + 1 = 1
          BY <1>4
      <4> QED
          BY <1>6, <2>2, <4>1
    <3>2. CASE Asks(r, f)
      <4>1. r.value = Val(view, f) /\ r.value # NaN
        <5>1. 1 \in 1 .. l
            BY <1>4
        <5> QED
            BY <1>4, <2>1, <3>1, <3>2, <5>1
      <4>2. Same(Applied(server, r), r.value, f)
          BY <1>2, <1>3, <1>10, <3>2, <4>1, ServerDoes
      <4> QED
          BY <1>2, <4>1, <4>2
    <3>3. CASE ~Asks(r, f)
      <4>1. Same(server, Val(view, f), f)
          BY <1>6, <2>1, <3>1, <3>3
      <4>2. f[1] = "setting" /\ Val(view, f) # None => server.setting[f[2]] # None
        <5>1. f[1] = "setting" => f[2] \in Groups /\ Val(view, f) = view.setting[f[2]]
            BY FieldKinds DEF Val
        <5> QED
            BY <5>1 DEF SoundInv, Taken
      <4> QED
          BY <1>2, <1>3, <3>3, <4>1, <4>2, ServerKeeps
    <3> QED
        BY <3>2, <3>3
  <2>3. ASSUME NEW i \in 1 .. Len(tl), Asks(tl[i], f), Unasked(tl, i, f)
        PROVE  tl[i].value = Val(view, f) /\ tl[i].value # NaN
    <3>1. i \in 1 .. l - 1 /\ i \in 0 .. l - 1 /\ i + 1 \in 1 .. l
        BY <1>4
    <3>2. tl[i] = toServer[i + 1] /\ Unasked(toServer, i + 1, f)
        BY <1>4, <1>6, <2>3, <3>1
    <3> QED
        BY <2>1, <2>3, <3>1, <3>2
  <2> QED
      BY <1>10, <2>2, <2>3 DEF Due
<1> QED
    BY <1>9, <1>10

\* Another page's change is announced, and so not silent.
LEMMA SettledOthers ==
    ASSUME TypeInv, SettledInv, Others
    PROVE  SettledInv'
<1>1. PICK s \in States, bs \in Seq(Changes) : Announces(s, bs)
    BY OthersFacts
<1> DEFINE m == Notification(bs)
           n == Len(toClient)
           ap == Append(toClient, m)
<1>2. /\ IsBatch(bs) /\ Leads(server, m, s) /\ server' = s
      /\ toClient' = IF readyState = "open" THEN ap ELSE toClient
      /\ UNCHANGED <<view, readyState, toServer, statusReq, loaded, suspect>>
    BY <1>1 DEF Announces, Notified, history
<1>3. server \in States /\ toClient \in Seq(Messages) /\ n \in Nat
    BY DEF TypeInv, Coming
<1>4. \A f \in Fields :
          (\A i \in DOMAIN bs : ~Sets(bs[i], f))
              => s.member = server.member /\ Val(s, f) = Val(server, f)
    BY <1>2, <1>3, LeadsField
<1>5. m \in Messages /\ IsNote(m) /\ m.actions = bs
    BY NotificationFacts
<1> HIDE DEF m
<1>6. /\ Len(ap) = n + 1 /\ ap[n + 1] = m /\ \A i \in 1 .. n : ap[i] = toClient[i]
    BY <1>3, <1>5, AppendFacts
<1>7. \A f : Silent(ap, 0, f) <=> Silent(toClient, 0, f) /\ ~Writes(m, f)
  <2>1. 0 \in 0 .. n
      BY <1>3
  <2> QED
      BY <1>3, <1>5, <2>1, QuietAppend
<1> SUFFICES ASSUME readyState = "open", Settled(toServer, ap, statusReq, loaded),
                    NEW f \in Fields \ suspect, Silent(ap, 0, f)
             PROVE  Due(s, view, toServer, ap, f)
  <2>1. readyState' = "open" /\ Settled(toServer', toClient', statusReq', loaded') =>
            \A f \in Fields \ suspect' :
                Silent(toClient', 0, f) => Due(server', view', toServer', toClient', f)
      BY <1>2
  <2> QED
      BY <2>1, SettledNext
<1> HIDE DEF ap, n
<1>8. \A i \in 1 .. n : i \in 1 .. Len(ap)
    BY <1>3, <1>6
<1>9. Settled(toServer, toClient, statusReq, loaded)
    BY <1>6, <1>8 DEF Settled, n
<1>10. Due(server, view, toServer, toClient, f) /\ ~Writes(m, f)
    BY <1>7, <1>9 DEF SettledInv
<1>11. s.member = server.member /\ Val(s, f) = Val(server, f)
    BY <1>4, <1>5, <1>10 DEF Writes
<1>12. CASE f = MemberField
  <2>1. (\A i \in 1 .. Len(ap) : ~Moved(ap[i])) => \A i \in 1 .. n : ~Moved(toClient[i])
      BY <1>6, <1>8
  <2> QED
      BY <1>10, <1>11, <1>12, <2>1 DEF Due, n
<1>13. CASE f # MemberField
  <2>1. \A v : Same(server, v, f) => Same(s, v, f)
      BY <1>3, <1>11, SameIn
  <2> QED
      BY <1>10, <1>13, <2>1 DEF Due
<1> QED
    BY <1>12, <1>13

\* What is done of a notification leads from the old view to the new one.
LEMMA NotifyDone ==
    ASSUME TypeInv, Notify
    PROVE  LET bs == Message.actions
               done == Done(bs)
           IN  /\ bs \in Seq(Changes) /\ done \in Seq(Changes)
               /\ \A i \in DOMAIN done : i \in DOMAIN bs /\ done[i] = bs[i]
               /\ \/ done = <<>> /\ view' = view
                  \/ IsBatch(done) /\ Leads(view, Notification(done), view')
<1> DEFINE bs == Message.actions
           a == bs[1]
           b == bs[2]
           done == Done(bs)
           l == Len(bs)
<1>1. /\ bs \in Seq(Changes) /\ IsBatch(bs) /\ l >= 1 /\ a \in Changes
      /\ done \in Seq(Changes)
      /\ \/ done = <<>> /\ view' = view
         \/ done = <<a>> /\ ~Unknown(view, a) /\ view' = Did(view, a)
         \/ /\ done = bs /\ l = 2 /\ ~Unknown(view, a) /\ ~Unknown(view, b)
            /\ view' = Did(Did(view, a), b)
    BY NotifyFacts, Zenon
<1>2. DOMAIN bs = 1 .. l /\ l \in Nat
    BY <1>1
<1> HIDE DEF l, done
<1>3. CASE done = <<>> /\ view' = view
  <2>1. DOMAIN done = {}
      BY <1>3
  <2> QED
      BY <1>1, <1>3, <2>1 DEF done
<1>4. CASE done = <<a>> /\ ~Unknown(view, a) /\ view' = Did(view, a)
  <2>1. IsBatch(done) /\ Leads(view, Notification(done), view')
      BY <1>1, <1>4, BatchFacts, LeadsOne
  <2>2. DOMAIN done = {1} /\ done[1] = a
      BY <1>4
  <2>3. 1 \in DOMAIN bs
      BY <1>1, <1>2
  <2> QED
      BY <1>1, <2>1, <2>2, <2>3 DEF done
<1>5. CASE /\ done = bs /\ l = 2 /\ ~Unknown(view, a) /\ ~Unknown(view, b)
           /\ view' = Did(Did(view, a), b)
  <2> DEFINE m == Notification(bs)
  <2>1. IsNote(m) /\ m.actions = bs
      BY <1>1, NotificationFacts
  <2> HIDE DEF m
  <2>2. \A i \in DOMAIN bs : ~Unknown(view, bs[i])
    <3>1. \A i \in DOMAIN bs : i = 1 \/ i = 2
        BY <1>2, <1>5
    <3> QED
        BY <1>5, <3>1
  <2>3. Leads(view, m, view')
      BY <1>5, <2>1, <2>2, Zenon DEF Leads, l
  <2> QED
      BY <1>1, <1>5, <2>3 DEF done, m
<1> QED
    BY <1>1, <1>3, <1>4, <1>5

\* A field is written, and the message told its value, or it is left alone.
LEMMA NotifyField ==
    ASSUME TypeInv, Notify, NEW f \in Fields, NEW id
    PROVE  /\ f \in FieldsOf(Done(Message.actions)) => Tells(Message, f, Val(view', f), id)
           /\ f \notin FieldsOf(Done(Message.actions)) => Val(view', f) = Val(view, f)
           /\ f \in FieldsOf(Message.actions) <=> Writes(Message, f)
<1> DEFINE bs == Message.actions
           done == Done(bs)
<1>1. /\ bs \in Seq(Changes) /\ done \in Seq(Changes)
      /\ \A i \in DOMAIN done : i \in DOMAIN bs /\ done[i] = bs[i]
      /\ \/ done = <<>> /\ view' = view
         \/ IsBatch(done) /\ Leads(view, Notification(done), view')
    BY NotifyDone
<1>2. IsNote(Message) /\ view \in States
    BY DEF Notify, IsNote, TypeInv
<1> HIDE DEF done
<1>3. /\ f \in FieldsOf(done) <=> \E i \in DOMAIN done : Sets(done[i], f)
      /\ f \in FieldsOf(bs) <=> \E i \in DOMAIN bs : Sets(bs[i], f)
    BY <1>1, FieldsOfSets
<1>4. ASSUME f \in FieldsOf(done)
      PROVE  Tells(Message, f, Val(view', f), id)
  <2>1. PICK i \in DOMAIN done : Sets(done[i], f)
      BY <1>3, <1>4
  <2>2. IsBatch(done) /\ Leads(view, Notification(done), view')
      BY <1>1, <2>1
  <2>3. Val(view', f) = Given(done[i], f)
      BY <1>1, <1>2, <2>1, <2>2, LeadsField
  <2> QED
      BY <1>1, <1>2, <2>1, <2>3 DEF Tells
<1>5. ASSUME f \notin FieldsOf(done)
      PROVE  Val(view', f) = Val(view, f)
  <2>1. CASE done = <<>> /\ view' = view
      BY <2>1
  <2>2. CASE IsBatch(done) /\ Leads(view, Notification(done), view')
      BY <1>1, <1>2, <1>3, <1>5, <2>2, LeadsField
  <2> QED
      BY <1>1, <2>1, <2>2
<1> QED
    BY <1>2, <1>3, <1>4, <1>5 DEF Writes, done

\* What is due remains so behind a message that neither writes the field nor
\* says that a client has moved.
LEMMA DueTail ==
    ASSUME NEW s, NEW v, NEW w, NEW ts, NEW ms \in Seq(Messages), ms # <<>>, NEW f \in Fields,
           Due(s, v, ts, ms, f), f = MemberField => ~Moved(ms[1]), Val(w, f) = Val(v, f)
    PROVE  Due(s, w, ts, Tail(ms), f)
<1> DEFINE tl == Tail(ms)
           n == Len(ms)
<1>1. /\ n \in Nat /\ n >= 1 /\ Len(tl) = n - 1
      /\ \A i \in 1 .. n - 1 : tl[i] = ms[i + 1]
    BY TailFacts
<1> HIDE DEF tl
<1>2. CASE f = MemberField
  <2>1. w.member = v.member
      BY <1>2, ValFacts
  <2>2. (\A i \in 1 .. Len(tl) : ~Moved(tl[i])) => \A i \in 1 .. n : ~Moved(ms[i])
    <3>1. \A i \in 1 .. n : i = 1 \/ (i - 1 \in 1 .. Len(tl) /\ tl[i - 1] = ms[i])
        BY <1>1
    <3> QED
        BY <1>2, <3>1
  <2> QED
      BY <1>2, <2>1, <2>2 DEF Due, tl
<1>3. CASE f # MemberField
    BY <1>3 DEF Due
<1> QED
    BY <1>2, <1>3

\* The view gets what is latest, or keeps what it has.
LEMMA SettledOnMessage ==
    ASSUME TypeInv, LatestInv, SettledInv, OnMessage
    PROVE  SettledInv'
<1> DEFINE tl == Tail(toClient)
           n == Len(toClient)
<1>1. Receives
    BY DEF OnMessage, AdoptStatus, IgnoreAnswer, Notify
<1>2. /\ readyState = "open" /\ toClient # <<>> /\ toClient' = tl
      /\ UNCHANGED <<server, readyState, toServer, statusReq>>
    BY <1>1 DEF Receives
<1>3. /\ server \in States /\ view \in States /\ view' \in States /\ toServer \in Seq(Requests)
      /\ toClient \in Seq(Messages) /\ suspect \subseteq Fields
    BY TypeMessage DEF TypeInv, Sending, Coming
<1>4. /\ Message = toClient[1] /\ Message \in Messages /\ n \in Nat /\ n >= 1
      /\ Len(tl) = n - 1 /\ tl \in Seq(Messages)
      /\ \A i \in 1 .. n - 1 : tl[i] = toClient[i + 1]
    BY <1>2, <1>3, TailFacts DEF Message
<1>5. \A f : /\ Silent(toClient, 0, f) <=> ~Writes(Message, f) /\ Silent(toClient, 1, f)
             /\ Silent(tl, 0, f) <=> Silent(toClient, 1, f)
             /\ Unasked(tl, 0, f) <=> Unasked(toClient, 1, f)
  <2>1. 0 \in 0 .. n - 1 /\ 0 + 1 = 1
      BY <1>4
  <2>2. \A f : Silent(toClient, 0, f) <=> ~Writes(Message, f) /\ Silent(toClient, 1, f)
      BY <1>2, <1>3, <1>4, QuietFirst
  <2>3. \A f : /\ Silent(tl, 0, f) <=> Silent(toClient, 0 + 1, f)
               /\ Unasked(tl, 0, f) <=> Unasked(toClient, 0 + 1, f)
      BY <1>2, <1>3, <2>1, QuietTail
  <2> QED
      BY <2>1, <2>2, <2>3
<1>6. \A f : f \notin Outstanding(tl) => Unasked(toServer, 0, f) /\ Unasked(tl, 0, f)
  <2>1. \A f : f \notin Outstanding(tl) => f \notin Asked(toServer) /\ f \notin Asked(tl)
      BY DEF Outstanding
  <2>2. \A ms : \A f : f \in Asked(ms) <=> \E i \in DOMAIN ms : Asks(ms[i], f)
      BY AskedFacts
  <2>3. DOMAIN toServer = 1 .. Len(toServer) /\ DOMAIN tl = 1 .. Len(tl)
      BY <1>3, <1>4
  <2> HIDE DEF tl
  <2> QED
      BY <2>1, <2>2, <2>3 DEF Unasked
<1> SUFFICES ASSUME Settled(toServer, tl, statusReq, loaded'), NEW f \in Fields \ suspect',
                    Silent(tl, 0, f)
             PROVE  Due(server, view', toServer, tl, f)
  <2>1. readyState' = "open" /\ Settled(toServer', toClient', statusReq', loaded') =>
            \A f \in Fields \ suspect' :
                Silent(toClient', 0, f) => Due(server', view', toServer', toClient', f)
      BY <1>2
  <2> QED
      BY <2>1, SettledNext
<1> HIDE DEF tl, n
<1>7. ASSUME loaded' = loaded, IsNote(Message) \/ Message.id # statusReq
      PROVE  Settled(toServer, toClient, statusReq, loaded)
  <2>1. CASE loaded
      BY <2>1 DEF Settled
  <2>2. CASE ~loaded
    <3>1. /\ \A i \in 1 .. Len(toServer) : toServer[i].id # statusReq
          /\ \A i \in 1 .. Len(tl) : IsNote(tl[i]) \/ tl[i].id # statusReq
        BY <1>7, <2>2 DEF Settled
    <3>2. \A i \in 1 .. n : i = 1 \/ (i - 1 \in 1 .. Len(tl) /\ i - 1 \in 1 .. n - 1 /\ tl[i - 1] = toClient[i])
        BY <1>4
    <3>3. \A i \in 1 .. n : IsNote(toClient[i]) \/ toClient[i].id # statusReq
        BY <1>4, <1>7, <3>1, <3>2
    <3> QED
        BY <3>1, <3>3 DEF Settled, n
  <2> QED
      BY <2>1, <2>2
\* What the first message told of a field, and nothing under way is about.
<1>8. ASSUME f \notin Outstanding(tl), Tells(Message, f, Val(view', f), statusReq)
      PROVE  Due(server, view', toServer, tl, f)
  <2>1. Unasked(toServer, 0, f) /\ Unasked(toClient, 1, f) /\ Silent(toClient, 1, f)
      BY <1>5, <1>6, <1>8
  <2>2. Same(server, Val(view', f), f)
    <3>1. 1 \in 1 .. n
        BY <1>4
    <3> QED
        BY <1>4, <1>8, <2>1, <3>1 DEF LatestInv, Latest, n
  <2> QED
      BY <1>3, <2>1, <2>2, DueAtOnce
\* Nothing has been done to the field.
<1>9. ASSUME Settled(toServer, toClient, statusReq, loaded), f \notin suspect, ~Writes(Message, f),
             f = MemberField => ~Moved(Message), Val(view', f) = Val(view, f)
      PROVE  Due(server, view', toServer, tl, f)
  <2>1. Silent(toClient, 0, f)
      BY <1>5, <1>9
  <2>2. Due(server, view, toServer, toClient, f)
      BY <1>2, <1>9, <2>1 DEF SettledInv
  <2> QED
      BY <1>2, <1>3, <1>4, <1>9, <2>2, DueTail DEF tl
<1>10. CASE AdoptStatus
  <2>1. ~IsNote(Message) /\ Message.id = statusReq
      BY <1>10 DEF AdoptStatus, IsStatus, IsNote
  <2>2. CASE Message.result # None
    <3>1. view' = Message.result /\ suspect' = Outstanding(tl)
        BY <1>10, <2>2 DEF AdoptStatus, tl
    <3>2. Tells(Message, f, Val(view', f), statusReq)
        BY <2>1, <2>2, <3>1 DEF Tells
    <3> QED
        BY <1>8, <3>1, <3>2
  <2>3. CASE Message.result = None
    <3>1. /\ view' = view /\ loaded' = loaded
          /\ suspect' = IF loaded THEN suspect ELSE Fields
        BY <1>10, <2>3 DEF AdoptStatus
    <3>2. loaded /\ f \notin suspect
        BY <3>1
    <3>3. Settled(toServer, toClient, statusReq, loaded)
        BY <3>2 DEF Settled
    <3>4. ~Writes(Message, f) /\ ~Moved(Message)
        BY <2>1, <2>3 DEF Writes, Moved
    <3> QED
        BY <1>9, <3>1, <3>2, <3>3, <3>4
  <2> QED
      BY <2>2, <2>3
<1>11. CASE IgnoreAnswer
  <2>1. /\ ~IsNote(Message) /\ Message.id # statusReq /\ view' = view /\ loaded' = loaded
        /\ suspect' = IF Moved(Message) THEN suspect \union {MemberField} ELSE suspect
      BY <1>11 DEF IgnoreAnswer, IsStatus, IsNote, Moved
  <2>2. f \notin suspect /\ (f = MemberField => ~Moved(Message))
      BY <2>1
  <2>3. ~Writes(Message, f)
      BY <2>1 DEF Writes
  <2> QED
      BY <1>7, <1>9, <2>1, <2>2, <2>3
<1>12. CASE Notify
  <2> DEFINE all == FieldsOf(Message.actions)
             done == FieldsOf(Done(Message.actions))
  <2>1. /\ f \in done => Tells(Message, f, Val(view', f), statusReq)
        /\ f \notin done => Val(view', f) = Val(view, f)
        /\ f \in all <=> Writes(Message, f)
      BY <1>12, NotifyField
  <2>2. /\ IsNote(Message) /\ ~Moved(Message) /\ loaded' = loaded
        /\ suspect' = (suspect \ done) \union (done \intersect Outstanding(tl)) \union (all \ done)
      BY <1>12 DEF Notify, IsNote, Moved, tl
  <2> HIDE DEF all, done
  <2>3. CASE f \in done
      BY <1>8, <2>1, <2>2, <2>3
  <2>4. CASE f \notin done
    <3>1. f \notin suspect /\ f \notin all
        BY <2>2, <2>4
    <3> QED
        BY <1>7, <1>9, <2>1, <2>2, <2>4, <3>1
  <2> QED
      BY <2>3, <2>4
<1> QED
    BY <1>10, <1>11, <1>12 DEF OnMessage

\* A connection that has just been opened is not settled.
LEMMA SettledLink ==
    ASSUME TypeInv, SettledInv, Opened \/ Lose \/ Closed \/ Connect
    PROVE  SettledInv'
<1>1. CASE Opened
  <2> DEFINE r == Request(msgId + 1, "status", None, None)
  <2>1. r.id = msgId + 1
      BY DEF Request
  <2>2. toServer' = <<r>> /\ statusReq' = msgId + 1 /\ loaded' = FALSE
      BY <1>1 DEF Opened, Awaited
  <2> HIDE DEF r
  <2>3. Len(toServer') = 1 /\ toServer'[1] = r /\ 1 \in 1 .. 1
      BY <2>2
  <2>4. ~Settled(toServer', toClient', statusReq', loaded')
      BY <2>1, <2>2, <2>3 DEF Settled
  <2> QED
      BY <2>4, SettledNext
<1>2. CASE Lose \/ Closed \/ Connect
  <2>1. readyState' # "open"
      BY <1>2 DEF Lose, Lost, Closed, Connect
  <2> QED
      BY <2>1, SettledNext
<1> QED
    BY <1>1, <1>2

\* Once a status has been adopted, whatever is not suspect is as it is due.
THEOREM SettledInvariant == Spec => []SettledInv
<1>1. Init => SettledInv
    BY DEF Init, SettledInv
<1>2. TypeInv /\ SoundInv /\ LatestInv /\ SettledInv /\ [Next]_vars => SettledInv'
  <2> SUFFICES ASSUME TypeInv, SoundInv, LatestInv, SettledInv, [Next]_vars
               PROVE  SettledInv'
      OBVIOUS
  <2>1. CASE Opened \/ Lose \/ Closed \/ Connect
      BY <2>1, SettledLink
  <2>2. CASE User
      BY <2>2, SettledUser
  <2>3. CASE ServerHandles
      BY <2>3, SettledServer
  <2>4. CASE Others
      BY <2>4, SettledOthers
  <2>5. CASE OnMessage
      BY <2>5, SettledOnMessage
  <2>6. CASE UNCHANGED vars
    <3>1. UNCHANGED <<server, view, readyState, toServer, toClient, statusReq, loaded, suspect>>
        BY <2>6 DEF vars, link, history
    <3>2. readyState' = "open" /\ Settled(toServer', toClient', statusReq', loaded') =>
              \A f \in Fields \ suspect' :
                  Silent(toClient', 0, f) => Due(server', view', toServer', toClient', f)
        BY <3>1 DEF SettledInv
    <3> QED
        BY <3>2, SettledNext
  <2> QED
      BY <2>1, <2>2, <2>3, <2>4, <2>5, <2>6 DEF Next
<1> QED
    BY <1>1, <1>2, TypeInvariant, SoundInvariant, LatestInvariant, PTL DEF Spec

\* Once nothing is under way, page and server agree on whatever is not suspect.
THEOREM AgreesWhenQuietHolds == Spec => []AgreesWhenQuiet
<1>1. TypeInv /\ SoundInv /\ SettledInv => AgreesWhenQuiet
  <2> SUFFICES ASSUME TypeInv, SoundInv, SettledInv, Quiet, NEW f \in Fields \ suspect
               PROVE  Agrees(f)
      BY DEF AgreesWhenQuiet
  <2>1. readyState = "open" /\ Len(toServer) = 0 /\ Len(toClient) = 0
      BY DEF Quiet
  <2>2. Settled(toServer, toClient, statusReq, loaded) /\ Silent(toClient, 0, f)
      BY <2>1 DEF Settled, Silent
  <2>3. Due(server, view, toServer, toClient, f)
      BY <2>1, <2>2 DEF SettledInv
  <2>4. CASE f = MemberField
    <3>1. view.member = Left(server.member, toServer)
        BY <2>1, <2>3, <2>4 DEF Due
    <3>2. \A c : ~Gone(toServer, c)
        BY <2>1 DEF Gone
    <3>3. view.member = server.member
        BY <3>1, <3>2, NoneGone DEF TypeInv
    <3> QED
        BY <2>4, <3>3 DEF Agrees, MemberField
  <2>5. CASE f # MemberField
    <3>1. Unasked(toServer, 0, f)
        BY <2>1 DEF Unasked
    <3>2. Same(server, Val(view, f), f)
        BY <2>3, <2>5, <3>1 DEF Due
    <3>3. CASE f[1] = "config"
        BY <3>2, <3>3 DEF Same, Val, Agrees
    <3>4. CASE f[1] = "setting"
      <4> DEFINE g == f[2]
      <4>1. g \in GroupsOf(view) => view.setting[g] # None
        <5>1. ASSUME g \in GroupsOf(view)
              PROVE  view.setting[g] # None
          <6>1. PICK c \in Clients : view.member[c] = g /\ g # None
              BY <5>1 DEF GroupsOf
          <6> QED
              BY <6>1 DEF SoundInv, Housed, Known
        <5> QED
            BY <5>1
      <4> QED
          BY <3>2, <3>4, <4>1 DEF Same, Val, Agrees
    <3> QED
        BY <2>5, <3>3, <3>4, FieldKinds
  <2> QED
      BY <2>4, <2>5
<1> QED
    BY <1>1, TypeInvariant, SoundInvariant, SettledInvariant, PTL
=============================================================================
