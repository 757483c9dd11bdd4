----------------------------- MODULE ConsoleProofs -----------------------------
\* Proofs about what the operator sets, shows and controls and about the sessions of
\* customers (MCConsole and the six modules that it chooses from). Each part has an
\* inductive invariant of its own, from which its properties follow.
EXTENDS MCConsole, TLAPS, FiniteSetTheorems, SequenceTheorems

-----------------------------------------------------------------------------
\* Settings

ConsoleState ==
  [pc : {"idle", "form", "update", "disable"}, version : Nat, change : SUBSET Setting!Field,
   values : Setting!Values, account : SUBSET Account, seen : SUBSET Account]

SettingsTyped ==
  /\ profile \in [version : 1..MaxUpdates + 1, values : Setting!Values]
  /\ allowed \subseteq Account /\ settled \in BOOLEAN /\ client \in [Client -> ConsoleState]

\* What an update was filled up with is what the profile of its version has, and an account
\* that was seen is still enabled as long as no two are disabled at once.
ReadsAreCurrent ==
  /\ \A c \in Client :
       /\ client[c].version <= profile.version
       /\ client[c].pc = "update" /\ client[c].version = profile.version =>
            \A f \in Setting!Field \ client[c].change : client[c].values[f] = profile.values[f]
       /\ client[c].pc = "disable" => \E a \in Account : client[c].account = {a}
       /\ client[c].pc = "disable" /\ settled => client[c].seen \subseteq allowed
  /\ settled => allowed # {}

SettingsInv == SettingsTyped /\ ReadsAreCurrent


\* The instance counts as the library does, whose theorems about finite sets are used below.
LEMMA AccountsCounted == \A S : Setting!Cardinality(S) = Cardinality(S)
  BY DEF Setting!Cardinality, Cardinality

\* Who was seen beside one account is more than one.
LEMMA NotTheLast ==
  ASSUME NEW c \in Client, client[c].seen \subseteq Account, ~ Setting!LastOfThem(c), NEW a
  PROVE  client[c].seen \ {a} # {}
  <1>1 IsFiniteSet(client[c].seen)
    BY ConsoleAssumption, FS_Subset
  <1>2 SUFFICES ASSUME client[c].seen \subseteq {a} PROVE FALSE
    OBVIOUS
  <1>3 client[c].seen = {} \/ client[c].seen = {a}
    BY <1>2
  <1>4 Cardinality(client[c].seen) <= 1
    <2>1 Cardinality({}) = 0 /\ Cardinality({a}) = 1
      BY FS_EmptySet, FS_Singleton
    <2> QED
      BY <1>3, <2>1
  <1> QED
    BY <1>4, AccountsCounted DEF Setting!LastOfThem

\* What a client is after a step of its own, and that the others are as they were.
ClientMoves(c, new) ==
  client' = [client EXCEPT ![c] = new]

ReadsOf(d, of, enabled, quietly) ==
  /\ d.version <= of.version
  /\ d.pc = "update" /\ d.version = of.version =>
       \A f \in Setting!Field \ d.change : d.values[f] = of.values[f]
  /\ d.pc = "disable" => \E a \in Account : d.account = {a}
  /\ d.pc = "disable" /\ quietly => d.seen \subseteq enabled

\* ReadsAreCurrent, console by console.
LEMMA ReadsAreOf ==
  SettingsTyped =>
    (ReadsAreCurrent <=>
       /\ \A c \in Client : ReadsOf(client[c], profile, allowed, settled)
       /\ settled => allowed # {})
  BY DEF ReadsAreCurrent, ReadsOf

\* A console that has read nothing has read nothing stale.
LEMMA NothingIsRead ==
  ASSUME NEW of \in [version : 1..MaxUpdates + 1, values : Setting!Values], NEW enabled, NEW quietly
  PROVE  Setting!Nothing \in ConsoleState /\ ReadsOf(Setting!Nothing, of, enabled, quietly)
  <1>1 Setting!Nothing \in ConsoleState
    BY DEF Setting!Nothing, ConsoleState, Setting!Values
  <1>2 Setting!Nothing.pc = "idle" /\ Setting!Nothing.version = 0
    BY DEF Setting!Nothing
  <1> QED
    BY <1>1, <1>2, ConsoleAssumption DEF ReadsOf

\* Each step leaves what every console has read well formed and current.
LEMMA SettingsStep ==
  ASSUME SettingsTyped, \A c \in Client : ReadsOf(client[c], profile, allowed, settled),
         settled => allowed # {}, Setting!Next
  PROVE  /\ SettingsTyped'
         /\ \A c \in Client : ReadsOf(client'[c], profile', allowed', settled')
         /\ settled' => allowed' # {}
  <1> DEFINE G == /\ SettingsTyped'
                  /\ \A c \in Client : ReadsOf(client'[c], profile', allowed', settled')
                  /\ settled' => allowed' # {}
  <1>t /\ profile \in [version : 1..MaxUpdates + 1, values : Setting!Values]
       /\ allowed \subseteq Account /\ settled \in BOOLEAN /\ client \in [Client -> ConsoleState]
       /\ profile.version \in 1..MaxUpdates + 1 /\ profile.values \in Setting!Values /\ MaxUpdates \in Nat
    BY ConsoleAssumption DEF SettingsTyped
  <1>u ASSUME NEW c \in Client, NEW new \in ConsoleState, ClientMoves(c, new),
              UNCHANGED <<profile, allowed, settled>>, ReadsOf(new, profile, allowed, settled)
       PROVE  G
    <2>1 client' \in [Client -> ConsoleState]
      BY <1>t, <1>u DEF ClientMoves
    <2>2 \A d \in Client : client'[d] = IF d = c THEN new ELSE client[d]
      BY <1>t, <1>u DEF ClientMoves
    <2>3 \A d \in Client : ReadsOf(client'[d], profile, allowed, settled)
      BY <1>u, <2>2
    <2> QED
      BY <1>t, <1>u, <2>1, <2>3 DEF SettingsTyped
  <1>1 ASSUME NEW c \in Client, Setting!LoadsForm(c) PROVE G
    <2> DEFINE new == [Setting!Nothing EXCEPT !.pc = "form", !.version = profile.version]
    <2>1 new \in ConsoleState
      <3>1 Setting!Nothing \in ConsoleState /\ profile.version \in Nat
        BY <1>t, NothingIsRead
      <3> QED
        BY <3>1 DEF ConsoleState
    <2>2 new.pc = "form" /\ new.version = profile.version
      BY DEF Setting!Nothing
    <2>3 ClientMoves(c, new) /\ UNCHANGED <<profile, allowed, settled>>
      BY <1>1 DEF Setting!LoadsForm, ClientMoves
    <2> HIDE DEF new, G
    <2>4 ReadsOf(new, profile, allowed, settled)
      BY <1>t, <2>2 DEF ReadsOf
    <2> QED
      BY <1>u, <2>1, <2>3, <2>4
  <1>2 ASSUME NEW c \in Client, NEW named \in SUBSET Setting!Field, NEW values \in Setting!Values,
              Setting!SubmitsUpdate(c, named, values)
       PROVE G
    <2> DEFINE filled == [f \in Setting!Field |-> IF f \in named THEN values[f] ELSE profile.values[f]]
               new == [client[c] EXCEPT !.pc = "update", !.change = named, !.values = filled]
    <2>1 filled \in Setting!Values
      BY <1>t DEF Setting!Values
    <2>2 \A f \in Setting!Field \ named : filled[f] = profile.values[f]
      OBVIOUS
    <2>3 ClientMoves(c, new) /\ UNCHANGED <<profile, allowed, settled>>
      BY <1>2, <1>t DEF Setting!SubmitsUpdate, ClientMoves
    <2> HIDE DEF filled
    <2>4 client[c] \in ConsoleState
      BY <1>t
    <2>5 new \in ConsoleState
      BY <2>1, <2>4 DEF ConsoleState
    <2>6 new.pc = "update" /\ new.version = client[c].version /\ new.change = named /\ new.values = filled
      BY <2>4 DEF ConsoleState
    <2> HIDE DEF new, G
    <2>7 ReadsOf(new, profile, allowed, settled)
      BY <2>2, <2>6 DEF ReadsOf
    <2> QED
      BY <1>u, <2>3, <2>5, <2>7
  <1>3 ASSUME NEW c \in Client, Setting!Updates(c) PROVE G
    <2>1 ClientMoves(c, Setting!Nothing) /\ UNCHANGED <<allowed, settled>> /\ profile.version <= MaxUpdates
      BY <1>3 DEF Setting!Updates, ClientMoves
    <2>2 Setting!Nothing \in ConsoleState
      BY <1>t, NothingIsRead
    <2>3 client' \in [Client -> ConsoleState]
      BY <1>t, <2>1, <2>2 DEF ClientMoves
    <2>4 \A d \in Client : client'[d] = IF d = c THEN Setting!Nothing ELSE client[d]
      BY <1>t, <2>1 DEF ClientMoves
    <2>5 CASE client[c].version = profile.version
      <3>1 profile' = [version |-> profile.version + 1, values |-> client[c].values]
        BY <1>3, <2>5 DEF Setting!Updates
      <3>2 client[c].values \in Setting!Values
        BY <1>t DEF ConsoleState
      <3>3 profile' \in [version : 1..MaxUpdates + 1, values : Setting!Values] /\ profile'.version = profile.version + 1
        BY <1>t, <2>1, <3>1, <3>2
      <3>4 ASSUME NEW d \in Client PROVE ReadsOf(client'[d], profile', allowed', settled')
        <4>1 CASE d = c
          BY <2>4, <3>3, <4>1, NothingIsRead
        <4>2 CASE d # c
          <5>1 client'[d] = client[d] /\ client[d].version \in Nat
            BY <1>t, <2>4, <4>2 DEF ConsoleState
          <5>2 ReadsOf(client[d], profile, allowed, settled)
            OBVIOUS
          <5> QED
            BY <1>t, <2>1, <3>3, <5>1, <5>2 DEF ReadsOf
        <4> QED
          BY <4>1, <4>2
      <3> QED
        BY <1>t, <2>1, <2>3, <3>3, <3>4 DEF SettingsTyped
    <2>6 CASE client[c].version # profile.version
      <3>1 profile' = profile
        BY <1>3, <2>6 DEF Setting!Updates
      <3>2 ReadsOf(Setting!Nothing, profile, allowed, settled)
        BY <1>t, NothingIsRead
      <3> HIDE DEF G
      <3> QED
        BY <1>u, <2>1, <2>2, <3>1, <3>2
    <2> QED
      BY <2>5, <2>6
  <1>4 ASSUME NEW c \in Client, Setting!KeepsLast(c) PROVE G
    <2>1 ClientMoves(c, Setting!Nothing) /\ UNCHANGED <<profile, allowed, settled>>
      BY <1>4 DEF Setting!KeepsLast, ClientMoves
    <2>2 Setting!Nothing \in ConsoleState /\ ReadsOf(Setting!Nothing, profile, allowed, settled)
      BY <1>t, NothingIsRead
    <2> HIDE DEF G
    <2> QED
      BY <1>u, <2>1, <2>2
  <1>5 ASSUME NEW c \in Client, Setting!Disables(c) PROVE G
    <2>1 /\ ClientMoves(c, Setting!Nothing) /\ profile' = profile /\ allowed' = allowed \ client[c].account
         /\ client[c].pc = "disable" /\ ~ Setting!LastOfThem(c)
         /\ settled' = (settled /\ \A d \in Client \ {c} : client[d].pc # "disable")
      BY <1>5 DEF Setting!Disables, ClientMoves
    <2>2 Setting!Nothing \in ConsoleState /\ ReadsOf(Setting!Nothing, profile', allowed', settled')
      BY <1>t, <2>1, NothingIsRead
    <2>3 client' \in [Client -> ConsoleState]
      BY <1>t, <2>1, <2>2 DEF ClientMoves
    <2>4 \A d \in Client : client'[d] = IF d = c THEN Setting!Nothing ELSE client[d]
      BY <1>t, <2>1 DEF ClientMoves
    <2>5 settled' \in BOOLEAN /\ (settled' => settled) /\ (settled' => \A d \in Client \ {c} : client[d].pc # "disable")
      BY <1>t, <2>1
    <2>6 ASSUME NEW d \in Client PROVE ReadsOf(client'[d], profile', allowed', settled')
      <3>1 CASE d = c
        BY <2>2, <2>4, <3>1
      <3>2 CASE d # c
        <4>1 client'[d] = client[d] /\ ReadsOf(client[d], profile, allowed, settled)
          BY <2>4, <3>2
        <4> QED
          BY <2>1, <2>5, <3>2, <4>1 DEF ReadsOf
      <3> QED
        BY <3>1, <3>2
    <2>7 ASSUME settled' PROVE allowed' # {}
      <3>1 PICK a \in Account : client[c].account = {a}
        BY <2>1 DEF ReadsOf
      <3>2 client[c].seen \subseteq allowed
        BY <2>1, <2>5, <2>7 DEF ReadsOf
      <3>3 client[c].seen \ {a} # {}
        BY <1>t, <2>1, <3>2, NotTheLast
      <3> QED
        BY <2>1, <3>1, <3>2, <3>3
    <2> QED
      BY <1>t, <2>1, <2>3, <2>5, <2>6, <2>7 DEF SettingsTyped
  <1>6 ASSUME NEW c \in Client, NEW a \in Account, Setting!AsksToDisable(c, a) PROVE G
    <2> DEFINE new == [client[c] EXCEPT !.pc = "disable", !.account = {a}, !.seen = allowed]
    <2>1 client[c] \in ConsoleState
      BY <1>t
    <2>2 new \in ConsoleState
      BY <1>t, <2>1 DEF ConsoleState
    <2>3 new.pc = "disable" /\ new.version = client[c].version /\ new.account = {a} /\ new.seen = allowed
      BY <2>1 DEF ConsoleState
    <2>4 ClientMoves(c, new) /\ UNCHANGED <<profile, allowed, settled>>
      BY <1>6, <1>t DEF Setting!AsksToDisable, ClientMoves
    <2> HIDE DEF new, G
    <2>5 ReadsOf(new, profile, allowed, settled)
      BY <2>3 DEF ReadsOf
    <2> QED
      BY <1>u, <2>2, <2>4, <2>5
  <1>7 ASSUME NEW a \in Account, Setting!Enables(a) PROVE G
    <2>1 /\ allowed' = allowed \cup {a} /\ UNCHANGED <<profile, client>>
         /\ settled' = (settled \/ \A c \in Client : client[c].pc # "disable")
      BY <1>7 DEF Setting!Enables
    <2>2 ASSUME NEW d \in Client PROVE ReadsOf(client[d], profile, allowed', settled')
      BY <2>1 DEF ReadsOf
    <2> QED
      BY <1>t, <2>1, <2>2 DEF SettingsTyped
  <1> HIDE DEF G
  <1>8 ASSUME NEW c \in Client,
              \/ Setting!LoadsForm(c) \/ Setting!Updates(c) \/ Setting!KeepsLast(c) \/ Setting!Disables(c)
              \/ (\E named \in SUBSET Setting!Field, values \in Setting!Values : Setting!SubmitsUpdate(c, named, values))
              \/ (\E a \in Account : Setting!AsksToDisable(c, a))
       PROVE  G
    BY <1>1, <1>2, <1>3, <1>4, <1>5, <1>6, <1>8
  <1>9 G
    BY <1>7, <1>8 DEF Setting!Next
  <1> QED
    BY <1>9 DEF G

\* The profile begins at version 1 with every account enabled and no console at work.
LEMMA SettingsStart ==
  ASSUME Setting!Init
  PROVE  SettingsInv
  <1>1 profile = [version |-> 1, values |-> [f \in Setting!Field |-> TRUE]]
    BY DEF Setting!Init
  <1>2 profile \in [version : 1..MaxUpdates + 1, values : Setting!Values]
    BY <1>1, ConsoleAssumption DEF Setting!Values
  <1>3 Setting!Nothing \in ConsoleState /\ ReadsOf(Setting!Nothing, profile, allowed, settled)
    BY <1>2, NothingIsRead
  <1>4 client = [c \in Client |-> Setting!Nothing] /\ allowed = Account /\ settled = TRUE
    BY DEF Setting!Init
  <1>5 SettingsTyped
    BY <1>2, <1>3, <1>4 DEF SettingsTyped
  <1>6 \A c \in Client : ReadsOf(client[c], profile, allowed, settled)
    BY <1>3, <1>4
  <1>7 allowed # {}
    BY <1>4, ConsoleAssumption
  <1> QED
    BY <1>5, <1>6, <1>7, ReadsAreOf DEF SettingsInv

SettingsHeld == focus = "settings" => SettingsInv

\* The invariant holds throughout a run in which the settings take the steps.
LEMMA SettingsInvariant == MCSpec => []SettingsHeld
  <1>1 ASSUME MCInit PROVE SettingsHeld
    BY <1>1, SettingsStart DEF MCInit, SettingsHeld
  <1>2 ASSUME SettingsHeld, MCNext PROVE SettingsHeld'
    <2>1 CASE Sets
      <3>1 SettingsInv /\ Setting!Next
        BY <1>2, <2>1 DEF Sets, SettingsHeld
      <3>2 /\ SettingsTyped /\ \A c \in Client : ReadsOf(client[c], profile, allowed, settled)
           /\ settled => allowed # {}
        BY <3>1, ReadsAreOf DEF SettingsInv
      <3>3 /\ SettingsTyped' /\ \A c \in Client : ReadsOf(client'[c], profile', allowed', settled')
           /\ settled' => allowed' # {}
        BY <3>1, <3>2, SettingsStep
      <3> QED
        BY <3>3 DEF SettingsHeld, SettingsInv, ReadsAreCurrent, ReadsOf
    <2>2 CASE ~ Sets
      BY <1>2, <2>2 DEF MCNext, Alerts, Notifies, SharesSession, Controls, Views, SettingsHeld, operatorVars
    <2> QED
      BY <2>1, <2>2
  <1>3 ASSUME SettingsHeld, UNCHANGED <<focus, operatorVars, notificationVars, controlVars, clientVars>>
       PROVE  SettingsHeld'
    <2>1 UNCHANGED <<focus, settingVars>>
      BY <1>3 DEF operatorVars
    <2> QED
      BY <1>3, <2>1 DEF settingVars, SettingsHeld, SettingsInv, SettingsTyped, ReadsAreCurrent
  <1> QED
    BY <1>1, <1>2, <1>3, PTL DEF MCSpec

\* An update that is committed was filled up from the profile that it replaces.
LEMMA UnnamedAreKept ==
  ASSUME SettingsInv, Setting!Next
  PROVE  Setting!KeepsUnnamed
  <1> SUFFICES ASSUME NEW c \in Client, client[c].pc = "update", client'[c].pc = "idle", profile' # profile,
                      NEW f \in Setting!Field \ client[c].change
               PROVE  profile'.values[f] = profile.values[f]
    BY DEF Setting!KeepsUnnamed
  <1>1 PICK d \in Client : Setting!Updates(d)
    BY DEF Setting!Next, Setting!LoadsForm, Setting!KeepsLast, Setting!Disables, Setting!SubmitsUpdate,
       Setting!AsksToDisable, Setting!Enables
  <1>2 d = c
    BY <1>1 DEF Setting!Updates, SettingsInv, SettingsTyped
  <1>3 client[c].version = profile.version /\ profile'.values = client[c].values
    BY <1>1, <1>2 DEF Setting!Updates
  <1> QED
    BY <1>3 DEF SettingsInv, ReadsAreCurrent

-----------------------------------------------------------------------------
\* Alerts

Item == {"fill", "move", "reload"} \X Alerting!Service
DraftState ==
  [pc : {"idle", "counting", "importing", "version", "content", "form", "checking", "rendering",
         "saved"},
   goal : {"form", "save", "secret"}, from : {"config", "source"}, next : Nat, version : Nat,
   seen : SUBSET Rule, rules : SUBSET Rule, keeps : BOOLEAN, current : Nat, secret : Nat,
   written : Nat, beside : SUBSET Nat, todo : Seq(Item)]

AlertsTyped ==
  /\ version \in 1..MaxVersion /\ rules \subseteq Rule /\ password \in 0..version
  /\ file \in [Alerting!Service -> 0..version] /\ served \in [Alerting!Service -> 0..version]
  /\ temporary \in [Alerting!Service -> -1..version]
  /\ saved \in Seq(SUBSET Rule) /\ Len(saved) = version
  /\ draft \in [Operator -> DraftState]

\* What a request has read is of the version that it has read before, while that is current.
HasSeen(o) == draft[o].pc = "form" \/ draft[o].goal \in {"save", "secret"}
DraftsAreRead ==
  \A o \in Operator :
    /\ draft[o].next >= 1
    /\ draft[o].version <= version /\ draft[o].current <= version /\ draft[o].secret <= version
    /\ draft[o].written <= version
    /\ draft[o].pc = "checking" => draft[o].goal = "secret"
    /\ draft[o].pc = "content" => draft[o].goal \in {"form", "secret"}
    /\ draft[o].pc = "checking" /\ draft[o].current = version => draft[o].secret = password
    /\ HasSeen(o) /\ draft[o].from = "config" /\ draft[o].version = version =>
         draft[o].seen \subseteq rules /\ rules \ draft[o].seen \subseteq Alerting!SourceRules

\* Where a save is in its plan. What it finds in place of what it has written is of a save
\* that was rendering beside it or that came later.
Plan(from) == Alerting!Remaining(from)
Left(o, from, n) ==
  /\ n \in 1..Len(Plan(from)) + 1
  /\ Len(draft[o].todo) = Len(Plan(from)) + 1 - n
  /\ \A i \in 1..Len(draft[o].todo) : draft[o].todo[i] = Plan(from)[n + i - 1]
Underway(o) == draft[o].pc \in {"rendering", "saved"}
May(o) == draft[o].beside \cup draft[o].written..version
DoneBy(may, n, filled, moved, loaded) ==
  /\ n >= 2 => filled["Prometheus"] \in may \cup {-1}
  /\ n >= 3 => moved["Prometheus"] \in may
  /\ n >= 4 => filled["Alertmanager"] \in may \cup {-1}
  /\ n >= 5 => moved["Alertmanager"] \in may
  /\ n >= 6 => loaded["Prometheus"] \in may
  /\ n >= 7 => loaded["Alertmanager"] \in may
Done(o, n) == DoneBy(May(o), n, temporary, file, served)
SavesInOrder ==
  \A o \in Operator :
    /\ draft[o].pc = "rendering" <=> draft[o].todo # <<>>
    /\ ~ Underway(o) => draft[o].written = 0
    /\ Underway(o) =>
         /\ \A t \in Operator : draft[t].pc = "rendering" => draft[t].written \in May(o)
         /\ \E from \in {"config", "source"} : \E n \in 1..10 : Left(o, from, n) /\ Done(o, n)

AlertsInv == AlertsTyped /\ DraftsAreRead /\ SavesInOrder


\* What one request has read, of the configuration as it is.
ReadOf(d, v, inTable, secretOf) ==
  /\ d.next >= 1
  /\ d.version <= v /\ d.current <= v /\ d.secret <= v /\ d.written <= v
  /\ d.pc = "checking" => d.goal = "secret"
  /\ d.pc = "content" => d.goal \in {"form", "secret"}
  /\ d.pc = "checking" /\ d.current = v => d.secret = secretOf
  /\ (d.pc = "form" \/ d.goal \in {"save", "secret"}) /\ d.from = "config" /\ d.version = v =>
       d.seen \subseteq inTable /\ inTable \ d.seen \subseteq Alerting!SourceRules
AllRead == \A o \in Operator : ReadOf(draft[o], version, rules, password)

\* DraftsAreRead, draft by draft.
LEMMA AllReadIs == DraftsAreRead <=> AllRead
  BY DEF DraftsAreRead, AllRead, ReadOf, HasSeen

\* What stands in the source file are rules.
LEMMA SourceIsRules ==
  /\ Alerting!SourceRules \subseteq Rule
  /\ \A n \in Nat : n >= 1 /\ n <= Len(Source) => Source[n] \in Alerting!SourceRules
  BY ConsoleAssumption DEF Alerting!SourceRules

\* A request that has not begun has read, written and planned nothing.
LEMMA BlankFields ==
  /\ Alerting!Blank.pc = "idle" /\ Alerting!Blank.goal = "form" /\ Alerting!Blank.next = 1
  /\ Alerting!Blank.version = 0 /\ Alerting!Blank.current = 0 /\ Alerting!Blank.secret = 0
  /\ Alerting!Blank.written = 0 /\ Alerting!Blank.todo = <<>>
  BY DEF Alerting!Blank

\* A request that has not begun is well typed.
LEMMA BlankTyped == Alerting!Blank \in DraftState
  <1>1 <<>> \in Seq(Item)
    OBVIOUS
  <1> QED
    BY <1>1 DEF Alerting!Blank, DraftState

\* A step of one request that commits nothing leaves what all have read well formed.
LEMMA OneReads ==
  ASSUME AlertsTyped, AllRead, NEW o \in Operator, NEW new \in DraftState,
         draft' = [draft EXCEPT ![o] = new], UNCHANGED <<version, password, saved>>,
         rules' \subseteq Rule, rules \subseteq rules', rules' \subseteq rules \cup Alerting!SourceRules,
         file' \in [Alerting!Service -> 0..version], served' \in [Alerting!Service -> 0..version],
         temporary' \in [Alerting!Service -> -1..version],
         ReadOf(new, version, rules', password)
  PROVE  AlertsTyped' /\ AllRead'
  <1>1 draft' \in [Operator -> DraftState]
    BY DEF AlertsTyped
  <1>2 ASSUME NEW t \in Operator PROVE ReadOf(draft'[t], version, rules', password)
    <2>1 CASE t = o
      BY <2>1 DEF AlertsTyped
    <2>2 CASE t # o
      <3>1 draft'[t] = draft[t] /\ ReadOf(draft[t], version, rules, password)
        BY <2>2 DEF AlertsTyped, AllRead
      <3> QED
        BY <3>1 DEF ReadOf
    <2> QED
      BY <2>1, <2>2
  <1>3 AllRead'
    BY <1>2 DEF AllRead
  <1>4 AlertsTyped'
    BY <1>1 DEF AlertsTyped
  <1> QED
    BY <1>3, <1>4

\* The same where the request does not render: the saves under way are not disturbed.
LEMMA QuietStep ==
  ASSUME AlertsTyped, SavesInOrder, NEW o \in Operator, NEW new \in DraftState,
         draft' = [draft EXCEPT ![o] = new], UNCHANGED <<version, temporary, file, served>>,
         new.pc \notin {"rendering", "saved"}, new.todo = <<>>, new.written = 0
  PROVE  SavesInOrder'
  <1>1 \A t \in Operator : draft'[t] = IF t = o THEN new ELSE draft[t]
    BY DEF AlertsTyped
  <1>2 ASSUME NEW t \in Operator
       PROVE  /\ draft'[t].pc = "rendering" <=> draft'[t].todo # <<>>
              /\ ~ Underway(t)' => draft'[t].written = 0
    BY <1>1 DEF SavesInOrder, Underway
  <1>3 ASSUME NEW t \in Operator, Underway(t)'
       PROVE  /\ \A u \in Operator : draft'[u].pc = "rendering" => draft'[u].written \in May(t)'
              /\ \E from \in {"config", "source"} : \E n \in 1..10 : Left(t, from, n)' /\ Done(t, n)'
    <2>1 t # o /\ draft'[t] = draft[t]
      BY <1>1, <1>3 DEF Underway
    <2>2 Underway(t) /\ May(t)' = May(t)
      BY <1>3, <2>1 DEF Underway, May
    <2>3 PICK from \in {"config", "source"}, n \in 1..10 : Left(t, from, n) /\ Done(t, n)
      BY <2>2 DEF SavesInOrder
    <2>4 Left(t, from, n)'
      BY <2>1, <2>3 DEF Left, Plan, Alerting!Remaining, Alerting!Renders
    <2>5 Done(t, n)'
      BY <2>2, <2>3 DEF Done, DoneBy
    <2>6 \A u \in Operator : draft[u].pc = "rendering" => draft[u].written \in May(t)
      BY <2>2 DEF SavesInOrder
    <2>7 \A u \in Operator : draft'[u].pc = "rendering" => draft'[u].written \in May(t)'
      BY <1>1, <2>2, <2>6
    <2> QED
      BY <2>4, <2>5, <2>7
  <1> QED
    BY <1>2, <1>3 DEF SavesInOrder

\* The steps before a save: a request is made, reads, is edited, or gives up.
LEMMA ReadingStep ==
  ASSUME AlertsInv, NEW o \in Operator,
         \/ \E from \in {"config", "source"} : Alerting!Requests(o, from)
         \/ Alerting!CountsRules(o) \/ Alerting!ImportsRule(o) \/ Alerting!ReadsVersion(o)
         \/ Alerting!ReadsContent(o) \/ Alerting!Refused(o)
         \/ \E edited \in SUBSET Rule, keeps \in BOOLEAN : Alerting!Edits(o, edited, keeps)
  PROVE  AlertsInv'
  <1>t /\ AlertsTyped /\ AllRead /\ SavesInOrder /\ draft \in [Operator -> DraftState]
       /\ draft[o] \in DraftState /\ ReadOf(draft[o], version, rules, password)
       /\ draft[o].pc # "rendering" => draft[o].todo = <<>>
       /\ draft[o].pc \notin {"rendering", "saved"} => draft[o].written = 0
       /\ version \in Nat /\ rules \subseteq Rule /\ password \in 0..version
    BY AllReadIs, ConsoleAssumption DEF AlertsInv, AlertsTyped, AllRead, SavesInOrder, Underway
  <1>u ASSUME NEW new \in DraftState, draft' = [draft EXCEPT ![o] = new],
              UNCHANGED <<version, password, temporary, file, served, saved>>,
              rules' \subseteq Rule, rules \subseteq rules', rules' \subseteq rules \cup Alerting!SourceRules,
              ReadOf(new, version, rules', password),
              new.pc \notin {"rendering", "saved"}, new.todo = <<>>, new.written = 0
       PROVE  AlertsInv'
    <2>1 /\ file' \in [Alerting!Service -> 0..version] /\ served' \in [Alerting!Service -> 0..version]
         /\ temporary' \in [Alerting!Service -> -1..version]
      BY <1>t, <1>u DEF AlertsTyped
    <2>2 AlertsTyped' /\ AllRead'
      BY <1>t, <1>u, <2>1, OneReads
    <2>3 SavesInOrder'
      BY <1>t, <1>u, QuietStep
    <2>4 AllRead' => DraftsAreRead'
      BY DEF DraftsAreRead, AllRead, ReadOf, HasSeen
    <2> QED
      BY <2>2, <2>3, <2>4 DEF AlertsInv
  <1>b /\ Alerting!Blank \in DraftState /\ ReadOf(Alerting!Blank, version, rules, password)
       /\ Alerting!Blank.pc \notin {"rendering", "saved"}
    BY <1>t, BlankTyped, BlankFields DEF ReadOf
  <1>v draft[o] \in DraftState /\ version \in Nat /\ password \in Nat
    BY <1>t
  <1>1 ASSUME NEW from \in {"config", "source"}, Alerting!Requests(o, from) PROVE AlertsInv'
    <2> DEFINE new == [Alerting!Blank EXCEPT !.pc = "counting", !.from = from]
    <2>1 /\ draft' = [draft EXCEPT ![o] = new]
         /\ UNCHANGED <<version, rules, password, temporary, file, served, saved>>
      BY <1>1 DEF Alerting!Requests
    <2>2 new \in DraftState
      BY BlankTyped DEF DraftState
    <2>3 /\ new.pc = "counting" /\ new.goal = "form" /\ new.next = 1
         /\ new.version = 0 /\ new.current = 0 /\ new.secret = 0 /\ new.written = 0 /\ new.todo = <<>>
      BY DEF Alerting!Blank
    <2> HIDE DEF new
    <2>4 ReadOf(new, version, rules, password)
      BY <1>t, <2>3 DEF ReadOf
    <2> QED
      BY <1>t, <1>u, <2>1, <2>2, <2>3, <2>4
  <1>2 ASSUME Alerting!CountsRules(o) PROVE AlertsInv'
    <2>1 PICK pc \in {"importing", "content", "version"} :
           /\ draft' = [draft EXCEPT ![o].pc = pc]
           /\ pc = "content" => draft[o].goal = "secret"
      BY <1>2 DEF Alerting!CountsRules, Alerting!AfterImport
    <2> DEFINE new == [draft[o] EXCEPT !.pc = pc]
    <2>2 /\ draft' = [draft EXCEPT ![o] = new] /\ draft[o].pc = "counting"
         /\ UNCHANGED <<version, rules, password, temporary, file, served, saved>>
      BY <1>2, <1>t, <2>1 DEF Alerting!CountsRules, Alerting!Asks
    <2>3 new \in DraftState
      BY <1>v DEF DraftState
    <2>4 /\ new.pc = pc /\ new.goal = draft[o].goal /\ new.from = draft[o].from /\ new.next = draft[o].next
         /\ new.version = draft[o].version /\ new.seen = draft[o].seen
         /\ new.current = draft[o].current /\ new.secret = draft[o].secret
         /\ new.written = draft[o].written /\ new.todo = draft[o].todo
      BY <1>t DEF DraftState
    <2> HIDE DEF new
    <2>5 ReadOf(new, version, rules, password)
      BY <1>t, <2>1, <2>4 DEF ReadOf
    <2> QED
      BY <1>t, <1>u, <2>1, <2>2, <2>3, <2>4, <2>5
  <1>3 ASSUME Alerting!ImportsRule(o) PROVE AlertsInv'
    <2> DEFINE next == draft[o].next
               more == next <= Len(Source) /\ Source[next] \notin rules
    <2>0 draft[o].pc = "importing" /\ UNCHANGED <<version, password, temporary, file, served, saved>>
      BY <1>3 DEF Alerting!ImportsRule, Alerting!Asks
    <2>n next \in Nat /\ next >= 1
      BY <1>t DEF DraftState, ReadOf
    <2>1 CASE more
      <3> DEFINE new == [draft[o] EXCEPT !.next = next + 1]
      <3>1 draft' = [draft EXCEPT ![o] = new] /\ rules' = rules \cup {Source[next]}
        BY <1>3, <1>t, <2>1 DEF Alerting!ImportsRule
      <3>2 new \in DraftState
        <4>1 next + 1 \in Nat
          BY <2>n
        <4> HIDE DEF next
        <4> QED
          BY <1>v, <4>1 DEF DraftState
      <3>3 /\ new.next = next + 1 /\ new.pc = draft[o].pc
           /\ new.goal = draft[o].goal /\ new.from = draft[o].from
           /\ new.version = draft[o].version /\ new.seen = draft[o].seen
           /\ new.current = draft[o].current /\ new.secret = draft[o].secret
           /\ new.written = draft[o].written /\ new.todo = draft[o].todo
        BY <1>t DEF DraftState
      <3>4 Source[next] \in Alerting!SourceRules /\ Source[next] \in Rule
        BY <2>1, <2>n, SourceIsRules
      <3> HIDE DEF new
      <3>5 ReadOf(new, version, rules', password)
        BY <1>t, <2>0, <2>n, <3>1, <3>3, <3>4 DEF ReadOf
      <3>6 rules' \subseteq Rule /\ rules \subseteq rules' /\ rules' \subseteq rules \cup Alerting!SourceRules
        BY <1>t, <3>1, <3>4
      <3> QED
        BY <1>t, <1>u, <2>0, <3>1, <3>2, <3>3, <3>5, <3>6
    <2>2 CASE ~ more
      <3>1 PICK pc \in {"content", "version"} :
             /\ draft' = [draft EXCEPT ![o].pc = pc, ![o].next = 1]
             /\ pc = "content" => draft[o].goal = "secret"
        BY <1>3, <2>2 DEF Alerting!ImportsRule, Alerting!AfterImport
      <3> DEFINE new == [draft[o] EXCEPT !.pc = pc, !.next = 1]
      <3>2 draft' = [draft EXCEPT ![o] = new] /\ rules' = rules
        BY <1>3, <1>t, <2>2, <3>1 DEF Alerting!ImportsRule
      <3>3 new \in DraftState
        BY <1>v DEF DraftState
      <3>4 /\ new.next = 1 /\ new.pc = pc
           /\ new.goal = draft[o].goal /\ new.from = draft[o].from
           /\ new.version = draft[o].version /\ new.seen = draft[o].seen
           /\ new.current = draft[o].current /\ new.secret = draft[o].secret
           /\ new.written = draft[o].written /\ new.todo = draft[o].todo
        BY <1>t DEF DraftState
      <3> HIDE DEF new
      <3>5 ReadOf(new, version, rules, password)
        BY <1>t, <3>1, <3>4 DEF ReadOf
      <3> QED
        BY <1>t, <1>u, <2>0, <3>1, <3>2, <3>3, <3>4, <3>5
    <2> QED
      BY <2>1, <2>2
  <1>4 ASSUME Alerting!ReadsVersion(o) PROVE AlertsInv'
    <2>0 /\ draft[o].pc = "version"
         /\ UNCHANGED <<version, rules, password, temporary, file, served, saved>>
      BY <1>4 DEF Alerting!ReadsVersion, Alerting!Asks
    <2>1 CASE draft[o].goal = "form"
      <3> DEFINE new == [draft[o] EXCEPT !.pc = "content", !.version = version]
      <3>1 draft' = [draft EXCEPT ![o] = new]
        BY <1>4, <1>t, <2>1 DEF Alerting!ReadsVersion
      <3>2 new \in DraftState
        BY <1>v DEF DraftState
      <3>3 /\ new.next = draft[o].next /\ new.pc = "content"
           /\ new.goal = draft[o].goal /\ new.version = version
           /\ new.current = draft[o].current /\ new.secret = draft[o].secret
           /\ new.written = draft[o].written /\ new.todo = draft[o].todo
        BY <1>t DEF DraftState
      <3> HIDE DEF new
      <3>4 ReadOf(new, version, rules, password)
        BY <1>t, <2>1, <3>3 DEF ReadOf
      <3> QED
        BY <1>t, <1>u, <2>0, <3>1, <3>2, <3>3, <3>4
    <2>2 CASE draft[o].goal # "form"
      <3> DEFINE new == [draft[o] EXCEPT !.pc = "counting", !.goal = "secret", !.current = version]
      <3>1 draft' = [draft EXCEPT ![o] = new]
        BY <1>4, <1>t, <2>2 DEF Alerting!ReadsVersion
      <3>2 new \in DraftState
        BY <1>v DEF DraftState
      <3>3 /\ new.next = draft[o].next /\ new.pc = "counting"
           /\ new.goal = "secret" /\ new.from = draft[o].from
           /\ new.version = draft[o].version /\ new.seen = draft[o].seen
           /\ new.current = version /\ new.secret = draft[o].secret
           /\ new.written = draft[o].written /\ new.todo = draft[o].todo
        BY <1>t DEF DraftState
      <3>4 draft[o].goal \in {"save", "secret"}
        BY <1>t, <2>2 DEF DraftState
      <3> HIDE DEF new
      <3>5 ReadOf(new, version, rules, password)
        BY <1>t, <3>3, <3>4 DEF ReadOf
      <3> QED
        BY <1>t, <1>u, <2>0, <3>1, <3>2, <3>3, <3>5
    <2> QED
      BY <2>1, <2>2
  <1>5 ASSUME Alerting!ReadsContent(o) PROVE AlertsInv'
    <2>0 /\ draft[o].pc = "content" /\ draft[o].goal \in {"form", "secret"}
         /\ UNCHANGED <<version, rules, password, temporary, file, served, saved>>
      BY <1>5, <1>t DEF Alerting!ReadsContent, Alerting!Asks, ReadOf
    <2>1 CASE draft[o].goal = "secret"
      <3> DEFINE new == [draft[o] EXCEPT !.pc = "checking", !.secret = password]
      <3>1 draft' = [draft EXCEPT ![o] = new]
        BY <1>5, <1>t, <2>1 DEF Alerting!ReadsContent
      <3>2 new \in DraftState
        BY <1>v DEF DraftState
      <3>3 /\ new.next = draft[o].next /\ new.pc = "checking"
           /\ new.goal = draft[o].goal /\ new.from = draft[o].from
           /\ new.version = draft[o].version /\ new.seen = draft[o].seen
           /\ new.current = draft[o].current /\ new.secret = password
           /\ new.written = draft[o].written /\ new.todo = draft[o].todo
        BY <1>t DEF DraftState
      <3> HIDE DEF new
      <3>4 ReadOf(new, version, rules, password)
        BY <1>t, <2>1, <3>3 DEF ReadOf
      <3> QED
        BY <1>t, <1>u, <2>0, <3>1, <3>2, <3>3, <3>4
    <2>2 CASE draft[o].goal # "secret"
      <3> DEFINE looked == IF draft[o].from = "source" THEN Alerting!InFile ELSE rules
                 new == [draft[o] EXCEPT !.pc = "form", !.seen = looked]
      <3>1 draft' = [draft EXCEPT ![o] = new]
        BY <1>5, <1>t, <2>2 DEF Alerting!ReadsContent
      <3>2 Alerting!InFile \subseteq Rule
        <4>1 file["Prometheus"] \in 0..version /\ saved \in Seq(SUBSET Rule) /\ Len(saved) = version
          BY <1>t DEF AlertsTyped, Alerting!Service
        <4>2 file["Prometheus"] # 0 => saved[file["Prometheus"]] \in SUBSET Rule
          BY <1>t, <4>1
        <4> QED
          BY <4>2, SourceIsRules DEF Alerting!InFile
      <3>3 looked \subseteq Rule /\ (draft[o].from = "config" => looked = rules)
        BY <1>t, <3>2
      <3> HIDE DEF looked
      <3>4 new \in DraftState
        BY <1>t, <3>3 DEF DraftState
      <3>5 /\ new.next = draft[o].next /\ new.pc = "form"
           /\ new.goal = draft[o].goal /\ new.from = draft[o].from
           /\ new.version = draft[o].version /\ new.seen = looked
           /\ new.current = draft[o].current /\ new.secret = draft[o].secret
           /\ new.written = draft[o].written /\ new.todo = draft[o].todo
        BY <1>t DEF DraftState
      <3> HIDE DEF new
      <3>6 ReadOf(new, version, rules, password)
        BY <1>t, <3>3, <3>5 DEF ReadOf
      <3> QED
        BY <1>t, <1>u, <2>0, <3>1, <3>4, <3>5, <3>6
    <2> QED
      BY <2>1, <2>2
  <1>6 ASSUME Alerting!Refused(o) PROVE AlertsInv'
    <2>1 /\ draft' = [draft EXCEPT ![o] = Alerting!Blank]
         /\ UNCHANGED <<version, rules, password, temporary, file, served, saved>>
      BY <1>6 DEF Alerting!Refused, Alerting!GivesUp
    <2> QED
      BY <1>t, <1>b, <1>u, <2>1, BlankFields
  <1>7 ASSUME NEW edited \in SUBSET Rule, NEW keeps \in BOOLEAN, Alerting!Edits(o, edited, keeps) PROVE AlertsInv'
    <2> DEFINE new == [draft[o] EXCEPT !.pc = "counting", !.goal = "save", !.rules = edited, !.keeps = keeps]
    <2>1 /\ draft' = [draft EXCEPT ![o] = new] /\ draft[o].pc = "form"
         /\ UNCHANGED <<version, rules, password, temporary, file, served, saved>>
      BY <1>7, <1>t DEF Alerting!Edits, Alerting!Asks
    <2>2 new \in DraftState
      BY <1>v DEF DraftState
    <2>3 /\ new.next = draft[o].next /\ new.pc = "counting"
         /\ new.goal = "save" /\ new.from = draft[o].from
         /\ new.version = draft[o].version /\ new.seen = draft[o].seen
         /\ new.current = draft[o].current /\ new.secret = draft[o].secret
         /\ new.written = draft[o].written /\ new.todo = draft[o].todo
      BY <1>t DEF DraftState
    <2> HIDE DEF new
    <2>4 ReadOf(new, version, rules, password)
      BY <1>t, <2>1, <2>3 DEF ReadOf
    <2> QED
      BY <1>t, <1>u, <2>1, <2>2, <2>3, <2>4
  <1> QED
    BY <1>1, <1>2, <1>3, <1>4, <1>5, <1>6, <1>7

\* The plan of a save, item by item; that of the source goes on after six.
PlanItem(n) ==
  IF n \in {1, 7} THEN <<"fill", "Prometheus">>
  ELSE IF n \in {2, 8} THEN <<"move", "Prometheus">>
  ELSE IF n = 3 THEN <<"fill", "Alertmanager">>
  ELSE IF n = 4 THEN <<"move", "Alertmanager">>
  ELSE IF n \in {5, 9} THEN <<"reload", "Prometheus">>
  ELSE <<"reload", "Alertmanager">>

\* A rendering has nine steps when it begins with the rules of the source file, and six
\* otherwise: per service it fills the temporary file, moves it into place and reloads.
LEMMA PlanIs ==
  ASSUME NEW from \in {"config", "source"}
  PROVE  /\ Plan(from) \in Seq(Item)
         /\ Len(Plan(from)) = IF from = "source" THEN 9 ELSE 6
         /\ \A n \in 1..Len(Plan(from)) : Plan(from)[n] = PlanItem(n)
  <1> DEFINE again == <<<<"fill", "Prometheus">>, <<"move", "Prometheus">>, <<"reload", "Prometheus">>>>
  <1>1 /\ Alerting!Renders \in Seq(Item) /\ Len(Alerting!Renders) = 6
       /\ Alerting!Renders[1] = PlanItem(1) /\ Alerting!Renders[2] = PlanItem(2)
       /\ Alerting!Renders[3] = PlanItem(3) /\ Alerting!Renders[4] = PlanItem(4)
       /\ Alerting!Renders[5] = PlanItem(5) /\ Alerting!Renders[6] = PlanItem(6)
    BY DEF Alerting!Renders, PlanItem, Item, Alerting!Service
  <1>2 /\ again \in Seq(Item) /\ Len(again) = 3
       /\ again[1] = PlanItem(7) /\ again[2] = PlanItem(8) /\ again[3] = PlanItem(9)
    BY DEF PlanItem, Item, Alerting!Service
  <1>3 Plan(from) = IF from = "source" THEN Alerting!Renders \o again ELSE Alerting!Renders
    BY DEF Plan, Alerting!Remaining
  <1> HIDE DEF again
  <1>4 CASE from = "source"
    <2> DEFINE whole == Alerting!Renders \o again
    <2>0 ASSUME NEW s \in Seq(Item), NEW t \in Seq(Item), Len(s) = 6, Len(t) = 3
         PROVE  /\ s \o t \in Seq(Item) /\ Len(s \o t) = 9
                /\ \A n \in 1..9 : (s \o t)[n] = IF n <= 6 THEN s[n] ELSE t[n - 6]
      <3>1 /\ s \o t \in Seq(Item) /\ Len(s \o t) = Len(s) + Len(t)
           /\ \A n \in 1..Len(s) + Len(t) : (s \o t)[n] = IF n <= Len(s) THEN s[n] ELSE t[n - Len(s)]
        BY ConcatProperties
      <3>2 Len(s) + Len(t) = 9
        BY <2>0
      <3> QED
        BY <2>0, <3>1, <3>2
    <2>1 /\ whole \in Seq(Item) /\ Len(whole) = 9
         /\ \A n \in 1..9 : whole[n] = IF n <= 6 THEN Alerting!Renders[n] ELSE again[n - 6]
      BY <1>1, <1>2, <2>0
    <2> HIDE DEF whole
    <2>3 \A n \in 1..6 : whole[n] = Alerting!Renders[n]
      BY <2>1
    <2>4 whole[7] = again[1] /\ whole[8] = again[2] /\ whole[9] = again[3]
      BY <2>1
    <2>5 Plan(from) = whole
      BY <1>3, <1>4 DEF whole
    <2>6 ASSUME NEW n \in 1..9 PROVE whole[n] = PlanItem(n)
      <3>1 \/ n = 1 \/ n = 2 \/ n = 3 \/ n = 4 \/ n = 5 \/ n = 6 \/ n = 7 \/ n = 8 \/ n = 9
        OBVIOUS
      <3> QED
        BY <1>1, <1>2, <2>3, <2>4, <3>1
    <2> QED
      BY <1>4, <2>1, <2>5, <2>6
  <1>5 CASE from = "config"
    <2>1 ASSUME NEW n \in 1..6 PROVE Alerting!Renders[n] = PlanItem(n)
      <3>1 \/ n = 1 \/ n = 2 \/ n = 3 \/ n = 4 \/ n = 5 \/ n = 6
        OBVIOUS
      <3> QED
        BY <1>1, <3>1
    <2>2 Plan(from) = Alerting!Renders
      BY <1>3, <1>5
    <2> QED
      BY <1>1, <1>5, <2>1, <2>2
  <1> QED
    BY <1>4, <1>5

\* The transaction of a save: whoever read the version before has lost.
LEMMA CommitStep ==
  ASSUME AlertsInv, NEW o \in Operator, Alerting!Commits(o)
  PROVE  AlertsInv'
  <1> DEFINE rendering == {t \in Operator \ {o} : draft[t].todo # <<>>}
             plan == Alerting!Remaining(draft[o].from)
             beside == {draft[t].written : t \in rendering}
             count == version + 1
             first == [Alerting!Blank EXCEPT !.pc = "rendering", !.written = count, !.beside = beside,
                         !.todo = plan]
  <1>t /\ AlertsTyped /\ AllRead /\ SavesInOrder /\ draft \in [Operator -> DraftState]
       /\ version \in Nat /\ MaxVersion \in Nat /\ saved \in Seq(SUBSET Rule) /\ Len(saved) = version
    BY AllReadIs, ConsoleAssumption DEF AlertsInv, AlertsTyped
  <1>c /\ version < MaxVersion /\ version' = version + 1
       /\ rules' = draft[o].rules
       /\ password' = IF draft[o].keeps THEN draft[o].secret ELSE version + 1
       /\ saved' = Append(saved, draft[o].rules)
       /\ UNCHANGED <<temporary, file, served>>
       /\ draft' = [draft EXCEPT ![o] = first]
    BY DEF Alerting!Commits
  <1>f draft[o].from \in {"config", "source"} /\ draft[o].rules \subseteq Rule /\ draft[o].secret \in Nat
    BY <1>t DEF DraftState
  <1>p /\ plan \in Seq(Item) /\ Len(plan) \in {6, 9} /\ plan = Plan(draft[o].from)
    <2>1 plan = Plan(draft[o].from)
      BY DEF Plan
    <2>2 Plan(draft[o].from) \in Seq(Item) /\ Len(Plan(draft[o].from)) \in {6, 9}
      BY <1>f, PlanIs
    <2> HIDE DEF plan
    <2> QED
      BY <2>1, <2>2
  <1> HIDE DEF plan
  <1>e \A t \in Operator : draft[t].written \in Nat /\ draft[t].written <= version
    BY <1>t DEF DraftState, AllRead, ReadOf
  <1>b count \in Nat /\ beside \subseteq Nat /\ \A t \in Operator \ {o} : draft[t].todo # <<>> => draft[t].written \in beside
    BY <1>t, <1>e
  <1> HIDE DEF beside, rendering
  <1>1 first \in DraftState
    BY <1>p, <1>b, BlankTyped DEF DraftState
  <1>2 /\ first.pc = "rendering" /\ first.goal = "form" /\ first.next = 1
       /\ first.version = 0 /\ first.current = 0 /\ first.secret = 0
       /\ first.written = version + 1 /\ first.todo = plan /\ first.beside = beside
    BY DEF Alerting!Blank
  <1> HIDE DEF first
  <1>4 /\ draft'[o] = first /\ \A t \in Operator \ {o} : draft'[t] = draft[t]
       /\ draft' \in [Operator -> DraftState]
    BY <1>c, <1>t, <1>1
  <1>5 AlertsTyped'
    <2>1 draft[o].secret <= version
      BY <1>t DEF AllRead, ReadOf
    <2>2 password' \in 0..version'
      BY <1>c, <1>f, <1>t, <2>1
    <2>3 saved' \in Seq(SUBSET Rule) /\ Len(saved') = version'
      BY <1>c, <1>f, <1>t
    <2>4 /\ file \in [Alerting!Service -> 0..version] /\ served \in [Alerting!Service -> 0..version]
         /\ temporary \in [Alerting!Service -> -1..version]
      BY <1>t DEF AlertsTyped
    <2>5 0..version \subseteq 0..version' /\ -1..version \subseteq -1..version' /\ version' \in 1..MaxVersion
      BY <1>c, <1>t DEF AlertsTyped
    <2>6 /\ file' \in [Alerting!Service -> 0..version'] /\ served' \in [Alerting!Service -> 0..version']
         /\ temporary' \in [Alerting!Service -> -1..version']
      BY <1>c, <2>4, <2>5
    <2>7 rules' \subseteq Rule
      BY <1>c, <1>f
    <2> QED
      BY <1>4, <2>2, <2>3, <2>5, <2>6, <2>7 DEF AlertsTyped
  <1>6 AllRead'
    <2>1 ReadOf(draft'[o], version', rules', password')
      BY <1>c, <1>t, <1>2, <1>4 DEF ReadOf
    <2>2 ASSUME NEW t \in Operator \ {o} PROVE ReadOf(draft'[t], version', rules', password')
      <3>1 ReadOf(draft[t], version, rules, password) /\ draft[t] \in DraftState
        BY <1>t DEF AllRead
      <3>2 draft[t].version \in Nat /\ draft[t].current \in Nat /\ draft[t].secret \in Nat /\ draft[t].written \in Nat
        BY <3>1 DEF DraftState
      <3>3 draft'[t] = draft[t]
        BY <1>4
      <3> QED
        BY <1>c, <1>t, <3>1, <3>2, <3>3 DEF ReadOf
    <2> QED
      BY <2>1, <2>2 DEF AllRead
  <1>7 SavesInOrder'
    <2>1 plan # <<>>
      <3>1 SUFFICES ASSUME plan = <<>> PROVE FALSE
        OBVIOUS
      <3>2 Len(plan) = 0
        BY <3>1
      <3>3 0 \notin {6, 9}
        OBVIOUS
      <3> QED
        BY <1>p, <3>2, <3>3
    <2>2 ASSUME NEW t \in Operator
         PROVE  /\ draft'[t].pc = "rendering" <=> draft'[t].todo # <<>>
                /\ ~ Underway(t)' => draft'[t].written = 0
      BY <1>t, <1>2, <1>4, <2>1 DEF SavesInOrder, Underway
    <2>3 /\ \A u \in Operator : draft'[u].pc = "rendering" => draft'[u].written \in May(o)'
         /\ \E from \in {"config", "source"} : \E n \in 1..10 : Left(o, from, n)' /\ Done(o, n)'
      <3>1 May(o)' = beside \cup {version + 1}
        <4>1 May(o)' = draft'[o].beside \cup draft'[o].written..version'
          BY DEF May
        <4> QED
          BY <1>c, <1>t, <1>2, <1>4, <4>1
      <3>2 ASSUME NEW u \in Operator, draft'[u].pc = "rendering" PROVE draft'[u].written \in May(o)'
        <4>1 CASE u = o
          BY <1>2, <1>4, <3>1, <4>1
        <4>2 CASE u # o
          <5>1 draft'[u] = draft[u] /\ draft[u].todo # <<>>
            BY <1>t, <1>4, <3>2, <4>2 DEF SavesInOrder
          <5> QED
            BY <1>b, <3>1, <4>2, <5>1
        <4> QED
          BY <4>1, <4>2
      <3>5 draft'[o].todo = Plan(draft[o].from) /\ Len(Plan(draft[o].from)) \in Nat
        BY <1>2, <1>4, <1>p
      <3>6 /\ draft'[o].todo = Plan(draft[o].from)
           /\ Len(draft'[o].todo) = Len(Plan(draft[o].from)) + 1 - 1
           /\ 1 \in 1..Len(Plan(draft[o].from)) + 1
           /\ \A i \in 1..Len(draft'[o].todo) : draft'[o].todo[i] = Plan(draft[o].from)[1 + i - 1]
        BY <3>5
      <3>7 Done(o, 1)'
        BY DEF Done, DoneBy
      <3>8 ASSUME NEW from \in {"config", "source"}, from = draft[o].from PROVE Left(o, from, 1)'
        BY <3>6, <3>8 DEF Left, Plan, Alerting!Remaining, Alerting!Renders
      <3> QED
        BY <1>f, <3>2, <3>7, <3>8
    <2>4 ASSUME NEW t \in Operator \ {o}, Underway(t)'
         PROVE  /\ \A u \in Operator : draft'[u].pc = "rendering" => draft'[u].written \in May(t)'
                /\ \E from \in {"config", "source"} : \E n \in 1..10 : Left(t, from, n)' /\ Done(t, n)'
      <3>1 draft'[t] = draft[t] /\ Underway(t)
        BY <1>4, <2>4 DEF Underway
      <3>2 May(t) \subseteq May(t)' /\ version + 1 \in May(t)'
        <4>1 May(t)' = draft[t].beside \cup draft[t].written..version + 1
          BY <1>c, <3>1 DEF May
        <4> QED
          BY <1>t, <1>e, <4>1 DEF May
      <3>3 PICK from \in {"config", "source"}, n \in 1..10 : Left(t, from, n) /\ Done(t, n)
        BY <1>t, <3>1 DEF SavesInOrder
      <3>4 Left(t, from, n)'
        BY <3>1, <3>3 DEF Left, Plan, Alerting!Remaining, Alerting!Renders
      <3>5 Done(t, n)'
        <4>1 DoneBy(May(t), n, temporary', file', served')
          BY <1>c, <3>3 DEF Done
        <4>2 DoneBy(May(t)', n, temporary', file', served')
          BY <3>2, <4>1 DEF DoneBy
        <4> QED
          BY <4>2 DEF Done
      <3>6 \A u \in Operator : draft[u].pc = "rendering" => draft[u].written \in May(t)
        BY <1>t, <3>1 DEF SavesInOrder
      <3>7 \A u \in Operator : draft'[u].pc = "rendering" => draft'[u].written \in May(t)'
        BY <1>2, <1>4, <3>2, <3>6
      <3> QED
        BY <3>4, <3>5, <3>7
    <2> QED
      BY <2>2, <2>3, <2>4 DEF SavesInOrder
  <1>8 AllRead' => DraftsAreRead'
    BY DEF DraftsAreRead, AllRead, ReadOf, HasSeen
  <1> QED
    BY <1>5, <1>6, <1>7, <1>8 DEF AlertsInv

\* What the next item of a plan does to the files and to what is served.
Effect(item, written) ==
  \E k \in Alerting!Service :
    \/ /\ item = <<"fill", k>> /\ temporary' = [temporary EXCEPT ![k] = written]
       /\ UNCHANGED <<file, served>>
    \/ /\ item = <<"move", k>> /\ temporary[k] # -1 /\ file' = [file EXCEPT ![k] = temporary[k]]
       /\ temporary' = [temporary EXCEPT ![k] = -1] /\ UNCHANGED served
    \/ /\ item = <<"reload", k>> /\ served' = [served EXCEPT ![k] = file[k]]
       /\ UNCHANGED <<temporary, file>>

\* What a step of a save does to the files, by service.
LEMMA EffectIs ==
  ASSUME AlertsTyped, NEW item, NEW written, Effect(item, written), NEW k \in Alerting!Service
  PROVE  /\ temporary'[k] \in {temporary[k], -1, written}
         /\ file'[k] = file[k] \/ (file'[k] = temporary[k] /\ temporary[k] # -1)
         /\ served'[k] \in {served[k], file[k]}
         /\ item = <<"fill", k>> => temporary'[k] = written
         /\ item = <<"move", k>> => file'[k] = temporary[k] /\ temporary[k] # -1
         /\ item = <<"reload", k>> => served'[k] = file[k]
  <1>1 /\ temporary \in [Alerting!Service -> -1..version] /\ file \in [Alerting!Service -> 0..version]
       /\ served \in [Alerting!Service -> 0..version]
    BY DEF AlertsTyped
  <1>2 PICK j \in Alerting!Service :
         \/ /\ item = <<"fill", j>> /\ temporary' = [temporary EXCEPT ![j] = written]
            /\ UNCHANGED <<file, served>>
         \/ /\ item = <<"move", j>> /\ temporary[j] # -1 /\ file' = [file EXCEPT ![j] = temporary[j]]
            /\ temporary' = [temporary EXCEPT ![j] = -1] /\ UNCHANGED served
         \/ /\ item = <<"reload", j>> /\ served' = [served EXCEPT ![j] = file[j]]
            /\ UNCHANGED <<temporary, file>>
    BY DEF Effect
  <1>3 CASE item = <<"fill", j>>
    BY <1>1, <1>2, <1>3
  <1>4 CASE item = <<"move", j>>
    BY <1>1, <1>2, <1>4
  <1>5 CASE item = <<"reload", j>>
    BY <1>1, <1>2, <1>5
  <1> QED
    BY <1>2, <1>3, <1>4, <1>5

\* A step of a save leaves what another one has done in place of which it may be.
LEMMA EffectKeeps ==
  ASSUME AlertsTyped, NEW may, NEW n \in 1..10, DoneBy(may, n, temporary, file, served),
         NEW item, NEW written \in may, Effect(item, written)
  PROVE  DoneBy(may, n, temporary', file', served')
  <1>1 "Prometheus" \in Alerting!Service /\ "Alertmanager" \in Alerting!Service
    BY DEF Alerting!Service
  <1>2 \A k \in Alerting!Service :
         /\ temporary'[k] \in {temporary[k], -1, written}
         /\ file'[k] = file[k] \/ (file'[k] = temporary[k] /\ temporary[k] # -1)
         /\ served'[k] \in {served[k], file[k]}
    BY EffectIs
  <1> QED
    BY <1>1, <1>2 DEF DoneBy

\* Item by item, what a save has done so far.
LEMMA PlanAdvances ==
  ASSUME AlertsTyped, NEW may, NEW n \in 1..9, DoneBy(may, n, temporary, file, served),
         NEW written \in may, Effect(PlanItem(n), written)
  PROVE  DoneBy(may, n + 1, temporary', file', served')
  <1> DEFINE P == "Prometheus"
             A == "Alertmanager"
  <1>1 P \in Alerting!Service /\ A \in Alerting!Service
    BY DEF Alerting!Service
  <1>2 DoneBy(may, n, temporary', file', served')
    <2>1 n \in 1..10
      OBVIOUS
    <2> QED
      BY <2>1, EffectKeeps
  <1>3 \A k \in Alerting!Service :
         /\ PlanItem(n) = <<"fill", k>> => temporary'[k] = written
         /\ PlanItem(n) = <<"move", k>> => file'[k] = temporary[k] /\ temporary[k] # -1
         /\ PlanItem(n) = <<"reload", k>> => served'[k] = file[k]
    BY EffectIs
  <1>8 CASE n = 1
    BY <1>1, <1>2, <1>3, <1>8 DEF PlanItem, DoneBy
  <1>9 CASE n = 2
    BY <1>1, <1>2, <1>3, <1>9 DEF PlanItem, DoneBy
  <1>10 CASE n = 3
    BY <1>1, <1>2, <1>3, <1>10 DEF PlanItem, DoneBy
  <1>11 CASE n = 4
    BY <1>1, <1>2, <1>3, <1>11 DEF PlanItem, DoneBy
  <1>12 CASE n = 5
    BY <1>1, <1>2, <1>3, <1>12 DEF PlanItem, DoneBy
  <1>13 CASE n = 6
    BY <1>1, <1>2, <1>3, <1>13 DEF PlanItem, DoneBy
  <1>14 CASE n \in 7..9
    BY <1>2, <1>14 DEF DoneBy
  <1> QED
    BY <1>8, <1>9, <1>10, <1>11, <1>12, <1>13, <1>14

\* A step of a save in progress leaves the other saves where they are in their plans.
LEMMA RenderKeepsOrder ==
  ASSUME AlertsTyped, SavesInOrder, NEW o \in Operator, draft[o].pc = "rendering", NEW new \in DraftState,
         draft' = [draft EXCEPT ![o] = new], version' = version,
         new.pc = "rendering" <=> new.todo # <<>>,
         new.pc \notin {"rendering", "saved"} => new.written = 0,
         new.pc \in {"rendering", "saved"} => new.written = draft[o].written /\ new.beside = draft[o].beside,
         UNCHANGED <<temporary, file, served>> \/ \E item : Effect(item, draft[o].written),
         new.pc \in {"rendering", "saved"} =>
           \E from \in {"config", "source"} : \E n \in 1..10 : Left(o, from, n)' /\ Done(o, n)'
  PROVE  SavesInOrder'
  <1>1 \A t \in Operator : draft'[t] = IF t = o THEN new ELSE draft[t]
    BY DEF AlertsTyped
  <1>2 ASSUME NEW t \in Operator
       PROVE  /\ draft'[t].pc = "rendering" <=> draft'[t].todo # <<>>
              /\ ~ Underway(t)' => draft'[t].written = 0
    BY <1>1 DEF SavesInOrder, Underway
  <1>3 ASSUME NEW t \in Operator, Underway(t)'
       PROVE  /\ \A u \in Operator : draft'[u].pc = "rendering" => draft'[u].written \in May(t)'
              /\ \E from \in {"config", "source"} : \E n \in 1..10 : Left(t, from, n)' /\ Done(t, n)'
    <2>1 Underway(t) /\ May(t)' = May(t)
      BY <1>1, <1>3 DEF Underway, May
    <2>2 \A u \in Operator : draft[u].pc = "rendering" => draft[u].written \in May(t)
      BY <2>1 DEF SavesInOrder
    <2>3 \A u \in Operator : draft'[u].pc = "rendering" => draft'[u].written \in May(t)'
      BY <1>1, <2>1, <2>2
    <2>4 CASE t = o
      BY <1>1, <1>3, <2>3, <2>4 DEF Underway
    <2>5 CASE t # o
      <3>1 PICK from \in {"config", "source"}, n \in 1..10 : Left(t, from, n) /\ Done(t, n)
        BY <2>1 DEF SavesInOrder
      <3>2 draft'[t] = draft[t]
        BY <1>1, <2>5
      <3>3 Left(t, from, n)'
        BY <3>1, <3>2 DEF Left, Plan, Alerting!Remaining, Alerting!Renders
      <3>4 DoneBy(May(t), n, temporary', file', served')
        <4>1 draft[o].written \in May(t) /\ DoneBy(May(t), n, temporary, file, served)
          BY <2>2, <3>1 DEF Done
        <4>2 CASE temporary' = temporary /\ file' = file /\ served' = served
          BY <4>1, <4>2
        <4>3 CASE \E item : Effect(item, draft[o].written)
          BY <4>1, <4>3, EffectKeeps
        <4> QED
          BY <4>2, <4>3
      <3>5 Done(t, n)'
        BY <2>1, <3>4 DEF Done
      <3> QED
        BY <2>3, <3>3, <3>5
    <2> QED
      BY <2>4, <2>5
  <1> QED
    BY <1>2, <1>3 DEF SavesInOrder

\* A save fills, moves and reloads in the order of its plan.
LEMMA AdvanceStep ==
  ASSUME AlertsInv, NEW o \in Operator, Alerting!Asks(o, "rendering"), Alerting!Proceeds(o),
         Effect(Head(draft[o].todo), draft[o].written), UNCHANGED <<version, rules, password, saved>>
  PROVE  AlertsInv'
  <1> DEFINE todo == draft[o].todo
             pc == IF Len(todo) = 1 THEN "saved" ELSE draft[o].pc
             new == [draft[o] EXCEPT !.todo = Tail(todo), !.pc = pc]
  <1>t /\ AlertsTyped /\ AllRead /\ SavesInOrder /\ draft \in [Operator -> DraftState]
       /\ draft[o] \in DraftState /\ ReadOf(draft[o], version, rules, password) /\ version \in Nat
       /\ draft[o].pc = "rendering" /\ todo # <<>> /\ rules \subseteq Rule
    BY AllReadIs, ConsoleAssumption DEF AlertsInv, AlertsTyped, AllRead, SavesInOrder, Alerting!Asks
  <1>s todo \in Seq(Item) /\ draft[o].written \in Nat /\ draft[o].written <= version
    BY <1>t DEF DraftState, ReadOf
  <1>h /\ Head(todo) = todo[1] /\ Tail(todo) \in Seq(Item) /\ Len(Tail(todo)) = Len(todo) - 1
       /\ \A i \in 1..Len(todo) - 1 : Tail(todo)[i] = todo[i + 1]
       /\ Len(todo) \in Nat /\ Len(todo) >= 1
    <2>1 /\ Tail(todo) \in Seq(Item) /\ Len(Tail(todo)) = Len(todo) - 1
         /\ \A i \in 1..Len(Tail(todo)) : Tail(todo)[i] = todo[i + 1]
      BY <1>s, <1>t, HeadTailProperties
    <2>2 Len(todo) \in Nat /\ Len(todo) # 0
      BY <1>s, <1>t, EmptySeq
    <2> QED
      BY <2>1, <2>2, <1>s, <1>t
  <1>1 draft' = [draft EXCEPT ![o] = new]
    BY <1>t DEF Alerting!Proceeds
  <1> HIDE DEF todo
  <1>2 pc \in {"rendering", "saved"} /\ (pc = "saved" <=> Len(todo) = 1)
    BY <1>t
  <1> HIDE DEF pc
  <1>3 new \in DraftState
    BY <1>t, <1>h, <1>2 DEF DraftState
  <1>4 /\ new.pc = pc /\ new.todo = Tail(todo) /\ new.goal = draft[o].goal /\ new.next = draft[o].next
       /\ new.from = draft[o].from /\ new.seen = draft[o].seen
       /\ new.version = draft[o].version /\ new.current = draft[o].current /\ new.secret = draft[o].secret
       /\ new.written = draft[o].written /\ new.beside = draft[o].beside
    BY <1>t DEF DraftState
  <1> HIDE DEF new
  <1>5 ReadOf(new, version, rules, password)
    BY <1>t, <1>2, <1>4 DEF ReadOf
  <1>6 /\ file' \in [Alerting!Service -> 0..version] /\ served' \in [Alerting!Service -> 0..version]
       /\ temporary' \in [Alerting!Service -> -1..version]
    <2>1 /\ file \in [Alerting!Service -> 0..version] /\ served \in [Alerting!Service -> 0..version]
         /\ temporary \in [Alerting!Service -> -1..version]
      BY <1>t DEF AlertsTyped
    <2>2 draft[o].written \in -1..version /\ -1 \in -1..version
      BY <1>t, <1>s
    <2>3 \A k \in Alerting!Service : temporary[k] # -1 => temporary[k] \in 0..version
      BY <1>t, <2>1
    <2>4 \A k \in Alerting!Service : file[k] \in 0..version
      BY <2>1
    <2> QED
      BY <2>1, <2>2, <2>3, <2>4 DEF Effect
  <1>7 AlertsTyped' /\ AllRead'
    BY <1>t, <1>1, <1>3, <1>5, <1>6, OneReads
  <1>8 new.pc = "rendering" <=> new.todo # <<>>
    <2>1 ASSUME NEW s \in Seq(Item) PROVE s = <<>> <=> Len(s) = 0
      BY EmptySeq
    <2>2 Tail(todo) = <<>> <=> Len(Tail(todo)) = 0
      BY <1>h, <2>1
    <2>3 Len(Tail(todo)) = 0 <=> Len(todo) = 1
      BY <1>h
    <2> QED
      BY <1>2, <1>4, <2>2, <2>3
  <1>9 draft'[o] = new
    BY <1>t, <1>1
  <1>10 ASSUME NEW from \in {"config", "source"}, NEW n \in 1..10, Left(o, from, n), Done(o, n)
        PROVE  n + 1 \in 1..10 /\ Left(o, from, n + 1)' /\ Done(o, n + 1)'
    <2> DEFINE whole == Plan(from)
    <2>1 /\ whole \in Seq(Item) /\ Len(whole) \in {6, 9}
         /\ \A m \in 1..Len(whole) : whole[m] = PlanItem(m)
      BY PlanIs
    <2>2 draft[o].written \in May(o) /\ May(o)' = May(o)
      BY <1>t, <1>4, <1>9 DEF SavesInOrder, Underway, May
    <2>3 /\ n \in 1..Len(whole) + 1 /\ Len(todo) = Len(whole) + 1 - n
         /\ \A i \in 1..Len(todo) : todo[i] = whole[n + i - 1]
      BY <1>10 DEF Left, todo
    <2> HIDE DEF whole
    <2>w Len(whole) \in Nat /\ Len(whole) <= 9
      BY <2>1
    <2>4 n \in 1..9 /\ n \in 1..Len(whole) /\ n + 1 \in 1..10 /\ n + 1 \in 1..Len(whole) + 1
      BY <2>3, <2>w, <1>h
    <2>5 Head(todo) = PlanItem(n)
      <3>1 todo[1] = whole[n + 1 - 1] /\ n + 1 - 1 = n
        BY <1>h, <2>3
      <3> QED
        BY <1>h, <2>1, <2>4, <3>1
    <2>6 Effect(PlanItem(n), draft[o].written)
      BY <2>5 DEF todo
    <2>7 Done(o, n + 1)'
      <3>1 DoneBy(May(o), n + 1, temporary', file', served')
        BY <1>t, <1>10, <2>2, <2>4, <2>6, PlanAdvances DEF Done
      <3> QED
        BY <2>2, <3>1 DEF Done
    <2>8 /\ Len(new.todo) = Len(whole) + 1 - (n + 1)
         /\ \A i \in 1..Len(new.todo) : new.todo[i] = whole[(n + 1) + i - 1]
      <3>1 Len(new.todo) = Len(todo) - 1 /\ \A i \in 1..Len(todo) - 1 : new.todo[i] = todo[i + 1]
        BY <1>h, <1>4
      <3>2 ASSUME NEW i \in 1..Len(todo) - 1 PROVE todo[i + 1] = whole[(n + 1) + i - 1]
        <4>1 i + 1 \in 1..Len(todo) /\ n + (i + 1) - 1 = (n + 1) + i - 1
          BY <1>h
        <4> QED
          BY <2>3, <4>1
      <3>3 Len(todo) - 1 = Len(whole) + 1 - (n + 1)
        BY <2>3, <2>w
      <3> QED
        BY <3>1, <3>2, <3>3
    <2>9 Left(o, from, n + 1)'
      BY <1>9, <2>4, <2>8 DEF Left, Plan, Alerting!Remaining, Alerting!Renders, whole
    <2> QED
      BY <2>4, <2>7, <2>9
  <1>11 \E from \in {"config", "source"} : \E n \in 1..10 : Left(o, from, n)' /\ Done(o, n)'
    <2>1 PICK from \in {"config", "source"}, n \in 1..10 : Left(o, from, n) /\ Done(o, n)
      BY <1>t DEF SavesInOrder, Underway
    <2>2 ASSUME NEW m \in 1..10, m = n + 1
         PROVE  \E n1 \in 1..10 : Left(o, from, n1)' /\ Done(o, n1)'
      BY <1>10, <2>1, <2>2
    <2> QED
      BY <1>10, <2>1, <2>2
  <1>12 SavesInOrder'
    <2>1 \E item : Effect(item, draft[o].written)
      OBVIOUS
    <2> QED
      BY <1>t, <1>1, <1>2, <1>3, <1>4, <1>8, <1>11, <2>1, RenderKeepsOrder
  <1>13 AllRead' => DraftsAreRead'
    BY DEF DraftsAreRead, AllRead, ReadOf, HasSeen
  <1> QED
    BY <1>7, <1>12, <1>13 DEF AlertsInv

\* A save that fails is nobody's any more; what it has reloaded, others may have reloaded.
LEMMA FailingStep ==
  ASSUME AlertsInv, NEW o \in Operator,
         Alerting!RenderFails(o) \/ \E k \in Alerting!Service : Alerting!MoveFails(o, k)
  PROVE  AlertsInv'
  <1>t /\ AlertsTyped /\ AllRead /\ SavesInOrder /\ version \in Nat /\ rules \subseteq Rule
    BY AllReadIs, ConsoleAssumption DEF AlertsInv, AlertsTyped
  <1>1 /\ draft[o].pc = "rendering" /\ draft' = [draft EXCEPT ![o] = Alerting!Blank]
       /\ UNCHANGED <<version, rules, password, temporary, file, saved>>
       /\ served' = served \/ \E k \in Alerting!Service : served' = [served EXCEPT ![k] = file[k]]
    BY DEF Alerting!RenderFails, Alerting!MoveFails, Alerting!Step, Alerting!Asks, Alerting!GivesUp
  <1>2 Alerting!Blank \in DraftState /\ ReadOf(Alerting!Blank, version, rules, password)
    BY <1>t, BlankTyped, BlankFields DEF ReadOf
  <1>3 /\ file' \in [Alerting!Service -> 0..version] /\ served' \in [Alerting!Service -> 0..version]
       /\ temporary' \in [Alerting!Service -> -1..version]
    BY <1>t, <1>1 DEF AlertsTyped
  <1>4 AlertsTyped' /\ AllRead'
    BY <1>t, <1>1, <1>2, <1>3, OneReads
  <1>5 UNCHANGED <<temporary, file, served>> \/ \E item : Effect(item, draft[o].written)
    BY <1>1 DEF Effect
  <1>6 SavesInOrder'
    BY <1>t, <1>1, <1>2, <1>5, BlankFields, RenderKeepsOrder
  <1>7 AllRead' => DraftsAreRead'
    BY DEF DraftsAreRead, AllRead, ReadOf, HasSeen
  <1> QED
    BY <1>4, <1>6, <1>7 DEF AlertsInv

\* Every step of the alert configuration preserves its invariant.
LEMMA AlertsStep ==
  ASSUME AlertsInv, Alerting!Next
  PROVE  AlertsInv'
  <1>1 PICK o \in Operator : Alerting!OperatorStep(o)
    BY DEF Alerting!Next
  <1>2 draft[o].seen \subseteq Rule
    BY DEF AlertsInv, AlertsTyped, DraftState
  <1>3 ASSUME NEW k \in Alerting!Service, Alerting!Fills(o, k) \/ Alerting!Moves(o, k) \/ Alerting!Reloads(o, k)
       PROVE  AlertsInv'
    <2>1 /\ Alerting!Asks(o, "rendering") /\ Alerting!Proceeds(o)
         /\ UNCHANGED <<version, rules, password, saved>>
      BY <1>3 DEF Alerting!Fills, Alerting!Moves, Alerting!Reloads, Alerting!Step
    <2>2 Effect(Head(draft[o].todo), draft[o].written)
      BY <1>3 DEF Alerting!Fills, Alerting!Moves, Alerting!Reloads, Alerting!Step, Effect
    <2> QED
      BY <2>1, <2>2, AdvanceStep
  <1>4 ASSUME NEW r \in Rule, Alerting!Edits(o, draft[o].seen \cup {r}, TRUE) PROVE AlertsInv'
    <2>1 draft[o].seen \cup {r} \in SUBSET Rule
      BY <1>2
    <2> QED
      BY <1>4, <2>1, ReadingStep
  <1>5 ASSUME NEW r \in Rule, Alerting!Edits(o, draft[o].seen \ {r}, TRUE) PROVE AlertsInv'
    <2>1 draft[o].seen \ {r} \in SUBSET Rule
      BY <1>2
    <2> QED
      BY <1>5, <2>1, ReadingStep
  <1>6 ASSUME Alerting!Edits(o, draft[o].seen, FALSE) PROVE AlertsInv'
    BY <1>2, <1>6, ReadingStep
  <1>7 ASSUME \/ \E from \in {"config", "source"} : Alerting!Requests(o, from)
              \/ Alerting!CountsRules(o) \/ Alerting!ImportsRule(o) \/ Alerting!ReadsVersion(o)
              \/ Alerting!ReadsContent(o) \/ Alerting!Refused(o)
       PROVE  AlertsInv'
    BY <1>7, ReadingStep
  <1>8 ASSUME Alerting!RenderFails(o) \/ \E k \in Alerting!Service : Alerting!MoveFails(o, k) PROVE AlertsInv'
    BY <1>8, FailingStep
  <1>9 ASSUME Alerting!Commits(o) PROVE AlertsInv'
    BY <1>9, CommitStep
  <1> QED
    BY <1>1, <1>3, <1>4, <1>5, <1>6, <1>7, <1>8, <1>9 DEF Alerting!OperatorStep

\* The configuration begins at version 1, with nothing written to the files and no request under way.
LEMMA AlertsStart ==
  ASSUME Alerting!Init
  PROVE  AlertsInv
  <1>1 /\ version = 1 /\ rules = {} /\ password = 0 /\ draft = [o \in Operator |-> Alerting!Blank]
       /\ temporary = [k \in Alerting!Service |-> -1] /\ file = [k \in Alerting!Service |-> 0]
       /\ served = [k \in Alerting!Service |-> 0] /\ saved = <<{}>>
    BY DEF Alerting!Init
  <1>2 saved \in Seq(SUBSET Rule) /\ Len(saved) = 1
    BY <1>1
  <1>3 draft \in [Operator -> DraftState]
    BY <1>1, BlankTyped
  <1>4 1 \in 1..MaxVersion /\ 0 \in 0..1 /\ -1 \in -1..1
    BY ConsoleAssumption
  <1>5 AlertsTyped
    BY <1>1, <1>2, <1>3, <1>4 DEF AlertsTyped
  <1>6 \A o \in Operator : draft[o] = Alerting!Blank
    BY <1>1
  <1>7 DraftsAreRead
    BY <1>1, <1>6, BlankFields DEF DraftsAreRead, HasSeen
  <1>8 SavesInOrder
    BY <1>6, BlankFields DEF SavesInOrder, Underway
  <1> QED
    BY <1>5, <1>7, <1>8 DEF AlertsInv

AlertsHold == focus = "alerts" => AlertsInv

\* The invariant holds throughout a run in which the alert configuration takes the steps.
LEMMA AlertsInvariant == MCSpec => []AlertsHold
  <1>1 ASSUME MCInit PROVE AlertsHold
    BY <1>1, AlertsStart DEF MCInit, AlertsHold
  <1>2 ASSUME AlertsHold, MCNext PROVE AlertsHold'
    <2>1 CASE Alerts
      BY <1>2, <2>1, AlertsStep DEF Alerts, AlertsHold
    <2>2 CASE ~ Alerts
      BY <1>2, <2>2 DEF MCNext, Sets, Notifies, SharesSession, Controls, Views, AlertsHold, operatorVars
    <2> QED
      BY <2>1, <2>2
  <1>3 ASSUME AlertsHold, UNCHANGED <<focus, operatorVars, notificationVars, controlVars, clientVars>>
       PROVE  AlertsHold'
    <2>1 UNCHANGED <<focus, version, rules, password, draft, temporary, file, served, saved>>
      BY <1>3 DEF operatorVars, alertVars
    <2> QED
      BY <1>3, <2>1 DEF AlertsHold, AlertsInv, AlertsTyped, DraftsAreRead, HasSeen, SavesInOrder, Underway, May, Left, Done, DoneBy
  <1> QED
    BY <1>1, <1>2, <1>3, PTL DEF MCSpec

\* Who goes over to rendering has committed.
LEMMA OnlyCommitsRender ==
  ASSUME AlertsTyped, NEW o \in Operator, draft[o].pc = "checking", draft'[o].pc = "rendering",
         NEW t \in Operator, Alerting!OperatorStep(t), ~ Alerting!Commits(t)
  PROVE  FALSE
  <1>1 draft \in [Operator -> DraftState] /\ draft[o] \in DraftState /\ draft[t] \in DraftState
    BY DEF AlertsTyped
  <1>2 ASSUME NEW new, draft' = [draft EXCEPT ![t] = new], new.pc = "rendering" => draft[t].pc = "rendering"
       PROVE  FALSE
    BY <1>1, <1>2
  <1>3 ASSUME NEW pc, draft' = [draft EXCEPT ![t].pc = pc], pc # "rendering" PROVE FALSE
    BY <1>1, <1>3 DEF DraftState
  <1>4 ASSUME Alerting!GivesUp(t) PROVE FALSE
    BY <1>2, <1>4, BlankFields DEF Alerting!GivesUp
  <1>5 ASSUME NEW from \in {"config", "source"}, Alerting!Requests(t, from) PROVE FALSE
    <2> DEFINE new == [Alerting!Blank EXCEPT !.pc = "counting", !.from = from]
    <2>1 new.pc = "counting" /\ draft' = [draft EXCEPT ![t] = new]
      BY <1>5 DEF Alerting!Requests, Alerting!Blank
    <2> HIDE DEF new
    <2> QED
      BY <1>2, <2>1
  <1>6 ASSUME Alerting!CountsRules(t) PROVE FALSE
    BY <1>3, <1>6 DEF Alerting!CountsRules, Alerting!AfterImport
  <1>7 ASSUME Alerting!ImportsRule(t) PROVE FALSE
    BY <1>1, <1>7 DEF Alerting!ImportsRule, Alerting!AfterImport, Alerting!Asks, DraftState
  <1>8 ASSUME Alerting!ReadsVersion(t) PROVE FALSE
    BY <1>1, <1>8 DEF Alerting!ReadsVersion, DraftState
  <1>9 ASSUME Alerting!ReadsContent(t) PROVE FALSE
    BY <1>1, <1>9 DEF Alerting!ReadsContent, DraftState
  <1>10 ASSUME NEW edited, NEW keeps, Alerting!Edits(t, edited, keeps) PROVE FALSE
    BY <1>1, <1>10 DEF Alerting!Edits, DraftState
  <1>11 ASSUME Alerting!Refused(t) PROVE FALSE
    BY <1>4, <1>11 DEF Alerting!Refused
  <1>12 ASSUME Alerting!RenderFails(t) \/ \E k \in Alerting!Service : Alerting!MoveFails(t, k) PROVE FALSE
    BY <1>4, <1>12 DEF Alerting!RenderFails, Alerting!MoveFails
  <1>13 ASSUME NEW k \in Alerting!Service, Alerting!Fills(t, k) \/ Alerting!Moves(t, k) \/ Alerting!Reloads(t, k)
        PROVE  FALSE
    <2>1 draft[t].pc = "rendering" /\ t # o /\ Alerting!Proceeds(t)
      BY <1>13 DEF Alerting!Fills, Alerting!Moves, Alerting!Reloads, Alerting!Step, Alerting!Asks
    <2> QED
      BY <1>1, <2>1 DEF Alerting!Proceeds
  <1> QED
    BY <1>5, <1>6, <1>7, <1>8, <1>9, <1>10, <1>11, <1>12, <1>13 DEF Alerting!OperatorStep

\* A save that is committed was read from the version that it replaces.
LEMMA SavesReplaceTheSeen ==
  ASSUME AlertsInv, Alerting!Next
  PROVE  Alerting!ReplacesWhatWasSeen
  <1> SUFFICES ASSUME NEW o \in Operator, draft[o].pc = "checking", draft'[o].pc = "rendering"
               PROVE  /\ draft[o].keeps => password' = password
                      /\ draft[o].from = "config" =>
                           draft[o].seen \subseteq rules /\ rules \ draft[o].seen \subseteq Alerting!SourceRules
    BY DEF Alerting!ReplacesWhatWasSeen, Alerting!Asks
  <1>1 PICK t \in Operator : Alerting!OperatorStep(t)
    BY DEF Alerting!Next
  <1>2 AlertsTyped /\ DraftsAreRead /\ SavesInOrder
    BY DEF AlertsInv
  <1>3 Alerting!Commits(t)
    BY <1>1, <1>2, OnlyCommitsRender
  <1>4 /\ draft[t].version = draft[t].current /\ draft[t].version = version /\ draft[t].pc = "checking"
       /\ password' = IF draft[t].keeps THEN draft[t].secret ELSE version + 1
    BY <1>3 DEF Alerting!Commits, Alerting!UpToDate, Alerting!Asks
  <1>5 t = o
    <2>1 SUFFICES ASSUME t # o PROVE FALSE
      OBVIOUS
    <2>2 draft'[o] = draft[o]
      BY <1>2, <1>3, <2>1 DEF Alerting!Commits, AlertsTyped
    <2> QED
      BY <2>2
  <1>6 draft[o].goal = "secret" /\ draft[o].secret = password
    BY <1>2, <1>4, <1>5 DEF DraftsAreRead
  <1> QED
    BY <1>2, <1>4, <1>5, <1>6 DEF DraftsAreRead, HasSeen

\* A save that has succeeded has done all of its plan.
LEMMA FilesAreServed ==
  ASSUME AlertsInv
  PROVE  Alerting!FilesFollow
  <1> SUFFICES ASSUME NEW o \in Operator, draft[o].pc = "saved"
               PROVE  \A k \in Alerting!Service : {file[k], served[k]} \subseteq May(o)
    BY DEF Alerting!FilesFollow, Alerting!Asks, May
  <1>1 PICK from \in {"config", "source"}, n \in 1..10 : Left(o, from, n) /\ Done(o, n)
    BY DEF AlertsInv, SavesInOrder, Underway
  <1>2 draft[o].todo = <<>>
    BY DEF AlertsInv, SavesInOrder
  <1>3 Len(Plan(from)) \in {6, 9}
    BY PlanIs
  <1>4 Len(draft[o].todo) = 0
    BY <1>2
  <1>5 n >= 7
    <2>1 0 = Len(Plan(from)) + 1 - n
      BY <1>1, <1>4 DEF Left
    <2>2 ASSUME NEW all \in {6, 9}, 0 = all + 1 - n PROVE n >= 7
      BY <2>2
    <2> QED
      BY <1>3, <2>1, <2>2
  <1> QED
    BY <1>1, <1>5 DEF Done, DoneBy, Alerting!Service

-----------------------------------------------------------------------------
\* Notification

RunState == Notifying!ActiveStates \cup {"NONE", "RECOVERED", "FAILED", "SERVICE_UNAVAILABLE"}
PrepareState == {"none", "sent", "accepted", "refused"}
ReleaseState == {"none", "sent", "done", "failed"}
RunsTyped ==
  /\ state \in [FaultRuns -> RunState]
  /\ prepare \in [FaultRuns -> PrepareState] /\ release \in [FaultRuns -> ReleaseState]

\* A target that has accepted a run is told of it before its release is asked for.
RequestsInOrder ==
  \A r \in FaultRuns :
    /\ prepare[r] = "accepted" => state[r] = "CREATING" /\ release[r] = "none"
    /\ release[r] # "none" => state[r] \notin {"NONE", "ACTIVE"}

\* The run still expects to be served.
Expects(r) == prepare[r] = "accepted" \/ state[r] = "ACTIVE"

\* A request of the console and the thread of the guard are about runs that have ended or
\* expired, a cleaned up run has ended and is not held again unless that is on record, and
\* a run that expects to be served has the target.
TargetIsKept ==
  /\ request.pc = "checked" /\ request.op = "cleanup" =>
       request.run \in FaultRuns /\ state[request.run] = "RECOVERED"
  /\ scheduler.pc # "idle" => scheduler.run \in expired
  /\ \A r \in cleaned : state[r] = "RECOVERED" /\ (held = r => r \in revived)
  /\ \A r \in FaultRuns : Expects(r) => r \in expired \cup lost \/ held = r

NotificationInv ==
  Notifying!TypeOK /\ Notifying!FilesScoped /\ RequestsInOrder /\ TargetIsKept

\* The moves of one run, by the requests that go with them.
Sending(s) == s \in {"sent", "none"}
RunMoves(r) ==
  \/ state[r] = "NONE" /\ state'[r] = "CREATING" /\ prepare'[r] = "sent" /\ release'[r] = release[r]
  \/ state[r] = "CREATING" /\ prepare[r] = "accepted" /\ state'[r] = "ACTIVE" /\ prepare'[r] = "none"
       /\ release'[r] = release[r]
  \/ state[r] = "CREATING" /\ state'[r] = "CREATING" /\ Sending(prepare'[r]) /\ release'[r] = "sent"
  \/ state[r] = "CREATING" /\ release[r] # "none" /\ state'[r] = "FAILED" /\ prepare'[r] = prepare[r]
       /\ Sending(release'[r])
  \/ state[r] \in {"CREATING", "ACTIVE"} /\ state'[r] = "RECOVERING" /\ Sending(prepare'[r]) /\ release'[r] = "sent"
  \/ state[r] = "RECOVERING" /\ state'[r] \in {"RECOVERED", "FAILED"} /\ prepare'[r] = prepare[r]
       /\ Sending(release'[r])
  \/ state[r] \in {"ACTIVE", "RECOVERING"} /\ state'[r] = "SERVICE_UNAVAILABLE" /\ prepare'[r] = prepare[r]
       /\ Sending(release'[r])
  \/ /\ prepare[r] = "sent" /\ state'[r] = state[r] /\ release'[r] = release[r]
     /\ \/ prepare'[r] \in {"refused", "none"}
        \/ prepare'[r] = "accepted" /\ state[r] = "CREATING" /\ release[r] = "none" /\ held' = r
  \/ release[r] = "sent" /\ state'[r] = state[r] /\ prepare'[r] = prepare[r] /\ release'[r] \in {"done", "failed", "none"}
  \/ state[r] = "SERVICE_UNAVAILABLE" /\ state'[r] = "RECOVERED" /\ prepare'[r] = prepare[r]
       /\ release'[r] = release[r]

Others(r) ==
  \A s \in FaultRuns \ {r} : state'[s] = state[s] /\ prepare'[s] = prepare[s] /\ release'[s] = release[s]

\* What the type invariant of the module says of each variable, and of a run alone.
LEMMA NotificationTypes ==
  ASSUME Notifying!TypeOK
  PROVE  /\ RunsTyped /\ held \in FaultRuns \cup {0} /\ 0 \notin FaultRuns /\ heap \in HeapChoices
         /\ expired \subseteq FaultRuns /\ lost \subseteq FaultRuns /\ cleaned \subseteq FaultRuns
         /\ revived \subseteq FaultRuns /\ files \subseteq FaultRuns \ heap /\ retained \subseteq heap /\ up \in BOOLEAN
         /\ fence \in FaultRuns \cup {0} /\ cleanups \in [FaultRuns -> {"none", "registered", "claimed"}]
         /\ scheduler \in [pc : {"idle", "fence", "cleanup", "clear"}, run : FaultRuns \cup {0}]
         /\ request \in [pc : {"none", "checked", "answered"},
                         op : {"none", "cleanup", "scenario", "restart"}, run : FaultRuns \cup {0}]
  BY ConsoleAssumption DEF Notifying!TypeOK, RunsTyped, RunState, PrepareState, ReleaseState, Notifying!NoRun

\* Each step is a move of one run or leaves the runs and their requests alone.
LEMMA RunsMove ==
  ASSUME Notifying!TypeOK, Notifying!Next
  PROVE  \/ UNCHANGED <<state, prepare, release>>
         \/ RunsTyped' /\ \E r \in FaultRuns : RunMoves(r) /\ Others(r)
  <1> DEFINE P == \E r \in FaultRuns : RunMoves(r) /\ Others(r)
             G == UNCHANGED <<state, prepare, release>> \/ (RunsTyped' /\ P)
  <1> USE DEF RunsTyped, RunState, PrepareState, ReleaseState, Notifying!ActiveStates, Sending, Others
  <1>t RunsTyped
    BY NotificationTypes
  <1>1 ASSUME NEW r \in FaultRuns, Notifying!Creates(r) PROVE G
    BY <1>1, <1>t DEF Notifying!Creates, RunMoves
  <1>2 ASSUME NEW r \in FaultRuns, Notifying!Activates(r) PROVE G
    BY <1>2, <1>t DEF Notifying!Activates, RunMoves
  <1>3 ASSUME NEW r \in FaultRuns, Notifying!Compensates(r) PROVE G
    BY <1>3, <1>t DEF Notifying!Compensates, Notifying!Late, RunMoves
  <1>4 ASSUME NEW r \in FaultRuns, Notifying!CreateFails(r) PROVE G
    BY <1>4, <1>t DEF Notifying!CreateFails, Notifying!Late, RunMoves
  <1>5 ASSUME NEW r \in FaultRuns, Notifying!Recovering(r) PROVE G
    BY <1>5, <1>t DEF Notifying!Recovering, Notifying!Late, RunMoves
  <1>6 ASSUME NEW r \in FaultRuns, Notifying!Recovers(r) PROVE G
    BY <1>6, <1>t DEF Notifying!Recovers, Notifying!Late, RunMoves
  <1>7 ASSUME NEW r \in FaultRuns, Notifying!MarksUnavailable(r) PROVE G
    BY <1>7, <1>t DEF Notifying!MarksUnavailable, Notifying!Late, RunMoves
  <1>8 ASSUME NEW r \in FaultRuns, Notifying!PrepareArrives(r) PROVE G
    <2>1 /\ prepare[r] = "sent" /\ UNCHANGED <<state, release>>
         /\ (Notifying!PrepareAnswer(r, "accepted") /\ held' = r) \/ Notifying!PrepareAnswer(r, "refused")
      BY <1>8 DEF Notifying!PrepareArrives
    <2>2 \E answer \in {"accepted", "refused", "none"} :
           /\ prepare' = [prepare EXCEPT ![r] = answer]
           /\ answer = "accepted" => state[r] = "CREATING" /\ release[r] = "none" /\ held' = r
      BY <2>1 DEF Notifying!PrepareAnswer
    <2> QED
      BY <1>t, <2>1, <2>2 DEF RunMoves
  <1>9 ASSUME NEW r \in FaultRuns, Notifying!ReleaseArrives(r) PROVE G
    <2>1 /\ release[r] = "sent" /\ UNCHANGED <<state, prepare>>
         /\ Notifying!ReleaseAnswer(r, "done") \/ Notifying!ReleaseAnswer(r, "failed")
      BY <1>9 DEF Notifying!ReleaseArrives
    <2>2 \E answer \in {"done", "failed", "none"} : release' = [release EXCEPT ![r] = answer]
      BY <2>1 DEF Notifying!ReleaseAnswer
    <2> QED
      BY <1>t, <2>1, <2>2 DEF RunMoves
  <1>10 ASSUME Notifying!RestartDone PROVE G
    <2>1 CASE request.run # Notifying!NoRun /\ state[request.run] = "SERVICE_UNAVAILABLE"
      <3>1 request.run \in FaultRuns
        BY <2>1, NotificationTypes DEF Notifying!NoRun
      <3> QED
        BY <1>10, <1>t, <2>1, <3>1 DEF Notifying!RestartDone, RunMoves
    <2>2 CASE ~ (request.run # Notifying!NoRun /\ state[request.run] = "SERVICE_UNAVAILABLE")
      BY <1>10, <2>2 DEF Notifying!RestartDone
    <2> QED
      BY <2>1, <2>2
  <1> HIDE DEF G
  <1>11 ASSUME NEW r \in FaultRuns, Notifying!RunStep(r) PROVE G
    <2>1 CASE Notifying!ConfirmsCleanup(r) \/ Notifying!Appends(r)
      BY <2>1 DEF Notifying!ConfirmsCleanup, Notifying!Appends, Notifying!controlVars, G
    <2> QED
      BY <1>1, <1>2, <1>3, <1>4, <1>5, <1>6, <1>7, <1>8, <1>9, <1>11, <2>1
      DEF Notifying!RunStep, Notifying!TimesOut, Notifying!StopIsConfirmed
  <1>12 ASSUME \/ Notifying!Retains \/ Notifying!HeapFull \/ Notifying!Crashes \/ Notifying!GuardStep
               \/ Notifying!SchedulerTests \/ Notifying!SchedulerClears \/ Notifying!CleanupArrives
               \/ (\E r \in FaultRuns \cup {Notifying!NoRun} : Notifying!Restarts(r))
               \/ Notifying!ScenarioCleanupTests \/ Notifying!ScenarioCleanupArrives
        PROVE  UNCHANGED <<state, prepare, release>>
    BY <1>12 DEF Notifying!Retains, Notifying!HeapFull, Notifying!Crashes, Notifying!GuardStep,
       Notifying!SchedulerTests, Notifying!SchedulerClears, Notifying!CleanupArrives, Notifying!Restarts,
       Notifying!ScenarioCleanupTests, Notifying!ScenarioCleanupArrives, Notifying!controlVars
  <1>13 UNCHANGED <<state, prepare, release>> => G
    BY DEF G
  <1> QED
    BY <1>10, <1>11, <1>12, <1>13 DEF Notifying!Next, G

\* What a move of a run means for it: it becomes active, or accepted, only in order, and
\* ends for good once it has been recovered.
LEMMA RunsFollow ==
  ASSUME Notifying!TypeOK, RequestsInOrder, Notifying!Next
  PROVE  /\ RunsTyped' /\ RequestsInOrder'
         /\ \A r \in FaultRuns : /\ state[r] = "RECOVERED" => state'[r] = "RECOVERED"
                                 /\ Expects(r)' => Expects(r) \/ held' = r
  <1>t RunsTyped
    BY NotificationTypes
  <1>1 CASE UNCHANGED <<state, prepare, release>>
    BY <1>1, <1>t DEF RunsTyped, RequestsInOrder, Expects
  <1>2 ASSUME RunsTyped', NEW r \in FaultRuns, RunMoves(r), Others(r)
       PROVE  /\ RequestsInOrder'
              /\ \A s \in FaultRuns : /\ state[s] = "RECOVERED" => state'[s] = "RECOVERED"
                                      /\ Expects(s)' => Expects(s) \/ held' = s
    <2>1 /\ prepare[r] = "accepted" => state[r] = "CREATING" /\ release[r] = "none"
         /\ release[r] # "none" => state[r] \notin {"NONE", "ACTIVE"}
      BY DEF RequestsInOrder
    <2>2 /\ prepare'[r] = "accepted" => state'[r] = "CREATING" /\ release'[r] = "none"
         /\ release'[r] # "none" => state'[r] \notin {"NONE", "ACTIVE"}
      BY <1>2, <2>1 DEF RunMoves, Sending
    <2>3 /\ state[r] = "RECOVERED" => state'[r] = "RECOVERED"
         /\ Expects(r)' => Expects(r) \/ held' = r
      BY <1>2, <2>1 DEF RunMoves, Sending, Expects
    <2>4 RequestsInOrder'
      BY <1>2, <2>2 DEF RequestsInOrder, Others
    <2>5 \A s \in FaultRuns \ {r} : (state[s] = "RECOVERED" => state'[s] = "RECOVERED") /\ (Expects(s)' => Expects(s))
      BY <1>2 DEF Others, Expects
    <2> QED
      BY <2>3, <2>4, <2>5
  <1> QED
    BY <1>1, <1>2, RunsMove

\* Requests and histories only grow, but for what arrives.
LEMMA HistoriesGrow ==
  ASSUME Notifying!Next
  PROVE  expired \subseteq expired' /\ lost \subseteq lost' /\ revived \subseteq revived' /\ heap' = heap
  <1> USE DEF Notifying!guardVars, Notifying!serviceVars, Notifying!controlVars, Notifying!historyVars
  <1>1 ASSUME NEW r \in FaultRuns, Notifying!RunStep(r)
       PROVE  expired \subseteq expired' /\ lost \subseteq lost' /\ revived \subseteq revived' /\ heap' = heap
    <2>1 CASE \/ Notifying!Creates(r) \/ Notifying!Activates(r) \/ Notifying!Compensates(r) \/ Notifying!CreateFails(r)
              \/ Notifying!Recovering(r) \/ Notifying!Recovers(r) \/ Notifying!MarksUnavailable(r)
              \/ Notifying!ConfirmsCleanup(r) \/ Notifying!Appends(r)
      BY <2>1 DEF Notifying!Creates, Notifying!Activates, Notifying!Compensates, Notifying!CreateFails,
         Notifying!Recovering, Notifying!Recovers, Notifying!MarksUnavailable, Notifying!ConfirmsCleanup, Notifying!Appends
    <2>2 CASE Notifying!PrepareArrives(r)
      <3>1 expired' = expired \/ expired' = expired \cup {r}
        BY <2>2 DEF Notifying!PrepareArrives
      <3>2 revived' = revived \/ revived' = revived \cup {r}
        BY <2>2 DEF Notifying!PrepareArrives
      <3> QED
        BY <2>2, <3>1, <3>2 DEF Notifying!PrepareArrives
    <2>3 CASE Notifying!ReleaseArrives(r)
      BY <2>3 DEF Notifying!ReleaseArrives, Notifying!Released, Notifying!ReleaseThrows
    <2> QED
      BY <1>1, <2>1, <2>2, <2>3 DEF Notifying!RunStep, Notifying!TimesOut, Notifying!StopIsConfirmed
  <1>2 ASSUME \/ Notifying!Retains \/ Notifying!HeapFull \/ Notifying!Crashes \/ Notifying!SchedulerTests
              \/ Notifying!SchedulerClears \/ Notifying!RestartDone \/ Notifying!ScenarioCleanupTests
       PROVE  expired \subseteq expired' /\ lost \subseteq lost' /\ revived \subseteq revived' /\ heap' = heap
    BY <1>2 DEF Notifying!Retains, Notifying!HeapFull, Notifying!Crashes, Notifying!Restarted, Notifying!SchedulerTests,
       Notifying!SchedulerClears, Notifying!SchedulerDone, Notifying!RestartDone, Notifying!ScenarioCleanupTests
  <1>3 ASSUME Notifying!GuardStep
       PROVE  expired \subseteq expired' /\ lost \subseteq lost' /\ revived \subseteq revived' /\ heap' = heap
    BY <1>3 DEF Notifying!GuardStep, Notifying!SchedulerClaims, Notifying!Expire, Notifying!SchedulerReleasesFence,
       Notifying!SchedulerGivesUp, Notifying!FenceLapses
  <1>4 ASSUME Notifying!CleanupArrives \/ Notifying!ScenarioCleanupArrives
       PROVE  expired \subseteq expired' /\ lost \subseteq lost' /\ revived \subseteq revived' /\ heap' = heap
    BY <1>4 DEF Notifying!CleanupArrives, Notifying!ScenarioCleanupArrives, Notifying!Released, Notifying!ReleaseThrows
  <1>5 ASSUME NEW r \in FaultRuns \cup {Notifying!NoRun}, Notifying!Restarts(r)
       PROVE  expired \subseteq expired' /\ lost \subseteq lost' /\ revived \subseteq revived' /\ heap' = heap
    BY <1>5 DEF Notifying!Restarts, Notifying!BrokerRestarts, Notifying!Restarted
  <1> QED
    BY <1>1, <1>2, <1>3, <1>4, <1>5 DEF Notifying!Next

\* Who loses the target: a run whose release has arrived, one that expires or is cleaned up
\* after its end, or one that the history of lost runs tells of. Who gets it is prepared.
LEMMA TargetMoves ==
  ASSUME Notifying!TypeOK, RequestsInOrder, TargetIsKept, Notifying!Next
  PROVE  \/ held' = held
         \/ held' = 0 /\ (held = 0 \/ held \in lost' \cup expired' \/ ~ Expects(held))
         \/ /\ held = 0 /\ held' \in FaultRuns
            /\ state[held'] = "CREATING" \/ held' \in revived'
  <1> DEFINE G == \/ held' = held
                  \/ held' = 0 /\ (held = 0 \/ held \in lost' \cup expired' \/ ~ Expects(held))
                  \/ /\ held = 0 /\ held' \in FaultRuns
                     /\ state[held'] = "CREATING" \/ held' \in revived'
  <1> USE DEF Notifying!NoRun
  <1>t held \in FaultRuns \cup {0}
    BY NotificationTypes
  <1>1 ASSUME NEW r \in FaultRuns, Notifying!PrepareArrives(r) PROVE G
    <2>1 \/ held' = held
         \/ held = 0 /\ held' = r /\ revived' = IF held # 0 \/ state[r] = "CREATING" THEN revived ELSE revived \cup {r}
      BY <1>1 DEF Notifying!PrepareArrives
    <2> QED
      BY <2>1
  <1>2 ASSUME NEW r \in FaultRuns, Notifying!ReleaseArrives(r) PROVE G
    <2>1 release[r] # "none" /\ (held' = held \/ held' = Notifying!Cleared(r))
      BY <1>2 DEF Notifying!ReleaseArrives, Notifying!Released, Notifying!ReleaseThrows
    <2>2 ~ Expects(r)
      BY <2>1 DEF RequestsInOrder, Expects
    <2> QED
      BY <2>1, <2>2 DEF Notifying!Cleared
  <1>3 ASSUME Notifying!Restarted PROVE G
    BY <1>3, <1>t DEF Notifying!Restarted
  <1>4 ASSUME Notifying!SchedulerClears PROVE G
    <2> DEFINE cleared == {r \in FaultRuns : held = r /\ (r \in heap <=> scheduler.run \in heap)}
    <2>1 /\ scheduler.pc = "clear" /\ expired' = expired
         /\ held' = IF cleared = {} THEN held ELSE 0
         /\ lost' = lost \cup (cleared \ {scheduler.run})
      BY <1>4 DEF Notifying!SchedulerClears, Notifying!SchedulerDone
    <2>2 scheduler.run \in expired
      BY <2>1 DEF TargetIsKept
    <2>3 cleared # {} => held \in cleared
      OBVIOUS
    <2> HIDE DEF cleared
    <2> QED
      BY <2>1, <2>2, <2>3
  <1>5 ASSUME Notifying!CleanupArrives PROVE G
    <2>1 /\ request.pc = "checked" /\ request.op = "cleanup"
         /\ held' = held \/ held' = Notifying!Cleared(request.run)
      BY <1>5 DEF Notifying!CleanupArrives, Notifying!Released, Notifying!ReleaseThrows
    <2>2 request.run \in FaultRuns /\ state[request.run] = "RECOVERED"
      BY <2>1 DEF TargetIsKept
    <2>3 ~ Expects(request.run)
      BY <2>2 DEF RequestsInOrder, Expects
    <2> QED
      BY <2>1, <2>3 DEF Notifying!Cleared
  <1>6 ASSUME Notifying!ScenarioCleanupArrives PROVE G
    <2>1 \/ held' = held
         \/ held' = 0 /\ held \in FaultRuns \ heap /\ lost' = lost \cup ({held} \ (heap \cup {0}))
      BY <1>6 DEF Notifying!ScenarioCleanupArrives, Notifying!Released, Notifying!ReleaseThrows, Notifying!Cleared
    <2>2 0 \notin FaultRuns
      BY NotificationTypes
    <2> QED
      BY <2>1, <2>2
  <1>7 ASSUME NEW r \in FaultRuns \cup {0}, Notifying!Restarts(r) PROVE G
    BY <1>3, <1>7 DEF Notifying!Restarts, Notifying!BrokerRestarts, Notifying!serviceVars
  <1>8 ASSUME Notifying!Crashes PROVE G
    BY <1>3, <1>8 DEF Notifying!Crashes
  <1> HIDE DEF G
  <1>9 held' = held => G
    BY DEF G
  <1>10 ASSUME NEW r \in FaultRuns, Notifying!RunStep(r) PROVE G
    <2>1 CASE \/ Notifying!Creates(r) \/ Notifying!Activates(r) \/ Notifying!Compensates(r) \/ Notifying!CreateFails(r)
              \/ Notifying!Recovering(r) \/ Notifying!Recovers(r) \/ Notifying!MarksUnavailable(r)
              \/ Notifying!ConfirmsCleanup(r) \/ Notifying!Appends(r)
      BY <2>1, <1>9 DEF Notifying!Creates, Notifying!Activates, Notifying!Compensates, Notifying!CreateFails,
         Notifying!Recovering, Notifying!Recovers, Notifying!MarksUnavailable, Notifying!ConfirmsCleanup,
         Notifying!Appends, Notifying!serviceVars
    <2> QED
      BY <1>1, <1>2, <1>10, <2>1 DEF Notifying!RunStep, Notifying!TimesOut, Notifying!StopIsConfirmed
  <1>11 ASSUME \/ Notifying!Retains \/ Notifying!HeapFull \/ Notifying!SchedulerTests \/ Notifying!GuardStep
               \/ Notifying!RestartDone \/ Notifying!ScenarioCleanupTests
        PROVE  held' = held
    BY <1>11 DEF Notifying!Retains, Notifying!HeapFull, Notifying!SchedulerTests, Notifying!GuardStep,
       Notifying!RestartDone, Notifying!ScenarioCleanupTests, Notifying!serviceVars
  <1> QED
    BY <1>4, <1>5, <1>6, <1>7, <1>8, <1>9, <1>10, <1>11 DEF Notifying!Next, G

\* What the guard of the target keeps in memory and in Redis.
GuardTyped ==
  /\ fence \in FaultRuns \cup {0} /\ expired \subseteq FaultRuns
  /\ cleanups \in [FaultRuns -> {"none", "registered", "claimed"}]
  /\ scheduler \in [pc : {"idle", "fence", "cleanup", "clear"}, run : FaultRuns \cup {0}]

\* A release, whether it succeeds or throws, and a restart leave the guard well typed.
LEMMA ReleaseKeepsGuard ==
  ASSUME GuardTyped, NEW r, Notifying!Released(r) \/ Notifying!ReleaseThrows(r)
  PROVE  GuardTyped'
  <1>1 CASE Notifying!Released(r)
    <2>1 fence' = fence \/ fence' = 0
      BY <1>1 DEF Notifying!Released, Notifying!ReleaseFence
    <2> QED
      BY <1>1, <2>1 DEF Notifying!Released, GuardTyped
  <1>2 CASE Notifying!ReleaseThrows(r)
    BY <1>2 DEF Notifying!ReleaseThrows, GuardTyped
  <1> QED
    BY <1>1, <1>2

\* A restart of the service leaves the guard well typed: its registrations are gone.
LEMMA RestartKeepsGuard ==
  ASSUME GuardTyped, Notifying!Restarted
  PROVE  GuardTyped'
  BY DEF Notifying!Restarted, Notifying!Idle, Notifying!NoRun, GuardTyped

\* The thread of the guard leaves it well typed when it has served an expiry.
LEMMA DoneKeepsGuard ==
  ASSUME GuardTyped, Notifying!SchedulerDone
  PROVE  GuardTyped'
  BY DEF Notifying!SchedulerDone, Notifying!Idle, Notifying!NoRun, GuardTyped

\* Every step leaves the guard well typed.
LEMMA GuardTypedStep ==
  ASSUME GuardTyped, Notifying!Next
  PROVE  GuardTyped'
  <1>1 UNCHANGED <<fence, expired, cleanups, scheduler>> => GuardTyped'
    BY DEF GuardTyped
  <1>2 ASSUME NEW r \in FaultRuns, Notifying!PrepareArrives(r) PROVE GuardTyped'
    <2>1 /\ fence' \in {fence, r} /\ expired' \in {expired, expired \cup {r}} /\ scheduler' = scheduler
         /\ cleanups' \in {cleanups, [cleanups EXCEPT ![r] = "registered"]}
      BY <1>2 DEF Notifying!PrepareArrives, Notifying!AcceptStart, Notifying!RegisterCleanup
    <2> QED
      BY <2>1 DEF GuardTyped
  <1>3 ASSUME NEW r \in FaultRuns, Notifying!RunStep(r) PROVE GuardTyped'
    <2>1 CASE \/ Notifying!Creates(r) \/ Notifying!Activates(r) \/ Notifying!Compensates(r) \/ Notifying!CreateFails(r)
              \/ Notifying!Recovering(r) \/ Notifying!Recovers(r) \/ Notifying!MarksUnavailable(r)
              \/ Notifying!ConfirmsCleanup(r) \/ Notifying!Appends(r)
      <3>1 UNCHANGED <<fence, expired, cleanups, scheduler>>
        BY <2>1 DEF Notifying!Creates, Notifying!Activates, Notifying!Compensates, Notifying!CreateFails,
           Notifying!Recovering, Notifying!Recovers, Notifying!MarksUnavailable, Notifying!ConfirmsCleanup,
           Notifying!Appends, Notifying!guardVars
      <3> QED
        BY <1>1, <3>1
    <2>2 CASE Notifying!ReleaseArrives(r)
      BY <2>2, ReleaseKeepsGuard DEF Notifying!ReleaseArrives
    <2> QED
      BY <1>2, <1>3, <2>1, <2>2 DEF Notifying!RunStep, Notifying!TimesOut, Notifying!StopIsConfirmed
  <1>4 ASSUME Notifying!GuardStep PROVE GuardTyped'
    <2>1 ASSUME NEW r \in FaultRuns, Notifying!SchedulerClaims(r) PROVE GuardTyped'
      BY <2>1 DEF Notifying!SchedulerClaims, GuardTyped
    <2>2 ASSUME NEW r \in FaultRuns, Notifying!Expire(r) PROVE GuardTyped'
      BY <2>2 DEF Notifying!Expire, GuardTyped
    <2>3 CASE Notifying!SchedulerReleasesFence
      <3>1 fence' = fence \/ fence' = 0
        BY <2>3 DEF Notifying!SchedulerReleasesFence, Notifying!ReleaseFence
      <3> QED
        BY <2>3, <3>1 DEF Notifying!SchedulerReleasesFence, GuardTyped
    <2>4 CASE Notifying!SchedulerGivesUp
      BY <2>4 DEF Notifying!SchedulerGivesUp, Notifying!Idle, Notifying!NoRun, GuardTyped
    <2>5 CASE Notifying!FenceLapses
      BY <2>5 DEF Notifying!FenceLapses, GuardTyped
    <2> QED
      BY <1>4, <2>1, <2>2, <2>3, <2>4, <2>5 DEF Notifying!GuardStep
  <1>5 CASE Notifying!SchedulerTests
    <2>1 CASE held = scheduler.run
      BY <1>5, <2>1 DEF Notifying!SchedulerTests, GuardTyped
    <2>2 CASE held # scheduler.run
      BY <1>5, <2>2, DoneKeepsGuard DEF Notifying!SchedulerTests
    <2> QED
      BY <2>1, <2>2
  <1>6 CASE Notifying!SchedulerClears
    BY <1>6, DoneKeepsGuard DEF Notifying!SchedulerClears
  <1>7 CASE Notifying!CleanupArrives
    <2>1 \/ UNCHANGED <<fence, expired, cleanups, scheduler>>
         \/ Notifying!Released(request.run) \/ Notifying!ReleaseThrows(request.run)
      BY <1>7 DEF Notifying!CleanupArrives, Notifying!guardVars
    <2> QED
      BY <1>1, <2>1, ReleaseKeepsGuard
  <1>8 CASE Notifying!ScenarioCleanupArrives
    <2>1 \/ UNCHANGED <<fence, expired, cleanups, scheduler>>
         \/ Notifying!Released(held) \/ Notifying!ReleaseThrows(held)
      BY <1>8 DEF Notifying!ScenarioCleanupArrives, Notifying!guardVars
    <2> QED
      BY <1>1, <2>1, ReleaseKeepsGuard
  <1>9 ASSUME NEW r \in FaultRuns \cup {Notifying!NoRun}, Notifying!Restarts(r) PROVE GuardTyped'
    <2>1 UNCHANGED <<fence, expired, cleanups, scheduler>> \/ Notifying!Restarted
      BY <1>9 DEF Notifying!Restarts, Notifying!BrokerRestarts
    <2> QED
      BY <1>1, <2>1, RestartKeepsGuard
  <1>10 CASE Notifying!Crashes
    BY <1>10, RestartKeepsGuard DEF Notifying!Crashes
  <1>11 CASE \/ Notifying!Retains \/ Notifying!HeapFull \/ Notifying!RestartDone \/ Notifying!ScenarioCleanupTests
    <2>1 UNCHANGED <<fence, expired, cleanups, scheduler>>
      BY <1>11 DEF Notifying!Retains, Notifying!HeapFull, Notifying!RestartDone, Notifying!ScenarioCleanupTests,
         Notifying!guardVars
    <2> QED
      BY <1>1, <2>1
  <1> QED
    BY <1>3, <1>4, <1>5, <1>6, <1>7, <1>8, <1>9, <1>10, <1>11 DEF Notifying!Next

\* What the service keeps on its heap and on its volume: who changes it.
LEMMA FilesMove ==
  ASSUME Notifying!TypeOK, Notifying!FilesScoped, TargetIsKept, Notifying!Next
  PROVE  /\ up' \in BOOLEAN /\ retained' \subseteq heap /\ files' \subseteq FaultRuns \ heap
         /\ \/ files' \subseteq files /\ cleaned' = cleaned
            \/ held \in FaultRuns /\ files' = files \cup {held} /\ cleaned' = cleaned
            \/ \E r \in FaultRuns : /\ state[r] = "RECOVERED" /\ held' # r /\ files' = files \ {r}
                                    /\ cleaned' = cleaned \cup {r}
  <1> DEFINE F == \/ files' \subseteq files /\ cleaned' = cleaned
                  \/ held \in FaultRuns /\ files' = files \cup {held} /\ cleaned' = cleaned
                  \/ \E r \in FaultRuns : /\ state[r] = "RECOVERED" /\ held' # r /\ files' = files \ {r}
                                          /\ cleaned' = cleaned \cup {r}
             G == up' \in BOOLEAN /\ retained' \subseteq heap /\ files' \subseteq FaultRuns \ heap /\ F
  <1>t /\ files \subseteq FaultRuns \ heap /\ retained \subseteq heap /\ up \in BOOLEAN
       /\ 0 \notin FaultRuns
    BY NotificationTypes
  <1>1 UNCHANGED <<files, up, retained, cleaned>> => G
    BY <1>t
  <1>2 ASSUME NEW r \in FaultRuns, Notifying!Appends(r) PROVE G
    BY <1>2, <1>t DEF Notifying!Appends
  <1>3 ASSUME Notifying!Retains PROVE G
    <2>1 held \in heap
      BY <1>3 DEF Notifying!Retains, Notifying!Retaining
    <2> QED
      BY <1>3, <1>t, <2>1 DEF Notifying!Retains, Notifying!historyVars
  <1>4 ASSUME Notifying!HeapFull PROVE G
    BY <1>4, <1>t DEF Notifying!HeapFull, Notifying!historyVars
  <1>5 ASSUME Notifying!Restarted, cleaned' = cleaned PROVE G
    BY <1>5, <1>t DEF Notifying!Restarted
  <1>6 ASSUME Notifying!CleanupArrives PROVE G
    <2>1 request.run \in FaultRuns /\ state[request.run] = "RECOVERED" /\ request.run # 0
      BY <1>6, <1>t DEF Notifying!CleanupArrives, TargetIsKept
    <2>2 UNCHANGED <<up, retained>>
      BY <1>6 DEF Notifying!CleanupArrives
    <2>3 \/ UNCHANGED <<files, cleaned>>
         \/ /\ held' = Notifying!Cleared(request.run) /\ files' = files \ {request.run}
            /\ cleaned' = cleaned \cup {request.run}
      BY <1>6 DEF Notifying!CleanupArrives, Notifying!Released
    <2>4 Notifying!Cleared(request.run) # request.run
      BY <2>1 DEF Notifying!Cleared, Notifying!NoRun
    <2>5 CASE UNCHANGED <<files, cleaned>>
      BY <1>t, <2>2, <2>5
    <2>6 CASE held' # request.run /\ files' = files \ {request.run} /\ cleaned' = cleaned \cup {request.run}
      <3>1 F
        BY <2>1, <2>6
      <3>2 files' \subseteq FaultRuns \ heap
        BY <1>t, <2>6
      <3> QED
        BY <1>t, <2>2, <3>1, <3>2
    <2> QED
      BY <2>3, <2>4, <2>5, <2>6
  <1>7 ASSUME Notifying!ScenarioCleanupArrives PROVE G
    <2>1 UNCHANGED <<up, retained, cleaned>> /\ files' \in {files, {}}
      BY <1>7 DEF Notifying!ScenarioCleanupArrives
    <2> QED
      BY <1>t, <2>1
  <1> HIDE DEF G
  <1>8 ASSUME NEW r \in FaultRuns, Notifying!RunStep(r) PROVE G
    <2>1 CASE \/ Notifying!Creates(r) \/ Notifying!Activates(r) \/ Notifying!Compensates(r) \/ Notifying!CreateFails(r)
              \/ Notifying!Recovering(r) \/ Notifying!Recovers(r) \/ Notifying!MarksUnavailable(r)
              \/ Notifying!ConfirmsCleanup(r)
      BY <2>1, <1>1 DEF Notifying!Creates, Notifying!Activates, Notifying!Compensates, Notifying!CreateFails,
         Notifying!Recovering, Notifying!Recovers, Notifying!MarksUnavailable, Notifying!ConfirmsCleanup,
         Notifying!serviceVars, Notifying!historyVars
    <2>2 CASE Notifying!PrepareArrives(r) \/ Notifying!ReleaseArrives(r)
      BY <2>2, <1>1 DEF Notifying!PrepareArrives, Notifying!ReleaseArrives, Notifying!historyVars
    <2> QED
      BY <1>2, <1>8, <2>1, <2>2 DEF Notifying!RunStep, Notifying!TimesOut, Notifying!StopIsConfirmed
  <1>9 ASSUME NEW r \in FaultRuns \cup {Notifying!NoRun}, Notifying!Restarts(r) PROVE G
    BY <1>1, <1>5, <1>9 DEF Notifying!Restarts, Notifying!BrokerRestarts, Notifying!serviceVars
  <1>10 ASSUME Notifying!Crashes PROVE G
    BY <1>5, <1>10 DEF Notifying!Crashes
  <1>11 ASSUME \/ Notifying!SchedulerTests \/ Notifying!SchedulerClears \/ Notifying!GuardStep
               \/ Notifying!RestartDone \/ Notifying!ScenarioCleanupTests
        PROVE  G
    BY <1>1, <1>11 DEF Notifying!SchedulerTests, Notifying!SchedulerClears, Notifying!GuardStep,
       Notifying!RestartDone, Notifying!ScenarioCleanupTests, Notifying!serviceVars, Notifying!historyVars
  <1> QED
    BY <1>3, <1>4, <1>6, <1>7, <1>8, <1>9, <1>10, <1>11 DEF Notifying!Next, G

\* A cleaned up run gets no file: it does not hold the target, unless it was accepted
\* after its end.
LEMMA FilesScopedStep ==
  ASSUME Notifying!TypeOK, Notifying!FilesScoped, TargetIsKept, Notifying!Next
  PROVE  Notifying!FilesScoped'
  <1>1 revived \subseteq revived' /\ \A r \in cleaned : held = r => r \in revived
    BY HistoriesGrow DEF TargetIsKept
  <1>2 \/ files' \subseteq files /\ cleaned' = cleaned
       \/ held \in FaultRuns /\ files' = files \cup {held} /\ cleaned' = cleaned
       \/ \E r \in FaultRuns : files' = files \ {r} /\ cleaned' = cleaned \cup {r}
    BY FilesMove
  <1>3 cleaned \cap files \subseteq revived
    BY DEF Notifying!FilesScoped
  <1>4 cleaned' \cap files' \subseteq revived'
    <2>1 CASE files' \subseteq files /\ cleaned' = cleaned
      BY <1>1, <1>3, <2>1
    <2>2 CASE files' = files \cup {held} /\ cleaned' = cleaned
      BY <1>1, <1>3, <2>2
    <2>3 ASSUME NEW r \in FaultRuns, files' = files \ {r} /\ cleaned' = cleaned \cup {r}
         PROVE  cleaned' \cap files' \subseteq revived'
      BY <1>1, <1>3, <2>3
    <2> QED
      BY <1>2, <2>1, <2>2, <2>3
  <1> QED
    BY <1>4 DEF Notifying!FilesScoped

\* What the console asks for, and of which run.
LEMMA RequestsMove ==
  ASSUME Notifying!TypeOK, Notifying!Next
  PROVE  /\ request' \in [pc : {"none", "checked", "answered"},
                          op : {"none", "cleanup", "scenario", "restart"}, run : FaultRuns \cup {0}]
         /\ request'.pc = "checked" /\ request'.op = "cleanup" =>
              request' = request \/ (request'.run \in FaultRuns /\ state[request'.run] = "RECOVERED")
  <1> DEFINE G == /\ request' \in [pc : {"none", "checked", "answered"},
                          op : {"none", "cleanup", "scenario", "restart"}, run : FaultRuns \cup {0}]
                  /\ request'.pc = "checked" /\ request'.op = "cleanup" =>
                       request' = request \/ (request'.run \in FaultRuns /\ state[request'.run] = "RECOVERED")
  <1> USE DEF Notifying!NoRequest, Notifying!NoRun
  <1>1 request' = request => G
    BY NotificationTypes
  <1>2 request' = Notifying!NoRequest => G
    OBVIOUS
  <1>3 ASSUME NEW r \in FaultRuns, Notifying!ConfirmsCleanup(r) PROVE G
    BY <1>3 DEF Notifying!ConfirmsCleanup
  <1>4 ASSUME NEW r \in FaultRuns \cup {0}, Notifying!Restarts(r) PROVE G
    <2>1 \/ request' = [pc |-> "answered", op |-> "restart", run |-> r]
         \/ request' = Notifying!NoRequest
      BY <1>4 DEF Notifying!Restarts
    <2> QED
      BY <1>2, <2>1
  <1>5 ASSUME Notifying!ScenarioCleanupTests PROVE G
    BY <1>5 DEF Notifying!ScenarioCleanupTests
  <1> HIDE DEF G
  <1>6 ASSUME NEW r \in FaultRuns, Notifying!RunStep(r) PROVE G
    <2>1 CASE \/ Notifying!Creates(r) \/ Notifying!Activates(r) \/ Notifying!Compensates(r) \/ Notifying!CreateFails(r)
              \/ Notifying!TimesOut(r) \/ Notifying!Recovers(r) \/ Notifying!MarksUnavailable(r)
              \/ Notifying!StopIsConfirmed(r) \/ Notifying!Appends(r)
              \/ Notifying!PrepareArrives(r) \/ Notifying!ReleaseArrives(r)
      BY <2>1, <1>1 DEF Notifying!Creates, Notifying!Activates, Notifying!Compensates, Notifying!CreateFails,
         Notifying!TimesOut, Notifying!Recovers, Notifying!MarksUnavailable, Notifying!StopIsConfirmed,
         Notifying!Appends, Notifying!PrepareArrives, Notifying!ReleaseArrives
    <2> QED
      BY <1>3, <1>6, <2>1 DEF Notifying!RunStep
  <1>7 ASSUME \/ Notifying!Retains \/ Notifying!HeapFull \/ Notifying!Crashes \/ Notifying!GuardStep
              \/ Notifying!SchedulerTests \/ Notifying!SchedulerClears
       PROVE  G
    BY <1>1, <1>7 DEF Notifying!Retains, Notifying!HeapFull, Notifying!Crashes, Notifying!GuardStep,
       Notifying!SchedulerTests, Notifying!SchedulerClears
  <1>8 ASSUME Notifying!CleanupArrives \/ Notifying!ScenarioCleanupArrives \/ Notifying!RestartDone PROVE G
    BY <1>2, <1>8 DEF Notifying!CleanupArrives, Notifying!ScenarioCleanupArrives, Notifying!RestartDone
  <1> QED
    BY <1>4, <1>5, <1>6, <1>7, <1>8 DEF Notifying!Next, G

\* The histories are about runs.
LEMMA HistoriesTyped ==
  ASSUME Notifying!TypeOK, Notifying!Next
  PROVE  lost' \subseteq FaultRuns /\ revived' \subseteq FaultRuns
  <1> DEFINE G == lost' \subseteq FaultRuns /\ revived' \subseteq FaultRuns
  <1>t lost \subseteq FaultRuns /\ revived \subseteq FaultRuns /\ held \in FaultRuns \cup {0}
    BY NotificationTypes
  <1>1 UNCHANGED <<lost, revived>> => G
    BY <1>t
  <1>2 ASSUME Notifying!Restarted, revived' = revived PROVE G
    BY <1>2, <1>t DEF Notifying!Restarted, Notifying!NoRun
  <1>3 ASSUME NEW r \in FaultRuns, Notifying!PrepareArrives(r) PROVE G
    <2>1 lost' = lost /\ revived' \in {revived, revived \cup {r}}
      BY <1>3 DEF Notifying!PrepareArrives
    <2> QED
      BY <1>t, <2>1
  <1>4 ASSUME Notifying!SchedulerClears PROVE G
    BY <1>4, <1>t DEF Notifying!SchedulerClears
  <1>5 ASSUME Notifying!ScenarioCleanupArrives PROVE G
    <2>1 revived' = revived /\ lost' \in {lost, lost \cup ({held} \ (heap \cup {0}))}
      BY <1>5 DEF Notifying!ScenarioCleanupArrives, Notifying!NoRun
    <2> QED
      BY <1>t, <2>1
  <1> HIDE DEF G
  <1>6 ASSUME NEW r \in FaultRuns, Notifying!RunStep(r) PROVE G
    <2>1 CASE \/ Notifying!Creates(r) \/ Notifying!Activates(r) \/ Notifying!Compensates(r) \/ Notifying!CreateFails(r)
              \/ Notifying!Recovering(r) \/ Notifying!Recovers(r) \/ Notifying!MarksUnavailable(r)
              \/ Notifying!ConfirmsCleanup(r) \/ Notifying!Appends(r) \/ Notifying!ReleaseArrives(r)
      BY <2>1, <1>1 DEF Notifying!Creates, Notifying!Activates, Notifying!Compensates, Notifying!CreateFails,
         Notifying!Recovering, Notifying!Recovers, Notifying!MarksUnavailable, Notifying!ConfirmsCleanup,
         Notifying!Appends, Notifying!ReleaseArrives, Notifying!historyVars
    <2> QED
      BY <1>3, <1>6, <2>1 DEF Notifying!RunStep, Notifying!TimesOut, Notifying!StopIsConfirmed
  <1>7 ASSUME NEW r \in FaultRuns \cup {Notifying!NoRun}, Notifying!Restarts(r) PROVE G
    BY <1>1, <1>2, <1>7 DEF Notifying!Restarts, Notifying!BrokerRestarts
  <1>8 ASSUME Notifying!Crashes PROVE G
    BY <1>2, <1>8 DEF Notifying!Crashes
  <1>9 ASSUME \/ Notifying!Retains \/ Notifying!HeapFull \/ Notifying!GuardStep \/ Notifying!SchedulerTests
              \/ Notifying!CleanupArrives \/ Notifying!RestartDone \/ Notifying!ScenarioCleanupTests
       PROVE  G
    BY <1>1, <1>9 DEF Notifying!Retains, Notifying!HeapFull, Notifying!GuardStep, Notifying!SchedulerTests,
       Notifying!CleanupArrives, Notifying!RestartDone, Notifying!ScenarioCleanupTests, Notifying!historyVars
  <1> QED
    BY <1>4, <1>5, <1>6, <1>7, <1>8, <1>9 DEF Notifying!Next, G

\* A thread of the guard is about an expired run.
LEMMA SchedulerFollows ==
  ASSUME TargetIsKept, Notifying!Next
  PROVE  scheduler'.pc # "idle" => scheduler'.run \in expired'
  <1> DEFINE G == scheduler'.pc # "idle" => scheduler'.run \in expired'
  <1>e expired \subseteq expired'
    BY HistoriesGrow
  <1>i scheduler.pc # "idle" => scheduler.run \in expired
    BY DEF TargetIsKept
  <1>1 scheduler' = scheduler => G
    BY <1>e, <1>i
  <1>2 scheduler' = Notifying!Idle => G
    BY DEF Notifying!Idle
  <1>r ASSUME NEW r, Notifying!Released(r) \/ Notifying!ReleaseThrows(r) PROVE scheduler' = scheduler
    BY <1>r DEF Notifying!Released, Notifying!ReleaseThrows
  <1> HIDE DEF G
  <1>3 ASSUME Notifying!GuardStep PROVE G
    <2>1 ASSUME NEW r \in FaultRuns, Notifying!SchedulerClaims(r) PROVE G
      <3>1 scheduler' = [pc |-> "fence", run |-> r] /\ r \in expired /\ expired' = expired
        BY <2>1 DEF Notifying!SchedulerClaims
      <3> QED
        BY <3>1 DEF G
    <2>2 ASSUME Notifying!SchedulerReleasesFence PROVE G
      <3>1 scheduler.pc = "fence" /\ scheduler' = [scheduler EXCEPT !.pc = "cleanup"]
        BY <2>2 DEF Notifying!SchedulerReleasesFence
      <3>2 scheduler'.run = scheduler.run
        BY <3>1
      <3> QED
        BY <1>e, <1>i, <3>1, <3>2 DEF G
    <2> QED
      BY <1>1, <1>2, <1>3, <2>1, <2>2 DEF Notifying!GuardStep, Notifying!Expire, Notifying!SchedulerGivesUp,
         Notifying!FenceLapses
  <1>4 ASSUME Notifying!SchedulerTests PROVE G
    <2>1 CASE held = scheduler.run
      <3>1 scheduler.pc = "cleanup" /\ scheduler' = [scheduler EXCEPT !.pc = "clear"]
        BY <1>4, <2>1 DEF Notifying!SchedulerTests
      <3>2 scheduler'.run = scheduler.run
        BY <3>1
      <3> QED
        BY <1>e, <1>i, <3>1, <3>2 DEF G
    <2>2 CASE held # scheduler.run
      BY <1>2, <1>4, <2>2 DEF Notifying!SchedulerTests, Notifying!SchedulerDone
    <2> QED
      BY <2>1, <2>2
  <1>5 ASSUME Notifying!SchedulerClears PROVE G
    BY <1>2, <1>5 DEF Notifying!SchedulerClears, Notifying!SchedulerDone
  <1>6 ASSUME NEW r \in FaultRuns, Notifying!RunStep(r) PROVE G
    <2>1 CASE \/ Notifying!Creates(r) \/ Notifying!Activates(r) \/ Notifying!Compensates(r) \/ Notifying!CreateFails(r)
              \/ Notifying!Recovering(r) \/ Notifying!Recovers(r) \/ Notifying!MarksUnavailable(r)
              \/ Notifying!ConfirmsCleanup(r) \/ Notifying!Appends(r)
      BY <2>1, <1>1 DEF Notifying!Creates, Notifying!Activates, Notifying!Compensates, Notifying!CreateFails,
         Notifying!Recovering, Notifying!Recovers, Notifying!MarksUnavailable, Notifying!ConfirmsCleanup,
         Notifying!Appends, Notifying!guardVars
    <2>2 CASE Notifying!ReleaseArrives(r)
      BY <1>1, <1>r, <2>2 DEF Notifying!ReleaseArrives
    <2>3 CASE Notifying!PrepareArrives(r)
      BY <1>1, <2>3 DEF Notifying!PrepareArrives
    <2> QED
      BY <1>6, <2>1, <2>2, <2>3 DEF Notifying!RunStep, Notifying!TimesOut, Notifying!StopIsConfirmed
  <1>7 ASSUME Notifying!CleanupArrives PROVE G
    BY <1>1, <1>r, <1>7 DEF Notifying!CleanupArrives, Notifying!guardVars
  <1>8 ASSUME Notifying!ScenarioCleanupArrives PROVE G
    BY <1>1, <1>r, <1>8 DEF Notifying!ScenarioCleanupArrives, Notifying!guardVars
  <1>9 ASSUME NEW r \in FaultRuns \cup {Notifying!NoRun}, Notifying!Restarts(r) PROVE G
    BY <1>1, <1>2, <1>9 DEF Notifying!Restarts, Notifying!BrokerRestarts, Notifying!Restarted
  <1>10 ASSUME \/ Notifying!Retains \/ Notifying!HeapFull \/ Notifying!Crashes \/ Notifying!RestartDone
               \/ Notifying!ScenarioCleanupTests
        PROVE  G
    BY <1>1, <1>2, <1>10 DEF Notifying!Retains, Notifying!HeapFull, Notifying!Crashes, Notifying!Restarted,
       Notifying!RestartDone, Notifying!ScenarioCleanupTests, Notifying!guardVars
  <1> QED
    BY <1>3, <1>4, <1>5, <1>6, <1>7, <1>8, <1>9, <1>10 DEF Notifying!Next, G

\* Each part of the invariant is kept by what the lemmas say of the step.
LEMMA NotificationStep ==
  ASSUME NotificationInv, Notifying!Next
  PROVE  NotificationInv'
  <1>1 Notifying!TypeOK /\ Notifying!FilesScoped /\ RequestsInOrder /\ TargetIsKept
    BY DEF NotificationInv
  <1>2 /\ RunsTyped /\ 0 \notin FaultRuns /\ held \in FaultRuns \cup {0} /\ heap \in HeapChoices
       /\ cleaned \subseteq FaultRuns
    BY <1>1, NotificationTypes
  <1>3 GuardTyped'
    BY <1>1, NotificationTypes, GuardTypedStep DEF GuardTyped
  <1>4 /\ RunsTyped' /\ RequestsInOrder'
       /\ \A r \in FaultRuns : /\ state[r] = "RECOVERED" => state'[r] = "RECOVERED"
                               /\ Expects(r)' => Expects(r) \/ held' = r
    BY <1>1, RunsFollow
  <1>5 expired \subseteq expired' /\ lost \subseteq lost' /\ revived \subseteq revived' /\ heap' = heap
    BY HistoriesGrow
  <1>6 \/ held' = held
       \/ held' = 0 /\ (held = 0 \/ held \in lost' \cup expired' \/ ~ Expects(held))
       \/ /\ held = 0 /\ held' \in FaultRuns
          /\ state[held'] = "CREATING" \/ held' \in revived'
    BY <1>1, TargetMoves
  <1>7 /\ up' \in BOOLEAN /\ retained' \subseteq heap /\ files' \subseteq FaultRuns \ heap
       /\ \/ cleaned' = cleaned
          \/ \E r \in FaultRuns : state[r] = "RECOVERED" /\ held' # r /\ cleaned' = cleaned \cup {r}
    BY <1>1, FilesMove
  <1>8 /\ request' \in [pc : {"none", "checked", "answered"},
                          op : {"none", "cleanup", "scenario", "restart"}, run : FaultRuns \cup {0}]
       /\ request'.pc = "checked" /\ request'.op = "cleanup" =>
            request' = request \/ (request'.run \in FaultRuns /\ state[request'.run] = "RECOVERED")
    BY <1>1, RequestsMove
  <1>9 lost' \subseteq FaultRuns /\ revived' \subseteq FaultRuns
    BY <1>1, HistoriesTyped
  <1>10 Notifying!TypeOK'
    <2>1 held' \in FaultRuns \cup {0}
      BY <1>2, <1>6
    <2>2 cleaned' \subseteq FaultRuns
      BY <1>2, <1>7
    <2> QED
      BY <1>2, <1>3, <1>4, <1>5, <1>7, <1>8, <1>9, <2>1, <2>2
      DEF Notifying!TypeOK, Notifying!NoRun, GuardTyped, RunsTyped, RunState, PrepareState, ReleaseState
  <1>11 Notifying!FilesScoped'
    BY <1>1, FilesScopedStep
  <1>12 TargetIsKept'
    <2>1 request'.pc = "checked" /\ request'.op = "cleanup" =>
           request'.run \in FaultRuns /\ state'[request'.run] = "RECOVERED"
      BY <1>1, <1>4, <1>8 DEF TargetIsKept
    <2>2 scheduler'.pc # "idle" => scheduler'.run \in expired'
      BY <1>1, SchedulerFollows
    <2>3 ASSUME NEW r \in cleaned PROVE state'[r] = "RECOVERED" /\ (held' = r => r \in revived')
      <3>1 state[r] = "RECOVERED" /\ (held = r => r \in revived) /\ r \in FaultRuns
        BY <1>1, <1>2 DEF TargetIsKept
      <3> QED
        BY <1>2, <1>4, <1>5, <1>6, <3>1
    <2>4 ASSUME NEW r \in FaultRuns, Expects(r)' PROVE r \in expired' \cup lost' \/ held' = r
      <3>1 CASE held' = r
        BY <3>1
      <3>2 CASE held' # r
        <4>1 Expects(r)
          BY <1>4, <2>4, <3>2
        <4>2 r \in expired \cup lost \/ held = r
          BY <1>1, <4>1 DEF TargetIsKept
        <4> QED
          BY <1>2, <1>5, <1>6, <3>2, <4>1, <4>2
      <3> QED
        BY <3>1, <3>2
    <2>5 \A r \in cleaned' : state'[r] = "RECOVERED" /\ (held' = r => r \in revived')
      BY <1>4, <1>7, <2>3
    <2> QED
      BY <2>1, <2>2, <2>4, <2>5 DEF TargetIsKept
  <1> QED
    BY <1>4, <1>10, <1>11, <1>12 DEF NotificationInv

\* The target begins unheld, with no run, request or expiry under way.
LEMMA NotificationStart ==
  ASSUME Notifying!Init
  PROVE  NotificationInv
  <1>1 Notifying!TypeOK
    BY ConsoleAssumption DEF Notifying!Init, Notifying!TypeOK, Notifying!GuardInit, Notifying!Idle, Notifying!NoRun,
       Notifying!NoRequest, Notifying!ActiveStates
  <1>2 \A r \in FaultRuns : state[r] = "NONE" /\ prepare[r] = "none" /\ release[r] = "none"
    BY DEF Notifying!Init
  <1>3 /\ cleaned = {} /\ files = {} /\ scheduler.pc = "idle" /\ request.pc = "none"
    BY DEF Notifying!Init, Notifying!GuardInit, Notifying!Idle, Notifying!NoRequest
  <1>4 \A r \in FaultRuns : ~ Expects(r)
    BY <1>2 DEF Expects
  <1> QED
    BY <1>1, <1>2, <1>3, <1>4 DEF NotificationInv, Notifying!FilesScoped, RequestsInOrder, TargetIsKept

NotificationHolds == focus = "notification" => NotificationInv

\* The invariant holds throughout a run in which the notification target takes the steps.
LEMMA NotificationInvariant == MCSpec => []NotificationHolds
  <1>1 ASSUME MCInit PROVE NotificationHolds
    BY <1>1, NotificationStart DEF MCInit, NotificationHolds
  <1>2 ASSUME NotificationHolds, MCNext PROVE NotificationHolds'
    <2>1 CASE Notifies
      BY <1>2, <2>1, NotificationStep DEF Notifies, NotificationHolds
    <2>2 CASE ~ Notifies
      BY <1>2, <2>2 DEF MCNext, Alerts, Sets, SharesSession, Controls, Views, NotificationHolds
    <2> QED
      BY <2>1, <2>2
  <1>3 ASSUME NotificationHolds, UNCHANGED <<focus, operatorVars, notificationVars, controlVars, clientVars>>
       PROVE  NotificationHolds'
    <2>1 UNCHANGED <<focus, notificationVars>>
      BY <1>3
    <2> QED
      BY <1>3, <2>1 DEF notificationVars, NotificationHolds, NotificationInv, Notifying!TypeOK, Notifying!FilesScoped,
         RequestsInOrder, TargetIsKept, Expects
  <1> QED
    BY <1>1, <1>2, <1>3, PTL DEF MCSpec

\* For any number of runs and failures, and whenever requests, expiries and restarts come, an
\* active run has the notification target until it expires or loses it in a way that is on
\* record, and a cleaned up file stays away (prepareRetention, prepareStorage, clearStorage of
\* the two targets, OperationRunGuard.release).
THEOREM TargetAlwaysFollows == MCSpec => []TargetFollows
  <1>1 ASSUME NotificationInv PROVE Notifying!ActiveIsServed /\ Notifying!FilesScoped
    BY <1>1 DEF NotificationInv, TargetIsKept, Expects, Notifying!ActiveIsServed
  <1>2 NotificationHolds => TargetFollows
    BY <1>1 DEF NotificationHolds, TargetFollows
  <1> QED
    BY <1>2, NotificationInvariant, PTL

-----------------------------------------------------------------------------
\* Control

Stage == {"running", "stopping", "said", "exited", "crashed"}
EngineState ==
  [stage : Stage, config : Controlling!Profile, paused : BOOLEAN, checked : BOOLEAN]
TaskState ==
  [pc : {"idle", "control", "controlled", "config", "configured", "publish", "expire", "lifecycle"},
   paused : BOOLEAN, config : Controlling!Profile, ran : BOOLEAN]

ControlTyped ==
  /\ controlProfile \in Controlling!Profile /\ paused \in BOOLEAN
  /\ engine \in EngineState /\ task \in [Controlling!Task -> TaskState]
  /\ published \in [present : BOOLEAN, running : BOOLEAN, expires : BOOLEAN]
  /\ firm \in BOOLEAN /\ undone \in BOOLEAN /\ slow \in BOOLEAN /\ failed \in 0..MaxFaults

\* A tick that has found the pause carries it and then has it in the engine, but for an
\* older answer of the heartbeat.
PauseIsCarried ==
  firm =>
    /\ paused
    /\ task["tick"].pc = "controlled" => task["tick"].paused
    /\ task["tick"].pc \in {"config", "configured", "publish", "expire", "lifecycle"} /\ ~ undone =>
         engine.paused

\* Nobody has a profile newer than the stored one; of reads that were not slow there is one
\* at a time, kept by the interval, and what it has read is not older than that of the engine.
ProfileIsFollowed ==
  /\ engine.config.version <= controlProfile.version
  /\ \A k \in Controlling!Task : task[k].config.version <= controlProfile.version
  /\ ~ slow =>
       \A k \in Controlling!Reading :
         /\ engine.checked /\ Controlling!Reading = {k}
         /\ task[k].pc = "configured" => task[k].config.version >= engine.config.version

EndIsSaid ==
  /\ engine.stage \in {"said", "exited"} => ~ published.running
  /\ engine.stage \in {"exited", "crashed"} => \A k \in Controlling!Task : task[k].pc = "idle"

ControlInv == ControlTyped /\ PauseIsCarried /\ ProfileIsFollowed /\ EndIsSaid


\* What a step makes of one task, and of the engine.
TaskGoes(k, pc, answer, config) ==
  /\ task'[k].pc = pc /\ task'[k].paused = answer /\ task'[k].config = config
  /\ \A j \in Controlling!Task \ {k} : task'[j] = task[j]
  /\ task' \in [Controlling!Task -> TaskState]
EngineGoes(stageThen, config, pausedThen, checked) ==
  /\ engine'.stage = stageThen /\ engine'.config = config
  /\ engine'.paused = pausedThen /\ engine'.checked = checked
  /\ engine' \in EngineState

\* A task is replaced by another state of it, and the other task stays.
LEMMA TaskBecomes ==
  ASSUME ControlTyped, NEW k \in Controlling!Task, NEW new \in TaskState, task' = [task EXCEPT ![k] = new]
  PROVE  TaskGoes(k, new.pc, new.paused, new.config)
  BY DEF ControlTyped, TaskGoes

\* What begins has the first profile and no answer on its way.
LEMMA FirstAndResting ==
  /\ Controlling!First \in Controlling!Profile /\ Controlling!First.version = 1
  /\ Controlling!Resting \in TaskState
  /\ Controlling!Resting.pc = "idle" /\ Controlling!Resting.paused = FALSE
  /\ Controlling!Resting.config = Controlling!First
  <1>1 Controlling!First \in Controlling!Profile /\ Controlling!First.version = 1
    BY ConsoleAssumption DEF Controlling!First, Controlling!Profile
  <1> QED
    BY <1>1 DEF Controlling!Resting, TaskState

\* Action by action, what becomes of the task that takes the step.
LEMMA TaskSteps ==
  ASSUME ControlTyped, NEW k \in Controlling!Task
  PROVE  /\ Controlling!Begins(k) => TaskGoes(k, "control", task[k].paused, task[k].config)
         /\ Controlling!ControlIsRead(k) => TaskGoes(k, "controlled", paused, task[k].config)
         /\ Controlling!ControlIsTaken(k) =>
              \E pc \in {"publish", "config"} :
                (pc = "publish" <=> engine.checked) /\ TaskGoes(k, pc, FALSE, task[k].config)
         /\ Controlling!ConfigIsRead(k) => TaskGoes(k, "configured", task[k].paused, controlProfile)
         /\ Controlling!ConfigIsTaken(k) => TaskGoes(k, "publish", task[k].paused, Controlling!First)
         /\ Controlling!TaskFails(k) => TaskGoes(k, "idle", FALSE, Controlling!First)
         /\ Controlling!Publishes(k) => TaskGoes(k, "expire", task[k].paused, task[k].config)
         /\ Controlling!SetsExpiry(k) =>
              \E pc \in {"lifecycle", "idle"} : TaskGoes(k, pc, FALSE, Controlling!First)
         /\ Controlling!LifecycleEnds => TaskGoes("tick", "publish", task["tick"].paused, task["tick"].config)
  <1>t /\ task \in [Controlling!Task -> TaskState] /\ task[k] \in TaskState
       /\ controlProfile \in Controlling!Profile /\ paused \in BOOLEAN /\ engine.checked \in BOOLEAN
       /\ "tick" \in Controlling!Task
    BY DEF ControlTyped, EngineState, Controlling!Task
  <1>f Controlling!First \in Controlling!Profile /\ Controlling!Resting \in TaskState
    BY FirstAndResting
  <1>1 ASSUME NEW j \in Controlling!Task, NEW pc \in {"control", "expire", "publish"},
              task' = [task EXCEPT ![j].pc = pc]
       PROVE  TaskGoes(j, pc, task[j].paused, task[j].config)
    <2> DEFINE new == [task[j] EXCEPT !.pc = pc]
    <2>1 new \in TaskState /\ new.pc = pc /\ new.paused = task[j].paused /\ new.config = task[j].config
      BY <1>t DEF TaskState
    <2>2 task' = [task EXCEPT ![j] = new]
      BY <1>1, <1>t
    <2> HIDE DEF new
    <2> QED
      BY <2>1, <2>2, TaskBecomes
  <1>2 ASSUME NEW pc \in {"controlled", "publish", "config"}, NEW answer \in BOOLEAN,
              task' = [task EXCEPT ![k].pc = pc, ![k].paused = answer]
       PROVE  TaskGoes(k, pc, answer, task[k].config)
    <2> DEFINE new == [task[k] EXCEPT !.pc = pc, !.paused = answer]
    <2>1 new \in TaskState /\ new.pc = pc /\ new.paused = answer /\ new.config = task[k].config
      BY <1>t DEF TaskState
    <2>2 task' = [task EXCEPT ![k] = new]
      BY <1>2, <1>t
    <2> HIDE DEF new
    <2> QED
      BY <2>1, <2>2, TaskBecomes
  <1>3 ASSUME NEW pc \in {"configured", "publish"}, NEW config \in Controlling!Profile,
              task' = [task EXCEPT ![k].pc = pc, ![k].config = config]
       PROVE  TaskGoes(k, pc, task[k].paused, config)
    <2> DEFINE new == [task[k] EXCEPT !.pc = pc, !.config = config]
    <2>1 new \in TaskState /\ new.pc = pc /\ new.paused = task[k].paused /\ new.config = config
      BY <1>t DEF TaskState
    <2>2 task' = [task EXCEPT ![k] = new]
      BY <1>3, <1>t
    <2> HIDE DEF new
    <2> QED
      BY <2>1, <2>2, TaskBecomes
  <1>4 ASSUME task' = [task EXCEPT ![k] = Controlling!Resting]
       PROVE  TaskGoes(k, "idle", FALSE, Controlling!First)
    BY <1>4, FirstAndResting, TaskBecomes
  <1>5 Controlling!Begins(k) => TaskGoes(k, "control", task[k].paused, task[k].config)
    BY <1>1 DEF Controlling!Begins, Controlling!Goes
  <1>6 Controlling!ControlIsRead(k) => TaskGoes(k, "controlled", paused, task[k].config)
    BY <1>t, <1>2 DEF Controlling!ControlIsRead
  <1>7 ASSUME Controlling!ControlIsTaken(k)
       PROVE  \E pc \in {"publish", "config"} :
                (pc = "publish" <=> engine.checked) /\ TaskGoes(k, pc, FALSE, task[k].config)
    <2>1 CASE engine.checked
      <3>1 task' = [task EXCEPT ![k].pc = "publish", ![k].paused = FALSE]
        BY <1>7, <2>1 DEF Controlling!ControlIsTaken
      <3> QED
        BY <1>2, <2>1, <3>1
    <2>2 CASE ~ engine.checked
      <3>1 task' = [task EXCEPT ![k].pc = "config", ![k].paused = FALSE]
        BY <1>7, <2>2 DEF Controlling!ControlIsTaken
      <3> QED
        BY <1>2, <2>2, <3>1
    <2> QED
      BY <2>1, <2>2
  <1>8 Controlling!ConfigIsRead(k) => TaskGoes(k, "configured", task[k].paused, controlProfile)
    BY <1>t, <1>3 DEF Controlling!ConfigIsRead
  <1>9 Controlling!ConfigIsTaken(k) => TaskGoes(k, "publish", task[k].paused, Controlling!First)
    BY <1>f, <1>3 DEF Controlling!ConfigIsTaken
  <1>10 Controlling!TaskFails(k) => TaskGoes(k, "idle", FALSE, Controlling!First)
    BY <1>4 DEF Controlling!TaskFails
  <1>11 Controlling!Publishes(k) => TaskGoes(k, "expire", task[k].paused, task[k].config)
    BY <1>1 DEF Controlling!Publishes, Controlling!Goes
  <1>12 ASSUME Controlling!SetsExpiry(k)
        PROVE  \E pc \in {"lifecycle", "idle"} : TaskGoes(k, pc, FALSE, Controlling!First)
    <2> DEFINE new == [Controlling!Resting EXCEPT !.pc = "lifecycle", !.ran = TRUE]
    <2>1 new \in TaskState /\ new.pc = "lifecycle" /\ new.paused = FALSE /\ new.config = Controlling!First
      BY FirstAndResting DEF TaskState
    <2>2 task' = [task EXCEPT ![k] = new] \/ task' = [task EXCEPT ![k] = Controlling!Resting]
      BY <1>12 DEF Controlling!SetsExpiry
    <2> HIDE DEF new
    <2>3 CASE task' = [task EXCEPT ![k] = new]
      BY <2>1, <2>3, TaskBecomes
    <2> QED
      BY <1>4, <2>2, <2>3
  <1>13 Controlling!LifecycleEnds => TaskGoes("tick", "publish", task["tick"].paused, task["tick"].config)
    BY <1>t, <1>1 DEF Controlling!LifecycleEnds, Controlling!Goes
  <1> QED
    BY <1>5, <1>6, <1>7, <1>8, <1>9, <1>10, <1>11, <1>12, <1>13

\* Action by action, what becomes of the engine.
LEMMA EngineSteps ==
  ASSUME ControlTyped
  PROVE  /\ \A k \in Controlling!Task :
              /\ Controlling!ControlIsTaken(k) =>
                   EngineGoes(engine.stage, engine.config, task[k].paused, TRUE)
              /\ Controlling!ConfigIsTaken(k) =>
                   EngineGoes(engine.stage, task[k].config, engine.paused, engine.checked)
         /\ Controlling!FiveSecondsPass => EngineGoes(engine.stage, engine.config, engine.paused, FALSE)
         /\ Controlling!Stops => EngineGoes("stopping", engine.config, engine.paused, engine.checked)
         /\ Controlling!SaysStopped => EngineGoes("said", engine.config, engine.paused, engine.checked)
         /\ Controlling!Exits => EngineGoes("exited", engine.config, engine.paused, engine.checked)
         /\ Controlling!Crashes => EngineGoes("crashed", engine.config, engine.paused, engine.checked)
         /\ Controlling!Restarts => EngineGoes("running", controlProfile, FALSE, FALSE)
  <1>t /\ engine \in EngineState /\ controlProfile \in Controlling!Profile
       /\ \A k \in Controlling!Task : task[k].config \in Controlling!Profile /\ task[k].paused \in BOOLEAN
    BY DEF ControlTyped, TaskState
  <1> USE DEF EngineState, Stage, EngineGoes
  <1>1 ASSUME NEW k \in Controlling!Task, Controlling!ControlIsTaken(k)
       PROVE  EngineGoes(engine.stage, engine.config, task[k].paused, TRUE)
    BY <1>1, <1>t DEF Controlling!ControlIsTaken
  <1>2 ASSUME NEW k \in Controlling!Task, Controlling!ConfigIsTaken(k)
       PROVE  EngineGoes(engine.stage, task[k].config, engine.paused, engine.checked)
    BY <1>2, <1>t DEF Controlling!ConfigIsTaken
  <1>3 Controlling!FiveSecondsPass => EngineGoes(engine.stage, engine.config, engine.paused, FALSE)
    BY <1>t DEF Controlling!FiveSecondsPass
  <1>4 Controlling!Stops => EngineGoes("stopping", engine.config, engine.paused, engine.checked)
    BY <1>t DEF Controlling!Stops
  <1>5 Controlling!SaysStopped => EngineGoes("said", engine.config, engine.paused, engine.checked)
    BY <1>t DEF Controlling!SaysStopped
  <1>6 Controlling!Exits => EngineGoes("exited", engine.config, engine.paused, engine.checked)
    BY <1>t DEF Controlling!Exits, Controlling!Ends
  <1>7 Controlling!Crashes => EngineGoes("crashed", engine.config, engine.paused, engine.checked)
    BY <1>t DEF Controlling!Crashes, Controlling!Ends
  <1>8 Controlling!Restarts => EngineGoes("running", controlProfile, FALSE, FALSE)
    BY <1>t DEF Controlling!Restarts, Controlling!Started
  <1> QED
    BY <1>1, <1>2, <1>3, <1>4, <1>5, <1>6, <1>7, <1>8

\* The steps that leave the tasks, or the engine, as they are; the end of the process.
TasksStay ==
  \/ Controlling!SavesProfile \/ Controlling!Pauses \/ Controlling!Resumes \/ Controlling!FiveSecondsPass
  \/ Controlling!StatusLapses \/ Controlling!Stops \/ Controlling!SaysStopped \/ Controlling!Restarts
EngineStays ==
  \/ Controlling!SavesProfile \/ Controlling!Pauses \/ Controlling!Resumes \/ Controlling!LifecycleEnds
  \/ Controlling!StatusLapses
  \/ \E k \in Controlling!Task :
       \/ Controlling!Begins(k) \/ Controlling!ControlIsRead(k) \/ Controlling!ConfigIsRead(k)
       \/ Controlling!TaskFails(k) \/ Controlling!Publishes(k) \/ Controlling!SetsExpiry(k)
ProcessEnds == Controlling!Exits \/ Controlling!Crashes

\* Those steps do as they are named.
LEMMA OthersStay ==
  /\ TasksStay => task' = task
  /\ EngineStays => engine' = engine
  /\ ProcessEnds => task' = [k \in Controlling!Task |-> Controlling!Resting]
  <1>1 TasksStay => task' = task
    BY DEF TasksStay, Controlling!SavesProfile, Controlling!Pauses, Controlling!Resumes, Controlling!FiveSecondsPass,
       Controlling!StatusLapses, Controlling!Stops, Controlling!SaysStopped, Controlling!Restarts, Controlling!engineVars
  <1>2 EngineStays => engine' = engine
    BY DEF EngineStays, Controlling!SavesProfile, Controlling!Pauses, Controlling!Resumes, Controlling!LifecycleEnds,
       Controlling!StatusLapses, Controlling!Begins, Controlling!ControlIsRead, Controlling!ConfigIsRead,
       Controlling!TaskFails, Controlling!Publishes, Controlling!SetsExpiry, Controlling!engineVars
  <1>3 ProcessEnds => task' = [k \in Controlling!Task |-> Controlling!Resting]
    BY DEF ProcessEnds, Controlling!Exits, Controlling!Crashes, Controlling!Ends
  <1> QED
    BY <1>1, <1>2, <1>3

\* The engine and the tasks stay typed.
LEMMA EngineAndTasksTyped ==
  ASSUME ControlTyped, Controlling!Next
  PROVE  engine' \in EngineState /\ task' \in [Controlling!Task -> TaskState]
  <1>1 engine \in EngineState /\ task \in [Controlling!Task -> TaskState] /\ "tick" \in Controlling!Task
    BY DEF ControlTyped, Controlling!Task
  <1>2 engine' \in EngineState
    BY <1>1, EngineSteps, OthersStay DEF Controlling!Next, Controlling!TaskStep, EngineStays, EngineGoes
  <1>3 task' \in [Controlling!Task -> TaskState]
    <2>1 CASE TasksStay
      BY <1>1, <2>1, OthersStay
    <2>2 CASE ProcessEnds
      BY <2>2, OthersStay, FirstAndResting
    <2>3 CASE Controlling!LifecycleEnds
      BY <1>1, <2>3, TaskSteps DEF TaskGoes
    <2>4 ASSUME NEW k \in Controlling!Task, Controlling!TaskStep(k) PROVE task' \in [Controlling!Task -> TaskState]
      BY <2>4, TaskSteps DEF TaskGoes, Controlling!TaskStep
    <2> QED
      BY <2>1, <2>2, <2>3, <2>4 DEF Controlling!Next, TasksStay, ProcessEnds
  <1> QED
    BY <1>2, <1>3

\* What the operator, the store and the history have stays typed: who changes it.
LEMMA RestTyped ==
  ASSUME ControlTyped, Controlling!Next
  PROVE  /\ controlProfile' \in Controlling!Profile /\ paused' \in BOOLEAN
         /\ published' \in [present : BOOLEAN, running : BOOLEAN, expires : BOOLEAN]
         /\ firm' \in BOOLEAN /\ undone' \in BOOLEAN /\ slow' \in BOOLEAN /\ failed' \in 0..MaxFaults
  <1> DEFINE P == controlProfile' \in Controlling!Profile
             S == published' \in [present : BOOLEAN, running : BOOLEAN, expires : BOOLEAN]
             H == paused' \in BOOLEAN /\ firm' \in BOOLEAN /\ undone' \in BOOLEAN /\ slow' \in BOOLEAN
             F == failed' \in 0..MaxFaults
             G == P /\ S /\ H /\ F
  <1>t /\ controlProfile \in Controlling!Profile /\ paused \in BOOLEAN
       /\ published \in [present : BOOLEAN, running : BOOLEAN, expires : BOOLEAN]
       /\ firm \in BOOLEAN /\ undone \in BOOLEAN /\ slow \in BOOLEAN /\ failed \in 0..MaxFaults
       /\ MaxProfiles \in Nat /\ MaxFaults \in Nat
    BY ConsoleAssumption DEF ControlTyped
  <1>1 controlProfile' = controlProfile => P
    BY <1>t
  <1>2 published' = published => S
    BY <1>t
  <1>3 UNCHANGED <<paused, firm, undone, slow>> => H
    BY <1>t
  <1>4 failed' = failed \/ Controlling!Fails => F
    BY <1>t DEF Controlling!Fails
  <1>5 ASSUME Controlling!SavesProfile PROVE P
    BY <1>5, <1>t DEF Controlling!SavesProfile, Controlling!Profile
  <1>6 ASSUME NEW k \in Controlling!Task, Controlling!Publishes(k) PROVE S
    <2>1 Controlling!Runs \in BOOLEAN
      BY DEF Controlling!Runs
    <2>2 published' = [published EXCEPT !.present = TRUE, !.running = Controlling!Runs]
      BY <1>6 DEF Controlling!Publishes
    <2> QED
      BY <1>t, <2>1, <2>2
  <1>7 ASSUME NEW k \in Controlling!Task, Controlling!SetsExpiry(k) PROVE S
    BY <1>7, <1>t DEF Controlling!SetsExpiry
  <1>8 Controlling!StatusLapses \/ Controlling!SaysStopped => S
    <2>1 /\ [present |-> FALSE, running |-> FALSE, expires |-> FALSE] \in
              [present : BOOLEAN, running : BOOLEAN, expires : BOOLEAN]
         /\ [present |-> TRUE, running |-> FALSE, expires |-> TRUE] \in
              [present : BOOLEAN, running : BOOLEAN, expires : BOOLEAN]
      OBVIOUS
    <2>2 Controlling!StatusLapses => published' = [present |-> FALSE, running |-> FALSE, expires |-> FALSE]
      BY DEF Controlling!StatusLapses
    <2>3 Controlling!SaysStopped => published' = [present |-> TRUE, running |-> FALSE, expires |-> TRUE]
      BY DEF Controlling!SaysStopped
    <2> QED
      BY <2>1, <2>2, <2>3
  <1>9 ASSUME \/ Controlling!Pauses \/ Controlling!Resumes \/ Controlling!FiveSecondsPass
              \/ Controlling!Exits \/ Controlling!Crashes
              \/ \E k \in Controlling!Task :
                   Controlling!Begins(k) \/ Controlling!ControlIsTaken(k) \/ Controlling!ConfigIsTaken(k)
                     \/ Controlling!TaskFails(k)
       PROVE  H
    <2>1 ASSUME NEW k \in Controlling!Task, Controlling!ControlIsTaken(k) PROVE H
      BY <1>t, <2>1 DEF Controlling!ControlIsTaken
    <2>2 ASSUME NEW k \in Controlling!Task, Controlling!ConfigIsTaken(k) \/ Controlling!TaskFails(k) PROVE H
      BY <1>t, <2>2 DEF Controlling!ConfigIsTaken, Controlling!TaskFails
    <2>3 ASSUME NEW k \in Controlling!Task, Controlling!Begins(k) PROVE H
      BY <1>t, <2>3 DEF Controlling!Begins
    <2>4 Controlling!Pauses \/ Controlling!Resumes \/ Controlling!FiveSecondsPass => H
      BY <1>t DEF Controlling!Pauses, Controlling!Resumes, Controlling!FiveSecondsPass, Controlling!engineVars
    <2>5 Controlling!Exits \/ Controlling!Crashes => H
      BY <1>t DEF Controlling!Exits, Controlling!Crashes, Controlling!Ends
    <2> QED
      BY <1>9, <2>1, <2>2, <2>3, <2>4, <2>5
  <1> HIDE DEF P, S, H, F
  <1>10 ASSUME NEW k \in Controlling!Task, Controlling!TaskStep(k) PROVE G
    <2>1 CASE Controlling!Begins(k) \/ Controlling!ControlIsTaken(k) \/ Controlling!ConfigIsTaken(k)
      BY <1>1, <1>2, <1>4, <1>9, <2>1
      DEF Controlling!Begins, Controlling!ControlIsTaken, Controlling!ConfigIsTaken
    <2>2 CASE Controlling!TaskFails(k)
      BY <1>1, <1>2, <1>4, <1>9, <2>2 DEF Controlling!TaskFails
    <2>3 CASE Controlling!ControlIsRead(k) \/ Controlling!ConfigIsRead(k)
      BY <1>1, <1>2, <1>3, <1>4, <2>3 DEF Controlling!ControlIsRead, Controlling!ConfigIsRead
    <2>4 CASE Controlling!Publishes(k) \/ Controlling!SetsExpiry(k)
      BY <1>1, <1>3, <1>4, <1>6, <1>7, <2>4 DEF Controlling!Publishes, Controlling!SetsExpiry
    <2> QED
      BY <1>10, <2>1, <2>2, <2>3, <2>4 DEF Controlling!TaskStep
  <1>11 Controlling!SavesProfile => G
    BY <1>2, <1>3, <1>4, <1>5 DEF Controlling!SavesProfile, Controlling!engineVars
  <1>12 Controlling!Pauses \/ Controlling!Resumes \/ Controlling!FiveSecondsPass => G
    BY <1>1, <1>2, <1>4, <1>9
    DEF Controlling!Pauses, Controlling!Resumes, Controlling!FiveSecondsPass, Controlling!engineVars
  <1>13 Controlling!StatusLapses \/ Controlling!SaysStopped => G
    BY <1>1, <1>3, <1>4, <1>8 DEF Controlling!StatusLapses, Controlling!SaysStopped
  <1>14 Controlling!LifecycleEnds \/ Controlling!Stops \/ Controlling!Restarts => G
    BY <1>1, <1>2, <1>3, <1>4 DEF Controlling!LifecycleEnds, Controlling!Stops, Controlling!Restarts
  <1>15 Controlling!Exits \/ Controlling!Crashes => G
    BY <1>1, <1>2, <1>4, <1>9 DEF Controlling!Exits, Controlling!Crashes, Controlling!Ends
  <1>16 G
    BY <1>10, <1>11, <1>12, <1>13, <1>14, <1>15 DEF Controlling!Next
  <1> QED
    BY <1>16 DEF P, S, H, F

\* Every step of the runner and its operator keeps the state well typed.
LEMMA ControlTypedStep ==
  ASSUME ControlTyped, Controlling!Next
  PROVE  ControlTyped'
  BY EngineAndTasksTyped, RestTyped DEF ControlTyped

\* A tick that began under the pause carries it into the engine.
LEMMA PauseStep ==
  ASSUME ControlTyped, PauseIsCarried, EndIsSaid, Controlling!Next
  PROVE  PauseIsCarried'
  <1>t /\ task \in [Controlling!Task -> TaskState] /\ paused \in BOOLEAN /\ firm \in BOOLEAN /\ undone \in BOOLEAN
       /\ "tick" \in Controlling!Task /\ Controlling!Task = {"tick", "beat"} /\ task["tick"].paused \in BOOLEAN
       /\ \A k \in Controlling!Task : task[k].paused \in BOOLEAN
    BY DEF ControlTyped, TaskState, Controlling!Task
  <1>1 ASSUME NEW k \in Controlling!Task, Controlling!Begins(k) PROVE PauseIsCarried'
    <2>1 paused' = paused /\ engine' = engine
      BY <1>1 DEF Controlling!Begins
    <2>2 TaskGoes(k, "control", task[k].paused, task[k].config)
      BY <1>1, TaskSteps
    <2>3 CASE k = "tick"
      <3>1 firm' = paused /\ task'["tick"].pc = "control"
        BY <1>1, <2>2, <2>3 DEF Controlling!Begins, TaskGoes
      <3> QED
        BY <2>1, <3>1 DEF PauseIsCarried
    <2>4 CASE k # "tick"
      <3>1 UNCHANGED <<firm, undone>>
        BY <1>1, <2>4 DEF Controlling!Begins
      <3>2 task'["tick"] = task["tick"]
        BY <1>t, <2>2, <2>4 DEF TaskGoes
      <3> QED
        BY <2>1, <3>1, <3>2 DEF PauseIsCarried
    <2> QED
      BY <2>3, <2>4
  <1>2 ASSUME NEW k \in Controlling!Task, Controlling!ControlIsRead(k) PROVE PauseIsCarried'
    <2>1 /\ UNCHANGED <<paused, firm, undone, engine>>
         /\ \/ task'["tick"] = task["tick"]
            \/ task'["tick"].pc = "controlled" /\ task'["tick"].paused = paused
      BY <1>2, <1>t, TaskSteps DEF Controlling!ControlIsRead, TaskGoes
    <2> QED
      BY <2>1 DEF PauseIsCarried
  <1>3 ASSUME NEW k \in Controlling!Task, Controlling!ControlIsTaken(k) PROVE PauseIsCarried'
    <2>1 paused' = paused /\ firm' = firm /\ task[k].pc = "controlled"
      BY <1>3 DEF Controlling!ControlIsTaken, Controlling!At
    <2>2 undone' <=> undone \/ (k = "beat" /\ paused /\ ~ task[k].paused)
      BY <1>3 DEF Controlling!ControlIsTaken
    <2>3 engine'.paused = task[k].paused
      BY <1>3, EngineSteps DEF EngineGoes
    <2>4 PICK pc \in {"publish", "config"} : TaskGoes(k, pc, FALSE, task[k].config)
      BY <1>3, TaskSteps
    <2>5 CASE k = "tick"
      <3>1 task'["tick"].pc \in {"publish", "config"}
        BY <2>4, <2>5 DEF TaskGoes
      <3>2 firm => paused /\ engine'.paused
        BY <2>1, <2>3, <2>5 DEF PauseIsCarried
      <3> QED
        BY <2>1, <3>1, <3>2 DEF PauseIsCarried
    <2>6 CASE k = "beat"
      <3>1 task'["tick"] = task["tick"]
        BY <1>t, <2>4, <2>6 DEF TaskGoes
      <3>2 firm /\ ~ undone' => ~ undone /\ engine'.paused
        BY <2>2, <2>3, <2>6 DEF PauseIsCarried
      <3> QED
        BY <2>1, <3>1, <3>2 DEF PauseIsCarried
    <2> QED
      BY <1>t, <2>5, <2>6
  <1>4 ASSUME NEW k \in Controlling!Task,
              \/ Controlling!ConfigIsRead(k) \/ Controlling!ConfigIsTaken(k) \/ Controlling!TaskFails(k)
              \/ Controlling!Publishes(k) \/ Controlling!SetsExpiry(k)
       PROVE  PauseIsCarried'
    <2>1 UNCHANGED <<paused, firm, undone>> /\ task[k].pc \in {"config", "configured", "publish", "expire", "control"}
      BY <1>4 DEF Controlling!ConfigIsRead, Controlling!ConfigIsTaken, Controlling!TaskFails, Controlling!Publishes,
         Controlling!SetsExpiry, Controlling!At
    <2>2 engine'.paused = engine.paused
      BY <1>4, EngineSteps, OthersStay DEF EngineGoes, EngineStays
    <2>3 /\ \A j \in Controlling!Task \ {k} : task'[j] = task[j]
         /\ \/ task'[k].pc = "idle"
            \/ /\ task[k].pc \in {"config", "configured", "publish", "expire"}
               /\ task'[k].pc \in {"configured", "publish", "expire", "lifecycle"}
      BY <1>4, TaskSteps DEF Controlling!ConfigIsRead, Controlling!ConfigIsTaken, Controlling!Publishes,
         Controlling!SetsExpiry, Controlling!At, TaskGoes
    <2>4 \/ task'["tick"] = task["tick"]
         \/ task'["tick"].pc = "idle"
         \/ /\ task["tick"].pc \in {"config", "configured", "publish", "expire"}
            /\ task'["tick"].pc \in {"configured", "publish", "expire", "lifecycle"}
      BY <1>t, <2>3
    <2> QED
      BY <2>1, <2>2, <2>4 DEF PauseIsCarried
  <1>5 ASSUME Controlling!LifecycleEnds PROVE PauseIsCarried'
    <2>1 /\ UNCHANGED <<paused, firm, undone, engine>> /\ task["tick"].pc = "lifecycle" /\ task'["tick"].pc = "publish"
      BY <1>5, <1>t, TaskSteps DEF Controlling!LifecycleEnds, Controlling!At, TaskGoes
    <2> QED
      BY <2>1 DEF PauseIsCarried
  <1>6 ASSUME ProcessEnds PROVE PauseIsCarried'
    <2>1 UNCHANGED <<paused, firm, undone>> /\ task'["tick"].pc = "idle"
      BY <1>6, <1>t, OthersStay, FirstAndResting
      DEF ProcessEnds, Controlling!Exits, Controlling!Crashes, Controlling!Ends
    <2> QED
      BY <2>1 DEF PauseIsCarried
  <1>7 ASSUME Controlling!Restarts PROVE PauseIsCarried'
    <2>1 /\ UNCHANGED <<paused, firm, undone, task>> /\ task["tick"].pc = "idle"
      BY <1>7, <1>t DEF Controlling!Restarts, EndIsSaid
    <2> QED
      BY <2>1 DEF PauseIsCarried
  <1>8 ASSUME Controlling!FiveSecondsPass \/ Controlling!Stops \/ Controlling!SaysStopped PROVE PauseIsCarried'
    <2>1 UNCHANGED <<paused, firm, undone, task>> /\ engine'.paused = engine.paused
      BY <1>8, EngineSteps
      DEF Controlling!FiveSecondsPass, Controlling!Stops, Controlling!SaysStopped, EngineGoes
    <2> QED
      BY <2>1 DEF PauseIsCarried
  <1>9 ASSUME \/ Controlling!SavesProfile \/ Controlling!Pauses \/ Controlling!Resumes \/ Controlling!StatusLapses
       PROVE  PauseIsCarried'
    <2>1 UNCHANGED <<undone, task, engine>> /\ (UNCHANGED <<paused, firm>> \/ (paused' = TRUE /\ firm' = firm) \/ firm' = FALSE)
      BY <1>9 DEF Controlling!SavesProfile, Controlling!Pauses, Controlling!Resumes, Controlling!StatusLapses,
         Controlling!engineVars
    <2> QED
      BY <2>1 DEF PauseIsCarried
  <1> QED
    BY <1>1, <1>2, <1>3, <1>4, <1>5, <1>6, <1>7, <1>8, <1>9 DEF Controlling!Next, Controlling!TaskStep, ProcessEnds

\* Where the reads, the versions and the engine stay as they are, so does the rest.
LEMMA ProfileStays ==
  ASSUME ControlTyped, ProfileIsFollowed,
         \A k \in Controlling!Task :
           /\ task'[k].config.version = task[k].config.version \/ task'[k].config = Controlling!First
           /\ task'[k].pc \in {"config", "configured"} => task'[k] = task[k],
         engine'.config = engine.config, engine'.checked = engine.checked,
         controlProfile'.version >= controlProfile.version, controlProfile' \in Controlling!Profile,
         ~ slow' => ~ slow \/ \A k \in Controlling!Task : task'[k].pc \notin {"config", "configured"}
  PROVE  ProfileIsFollowed'
  <1>1 /\ controlProfile.version \in Nat /\ controlProfile.version >= 1 /\ controlProfile'.version \in Nat
       /\ engine.config.version \in Nat /\ \A k \in Controlling!Task : task[k].config.version \in Nat
       /\ Controlling!First.version = 1
    BY ConsoleAssumption, FirstAndResting DEF ControlTyped, Controlling!Profile, EngineState, TaskState
  <1>2 engine'.config.version <= controlProfile'.version
    BY <1>1 DEF ProfileIsFollowed
  <1>3 \A k \in Controlling!Task : task'[k].config.version <= controlProfile'.version
    BY <1>1 DEF ProfileIsFollowed
  <1>4 ASSUME ~ slow', NEW k \in Controlling!Reading'
       PROVE  /\ engine'.checked /\ Controlling!Reading' = {k}
              /\ task'[k].pc = "configured" => task'[k].config.version >= engine'.config.version
    <2>1 k \in Controlling!Task /\ task'[k].pc \in {"config", "configured"}
      BY <1>4 DEF Controlling!Reading
    <2>2 task'[k] = task[k] /\ k \in Controlling!Reading /\ ~ slow
      BY <1>4, <2>1 DEF Controlling!Reading
    <2>3 Controlling!Reading' \subseteq Controlling!Reading
      BY DEF Controlling!Reading
    <2> QED
      BY <1>4, <2>2, <2>3 DEF ProfileIsFollowed
  <1> QED
    BY <1>2, <1>3, <1>4 DEF ProfileIsFollowed

\* No task has a profile that is not stored, and of reads that are not slow there is one.
LEMMA ProfileStep ==
  ASSUME ControlTyped, ProfileIsFollowed, EndIsSaid, Controlling!Next
  PROVE  ProfileIsFollowed'
  <1>t /\ task \in [Controlling!Task -> TaskState] /\ slow \in BOOLEAN /\ engine.checked \in BOOLEAN
       /\ controlProfile.version \in Nat /\ controlProfile' \in Controlling!Profile
       /\ engine.config.version \in Nat /\ "tick" \in Controlling!Task
       /\ \A k \in Controlling!Task : task[k].config.version \in Nat
    BY RestTyped DEF ControlTyped, EngineState, TaskState, Controlling!Profile, Controlling!Task
  <1>i /\ engine.config.version <= controlProfile.version
       /\ \A k \in Controlling!Task : task[k].config.version <= controlProfile.version
       /\ ~ slow => \A k \in Controlling!Reading :
            /\ engine.checked /\ Controlling!Reading = {k}
            /\ task[k].pc = "configured" => task[k].config.version >= engine.config.version
    BY DEF ProfileIsFollowed
  <1>1 ASSUME NEW k \in Controlling!Task, Controlling!ControlIsTaken(k) PROVE ProfileIsFollowed'
    <2>1 PICK pc \in {"publish", "config"} :
           (pc = "publish" <=> engine.checked) /\ TaskGoes(k, pc, FALSE, task[k].config)
      BY <1>1, TaskSteps
    <2>2 /\ engine'.config = engine.config /\ engine'.checked = TRUE /\ UNCHANGED <<slow, controlProfile>>
      BY <1>1, EngineSteps DEF EngineGoes, Controlling!ControlIsTaken
    <2>3 /\ \A j \in Controlling!Task \ {k} : task'[j] = task[j]
         /\ task'[k].pc = pc /\ task'[k].config = task[k].config
      BY <2>1 DEF TaskGoes
    <2>4 CASE engine.checked
      <3>1 pc = "publish" /\ engine'.checked = engine.checked
        BY <1>t, <2>1, <2>2, <2>4
      <3>2 \A j \in Controlling!Task :
             task'[j] = task[j]
             \/ (task'[j].pc = "publish" /\ task'[j].config = task[j].config)
        BY <2>3, <3>1
      <3> QED
        BY <1>t, <2>2, <3>1, <3>2, ProfileStays
    <2>5 CASE ~ engine.checked
      <3>1 ~ slow => Controlling!Reading' = {k}
        BY <1>i, <2>1, <2>3, <2>5 DEF Controlling!Reading
      <3>2 task'[k].pc = "config"
        BY <2>1, <2>3, <2>5
      <3>3 \A j \in Controlling!Task : task'[j].config.version <= controlProfile'.version
        BY <1>i, <2>2, <2>3
      <3> QED
        BY <1>i, <2>2, <3>1, <3>2, <3>3 DEF ProfileIsFollowed
    <2> QED
      BY <2>4, <2>5
  <1>2 ASSUME NEW k \in Controlling!Task, Controlling!ConfigIsRead(k) PROVE ProfileIsFollowed'
    <2>1 /\ \A j \in Controlling!Task \ {k} : task'[j] = task[j]
         /\ task'[k].pc = "configured" /\ task'[k].config = controlProfile /\ task[k].pc = "config"
         /\ UNCHANGED <<slow, controlProfile, engine>>
      BY <1>2, TaskSteps DEF TaskGoes, Controlling!ConfigIsRead, Controlling!At
    <2>2 Controlling!Reading' = Controlling!Reading /\ k \in Controlling!Reading
      BY <2>1 DEF Controlling!Reading
    <2>3 \A j \in Controlling!Task : task'[j].config.version <= controlProfile'.version
      BY <1>i, <1>t, <2>1
    <2> QED
      BY <1>i, <2>1, <2>2, <2>3 DEF ProfileIsFollowed
  <1>3 ASSUME NEW k \in Controlling!Task, Controlling!ConfigIsTaken(k) PROVE ProfileIsFollowed'
    <2>1 /\ \A j \in Controlling!Task \ {k} : task'[j] = task[j]
         /\ task'[k].pc = "publish" /\ task'[k].config = Controlling!First /\ task[k].pc = "configured"
         /\ engine'.config = task[k].config /\ engine'.checked = engine.checked
         /\ controlProfile' = controlProfile /\ slow' = (slow /\ Controlling!Reading # {k})
      BY <1>3, TaskSteps, EngineSteps DEF TaskGoes, EngineGoes, Controlling!ConfigIsTaken, Controlling!At
    <2>2 k \in Controlling!Reading /\ Controlling!Reading' = Controlling!Reading \ {k}
      BY <2>1 DEF Controlling!Reading
    <2>3 ~ slow' => Controlling!Reading' = {}
      BY <1>i, <2>1, <2>2
    <2>4 controlProfile.version >= 1 /\ Controlling!First.version = 1
      BY FirstAndResting DEF ControlTyped, Controlling!Profile
    <2>5 \A j \in Controlling!Task : task'[j].config.version <= controlProfile'.version
      BY <1>i, <2>1, <2>4
    <2> QED
      BY <1>i, <2>1, <2>3, <2>5 DEF ProfileIsFollowed
  <1>4 ASSUME NEW k \in Controlling!Task, Controlling!TaskFails(k) PROVE ProfileIsFollowed'
    <2>1 /\ \A j \in Controlling!Task \ {k} : task'[j] = task[j]
         /\ task'[k].pc = "idle" /\ task'[k].config = Controlling!First /\ engine' = engine
         /\ controlProfile' = controlProfile /\ slow' = (slow /\ Controlling!Reading \ {k} # {})
      BY <1>4, TaskSteps DEF TaskGoes, Controlling!TaskFails
    <2>2 ~ slow' => ~ slow \/ \A j \in Controlling!Task : task'[j].pc \notin {"config", "configured"}
      BY <2>1 DEF Controlling!Reading
    <2> QED
      BY <1>t, <2>1, <2>2, ProfileStays
  <1>5 ASSUME NEW k \in Controlling!Task,
              \/ Controlling!Begins(k) \/ Controlling!ControlIsRead(k) \/ Controlling!Publishes(k)
              \/ Controlling!SetsExpiry(k)
       PROVE  ProfileIsFollowed'
    <2>1 UNCHANGED <<controlProfile, engine, slow>>
      BY <1>5 DEF Controlling!Begins, Controlling!ControlIsRead, Controlling!Publishes, Controlling!SetsExpiry
    <2>2 /\ \A j \in Controlling!Task \ {k} : task'[j] = task[j]
         /\ task'[k].pc \notin {"config", "configured"}
         /\ task'[k].config = task[k].config \/ task'[k].config = Controlling!First
      BY <1>5, TaskSteps DEF TaskGoes
    <2> QED
      BY <1>t, <2>1, <2>2, ProfileStays
  <1>6 ASSUME Controlling!LifecycleEnds PROVE ProfileIsFollowed'
    <2>1 /\ \A j \in Controlling!Task \ {"tick"} : task'[j] = task[j]
         /\ task'["tick"].pc = "publish" /\ task'["tick"].config = task["tick"].config
         /\ UNCHANGED <<controlProfile, engine, slow>>
      BY <1>6, <1>t, TaskSteps DEF TaskGoes, Controlling!LifecycleEnds
    <2> QED
      BY <1>t, <2>1, ProfileStays
  <1>7 ASSUME ProcessEnds PROVE ProfileIsFollowed'
    <2>1 /\ \A k \in Controlling!Task : task'[k].pc = "idle" /\ task'[k].config = Controlling!First
         /\ engine'.config = engine.config /\ engine'.checked = engine.checked /\ controlProfile' = controlProfile
      BY <1>7, OthersStay, EngineSteps, FirstAndResting
      DEF ProcessEnds, EngineGoes, Controlling!Exits, Controlling!Crashes, Controlling!Ends
    <2> QED
      BY <1>t, <2>1, ProfileStays
  <1>8 ASSUME Controlling!Restarts PROVE ProfileIsFollowed'
    <2>1 /\ UNCHANGED <<task, controlProfile, slow>> /\ engine'.config = controlProfile
         /\ \A k \in Controlling!Task : task[k].pc = "idle"
      BY <1>8, EngineSteps DEF EngineGoes, Controlling!Restarts, EndIsSaid
    <2>2 Controlling!Reading' = {}
      BY <2>1 DEF Controlling!Reading
    <2> QED
      BY <1>i, <1>t, <2>1, <2>2 DEF ProfileIsFollowed
  <1>9 ASSUME Controlling!FiveSecondsPass PROVE ProfileIsFollowed'
    <2>1 /\ UNCHANGED <<task, controlProfile>> /\ engine'.config = engine.config /\ slow' = (Controlling!Reading # {})
      BY <1>9, EngineSteps DEF EngineGoes, Controlling!FiveSecondsPass
    <2>2 Controlling!Reading' = Controlling!Reading
      BY <2>1 DEF Controlling!Reading
    <2> QED
      BY <1>i, <2>1, <2>2 DEF ProfileIsFollowed
  <1>10 ASSUME Controlling!Stops \/ Controlling!SaysStopped PROVE ProfileIsFollowed'
    <2>1 /\ UNCHANGED <<task, controlProfile, slow>> /\ engine'.config = engine.config /\ engine'.checked = engine.checked
      BY <1>10, EngineSteps DEF EngineGoes, Controlling!Stops, Controlling!SaysStopped
    <2> QED
      BY <1>t, <2>1, ProfileStays
  <1>11 ASSUME Controlling!SavesProfile PROVE ProfileIsFollowed'
    <2>1 UNCHANGED <<task, engine, slow>> /\ controlProfile'.version = controlProfile.version + 1
      BY <1>11 DEF Controlling!SavesProfile, Controlling!engineVars
    <2> QED
      BY <1>t, <2>1, ProfileStays
  <1>12 ASSUME Controlling!Pauses \/ Controlling!Resumes \/ Controlling!StatusLapses PROVE ProfileIsFollowed'
    <2>1 UNCHANGED <<task, engine, slow, controlProfile>>
      BY <1>12 DEF Controlling!Pauses, Controlling!Resumes, Controlling!StatusLapses, Controlling!engineVars
    <2> QED
      BY <1>t, <2>1, ProfileStays
  <1> QED
    BY <1>1, <1>2, <1>3, <1>4, <1>5, <1>6, <1>7, <1>8, <1>9, <1>10, <1>11, <1>12
    DEF Controlling!Next, Controlling!TaskStep, ProcessEnds

\* Once the engine has said that it stops, no status says that it runs.
LEMMA EndStep ==
  ASSUME ControlTyped, EndIsSaid, Controlling!Next
  PROVE  EndIsSaid'
  <1>t /\ engine \in EngineState /\ published \in [present : BOOLEAN, running : BOOLEAN, expires : BOOLEAN]
       /\ "tick" \in Controlling!Task
    BY DEF ControlTyped, Controlling!Task
  <1>1 ASSUME NEW k \in Controlling!Task, Controlling!TaskStep(k) PROVE EndIsSaid'
    <2>1 engine'.stage = engine.stage
      BY <1>1, EngineSteps, OthersStay DEF Controlling!TaskStep, EngineStays, EngineGoes
    <2>2 engine.stage \notin {"exited", "crashed"}
      BY <1>1 DEF Controlling!TaskStep, EndIsSaid, Controlling!At, Controlling!Begins, Controlling!ControlIsRead,
         Controlling!ControlIsTaken, Controlling!ConfigIsRead, Controlling!ConfigIsTaken, Controlling!TaskFails,
         Controlling!Publishes, Controlling!SetsExpiry
    <2>3 engine.stage = "said" => ~ Controlling!Runs
      BY DEF Controlling!Runs
    <2>4 CASE Controlling!Publishes(k)
      <3>1 published'.running = Controlling!Runs
        BY <1>t, <2>4 DEF Controlling!Publishes
      <3> QED
        BY <2>1, <2>2, <2>3, <3>1 DEF EndIsSaid
    <2>5 CASE ~ Controlling!Publishes(k)
      <3>1 published'.running = published.running
        BY <1>1, <1>t, <2>5 DEF Controlling!TaskStep, Controlling!Begins, Controlling!ControlIsRead,
           Controlling!ControlIsTaken, Controlling!ConfigIsRead, Controlling!ConfigIsTaken, Controlling!TaskFails,
           Controlling!SetsExpiry
      <3> QED
        BY <2>1, <2>2, <3>1 DEF EndIsSaid
    <2> QED
      BY <2>4, <2>5
  <1>2 ASSUME Controlling!LifecycleEnds PROVE EndIsSaid'
    <2>1 UNCHANGED <<engine, published>> /\ task["tick"].pc = "lifecycle"
      BY <1>2 DEF Controlling!LifecycleEnds, Controlling!At
    <2> QED
      BY <1>t, <2>1 DEF EndIsSaid
  <1>3 ASSUME Controlling!SavesProfile \/ Controlling!Pauses \/ Controlling!Resumes PROVE EndIsSaid'
    BY <1>3 DEF Controlling!SavesProfile, Controlling!Pauses, Controlling!Resumes, Controlling!engineVars, EndIsSaid
  <1>4 ASSUME Controlling!FiveSecondsPass PROVE EndIsSaid'
    <2>1 UNCHANGED <<task, published>> /\ engine'.stage = engine.stage
      BY <1>4, EngineSteps DEF Controlling!FiveSecondsPass, EngineGoes
    <2> QED
      BY <2>1 DEF EndIsSaid
  <1>5 ASSUME Controlling!StatusLapses PROVE EndIsSaid'
    <2>1 UNCHANGED <<task, engine>> /\ published'.running = FALSE
      BY <1>5 DEF Controlling!StatusLapses
    <2> QED
      BY <2>1 DEF EndIsSaid
  <1>6 ASSUME Controlling!Stops \/ Controlling!Restarts PROVE EndIsSaid'
    <2>1 engine'.stage \in {"stopping", "running"}
      BY <1>6, EngineSteps DEF EngineGoes
    <2> QED
      BY <2>1 DEF EndIsSaid
  <1>7 ASSUME Controlling!SaysStopped PROVE EndIsSaid'
    <2>1 engine'.stage = "said" /\ published'.running = FALSE
      BY <1>7, EngineSteps DEF EngineGoes, Controlling!SaysStopped
    <2> QED
      BY <2>1 DEF EndIsSaid
  <1>8 ASSUME ProcessEnds PROVE EndIsSaid'
    <2>1 /\ engine'.stage = "crashed" \/ (engine'.stage = "exited" /\ engine.stage = "said")
         /\ published' = published
      BY <1>8, EngineSteps DEF EngineGoes, ProcessEnds, Controlling!Exits, Controlling!Crashes, Controlling!Ends
    <2>2 \A k \in Controlling!Task : task'[k].pc = "idle"
      BY <1>8, OthersStay, FirstAndResting
    <2> QED
      BY <2>1, <2>2 DEF EndIsSaid
  <1> QED
    BY <1>1, <1>2, <1>3, <1>4, <1>5, <1>6, <1>7, <1>8 DEF Controlling!Next, ProcessEnds

\* The engine begins with the profile of the database and no task under way.
LEMMA ControlStart ==
  ASSUME Controlling!Init
  PROVE  ControlInv
  <1> USE ConsoleAssumption
  <1>1 Controlling!First \in Controlling!Profile /\ Controlling!First.version = 1
    BY DEF Controlling!First, Controlling!Profile
  <1>2 Controlling!Resting \in TaskState /\ Controlling!Resting.pc = "idle" /\ Controlling!Resting.config = Controlling!First
    BY <1>1 DEF TaskState, Controlling!Resting
  <1>3 engine \in EngineState /\ engine.stage = "running" /\ engine.config = Controlling!First
    BY <1>1 DEF EngineState, Stage, Controlling!Init, Controlling!Started
  <1>4 /\ task \in [Controlling!Task -> TaskState]
       /\ \A k \in Controlling!Task : task[k].pc = "idle" /\ task[k].config = Controlling!First
    BY <1>2 DEF Controlling!Init
  <1>5 ControlTyped
    <2>1 published \in [present : BOOLEAN, running : BOOLEAN, expires : BOOLEAN]
      BY DEF Controlling!Init
    <2>2 controlProfile \in Controlling!Profile /\ failed \in 0..MaxFaults
      BY <1>1 DEF Controlling!Init
    <2>3 paused = FALSE /\ firm = FALSE /\ undone = FALSE /\ slow = FALSE
      BY DEF Controlling!Init
    <2> QED
      BY <1>3, <1>4, <2>1, <2>2, <2>3 DEF ControlTyped
  <1>6 PauseIsCarried
    BY DEF PauseIsCarried, Controlling!Init
  <1>7 ProfileIsFollowed
    BY <1>1, <1>3, <1>4 DEF ProfileIsFollowed, Controlling!Init, Controlling!Reading
  <1>8 EndIsSaid
    BY <1>3 DEF EndIsSaid
  <1> QED
    BY <1>5, <1>6, <1>7, <1>8 DEF ControlInv

ControlHolds == focus = "control" => ControlInv

\* The invariant holds throughout a run in which the runner and its operator take the steps.
LEMMA ControlInvariant == MCSpec => []ControlHolds
  <1>1 ASSUME MCInit PROVE ControlHolds
    BY <1>1, ControlStart DEF MCInit, ControlHolds
  <1>2 ASSUME ControlHolds, MCNext PROVE ControlHolds'
    <2>1 CASE Controls
      BY <1>2, <2>1, ControlTypedStep, PauseStep, ProfileStep, EndStep DEF Controls, ControlHolds, ControlInv
    <2>2 CASE ~ Controls
      BY <1>2, <2>2 DEF MCNext, Alerts, Sets, Notifies, Views, SharesSession, ControlHolds
    <2> QED
      BY <2>1, <2>2
  <1>3 ASSUME ControlHolds, UNCHANGED <<focus, operatorVars, notificationVars, controlVars, clientVars>>
       PROVE  ControlHolds'
    <2>1 UNCHANGED <<focus, controlProfile, paused, engine, task, published, firm, undone, slow, failed>>
      BY <1>3 DEF controlVars
    <2> QED
      BY <1>3, <2>1 DEF ControlHolds, ControlInv, ControlTyped, PauseIsCarried, ProfileIsFollowed, EndIsSaid,
         Controlling!Reading
  <1> QED
    BY <1>1, <1>2, <1>3, PTL DEF MCSpec

\* A lifecycle begins where the tick has looked at the engine for the last time.
LEMMA PauseHeeded ==
  ASSUME ControlInv, Controlling!Next
  PROVE  Controlling!PauseIsHeeded
  <1> SUFFICES ASSUME task["tick"].pc # "lifecycle", task'["tick"].pc = "lifecycle", firm PROVE undone
    BY DEF Controlling!PauseIsHeeded, Controlling!At
  <1>a /\ task \in [Controlling!Task -> TaskState] /\ "tick" \in Controlling!Task
       /\ undone \in BOOLEAN /\ engine \in EngineState
    BY DEF ControlInv, ControlTyped, Controlling!Task
  <1>b Controlling!Resting.pc = "idle"
    BY DEF Controlling!Resting
  <1>1 ASSUME NEW k \in Controlling!Task, Controlling!SetsExpiry(k) PROVE undone
    <2>1 k = "tick" /\ task["tick"].pc = "expire" /\ Controlling!Runs
      BY <1>1, <1>a, <1>b DEF Controlling!SetsExpiry, Controlling!At
    <2> QED
      BY <2>1 DEF Controlling!Runs, ControlInv, PauseIsCarried
  <1>2 ASSUME NEW k \in Controlling!Task, Controlling!TaskStep(k), ~ Controlling!SetsExpiry(k) PROVE FALSE
    <2>1 ~ Controlling!Begins(k)
      BY <1>a, <1>b DEF Controlling!Begins, Controlling!Goes, TaskState
    <2>2 ~ Controlling!ControlIsRead(k)
      BY <1>a, <1>b DEF Controlling!ControlIsRead, Controlling!Goes, TaskState
    <2>3 ~ Controlling!ControlIsTaken(k)
      <3>1 ASSUME Controlling!ControlIsTaken(k)
           PROVE  \/ task' = [task EXCEPT ![k].pc = "publish", ![k].paused = FALSE]
                  \/ task' = [task EXCEPT ![k].pc = "config", ![k].paused = FALSE]
        BY <3>1 DEF Controlling!ControlIsTaken
      <3> QED
        BY <1>a, <3>1 DEF TaskState
    <2>4 ~ Controlling!ConfigIsRead(k)
      BY <1>a, <1>b DEF Controlling!ConfigIsRead, Controlling!Goes, TaskState
    <2>5 ~ Controlling!ConfigIsTaken(k)
      BY <1>a, <1>b DEF Controlling!ConfigIsTaken, Controlling!Goes, TaskState
    <2>6 ~ Controlling!TaskFails(k)
      BY <1>a, <1>b DEF Controlling!TaskFails, Controlling!Goes, TaskState
    <2>7 ~ Controlling!Publishes(k)
      <3>1 ASSUME Controlling!Publishes(k) PROVE task' = [task EXCEPT ![k].pc = "expire"]
        BY <3>1 DEF Controlling!Publishes, Controlling!Goes
      <3> QED
        BY <1>a, <3>1 DEF TaskState
    <2> QED
      BY <1>2, <2>1, <2>2, <2>3, <2>4, <2>5, <2>6, <2>7 DEF Controlling!TaskStep
  <1>3 ASSUME Controlling!LifecycleEnds PROVE FALSE
    BY <1>3, <1>a DEF Controlling!LifecycleEnds, Controlling!At
  <1>4 ASSUME Controlling!Exits \/ Controlling!Crashes PROVE FALSE
    BY <1>4, <1>a, <1>b DEF Controlling!Exits, Controlling!Crashes, Controlling!Ends
  <1> QED
    BY <1>1, <1>2, <1>3, <1>4 DEF Controlling!Next, Controlling!SavesProfile, Controlling!Pauses, Controlling!Resumes,
       Controlling!FiveSecondsPass, Controlling!StatusLapses, Controlling!Stops, Controlling!SaysStopped,
       Controlling!Restarts, Controlling!engineVars

\* The engine takes what a task has read, or the stored profile when it starts.
LEMMA ConfigFollows ==
  ASSUME ControlInv, Controlling!Next
  PROVE  Controlling!ConfigAdvances
  <1> SUFFICES ASSUME ~ slow PROVE engine'.config.version >= engine.config.version
    BY DEF Controlling!ConfigAdvances
  <1>a /\ engine \in EngineState /\ engine.config.version \in Nat
       /\ engine.config.version <= controlProfile.version /\ controlProfile.version \in Nat
       /\ \A k \in Controlling!Task : task[k].pc = "configured" => task[k].config.version >= engine.config.version
    BY DEF ControlInv, ControlTyped, ProfileIsFollowed, Controlling!Reading, EngineState, Controlling!Profile
  <1>1 ASSUME NEW k \in Controlling!Task, Controlling!ConfigIsTaken(k) PROVE engine'.config = task[k].config /\ task[k].pc = "configured"
    BY <1>1, <1>a DEF Controlling!ConfigIsTaken, EngineState, Controlling!At
  <1>2 ASSUME Controlling!Restarts PROVE engine'.config = controlProfile
    BY <1>2 DEF Controlling!Restarts, Controlling!Started
  <1>3 ASSUME NEW k \in Controlling!Task, Controlling!TaskStep(k), ~ Controlling!ConfigIsTaken(k) PROVE engine'.config = engine.config
    BY <1>3, <1>a DEF Controlling!TaskStep, Controlling!Begins, Controlling!ControlIsRead, Controlling!ControlIsTaken,
       Controlling!ConfigIsRead, Controlling!SetsExpiry, Controlling!TaskFails, Controlling!Publishes, EngineState
  <1>4 ASSUME \/ Controlling!FiveSecondsPass \/ Controlling!Stops \/ Controlling!SaysStopped \/ Controlling!Exits
              \/ Controlling!Crashes
       PROVE  engine'.config = engine.config
    BY <1>4, <1>a DEF Controlling!FiveSecondsPass, Controlling!Stops, Controlling!SaysStopped, Controlling!Exits,
       Controlling!Crashes, Controlling!Ends, EngineState
  <1>5 ASSUME \/ Controlling!SavesProfile \/ Controlling!Pauses \/ Controlling!Resumes \/ Controlling!LifecycleEnds
              \/ Controlling!StatusLapses
       PROVE  engine' = engine
    BY <1>5 DEF Controlling!SavesProfile, Controlling!Pauses, Controlling!Resumes, Controlling!LifecycleEnds,
       Controlling!StatusLapses, Controlling!engineVars
  <1> QED
    BY <1>a, <1>1, <1>2, <1>3, <1>4, <1>5 DEF Controlling!Next

\* For any number of versions and failures, a tick that begins after the operator has paused
\* the runner begins no lifecycle unless a heartbeat has set the flag back, the engine goes
\* back to no older profile unless a read of it has taken five seconds, and what the console
\* is told of an engine that has stopped is that it does not run (refreshControlState,
\* refreshConfigIfNeeded and publishStatus of runner-engine.ts).
THEOREM ControlAlwaysFollows == MCSpec => ControlFollows
  <1> DEFINE A == focus = "control" =>
               Controlling!PauseIsHeeded /\ Controlling!ConfigAdvances /\ Controlling!StoppedIsShown
             B == focus = "control" /\ engine.stage = "exited" => ~ Controlling!Told.running
  <1>1 ControlHolds => B
    BY DEF ControlHolds, ControlInv, ControlTyped, EndIsSaid, Controlling!Told
  <1>2 ASSUME ControlHolds, B', [MCNext]_<<focus, operatorVars, notificationVars, controlVars, clientVars>>
       PROVE  A \/ UNCHANGED controlVars
    <2>1 CASE Controls
      <3>1 ControlInv /\ Controlling!Next /\ focus' = "control"
        BY <1>2, <2>1 DEF ControlHolds, Controls
      <3>2 Controlling!PauseIsHeeded /\ Controlling!ConfigAdvances
        BY <3>1, PauseHeeded, ConfigFollows
      <3>3 Controlling!StoppedIsShown
        BY <1>2, <3>1 DEF Controlling!StoppedIsShown
      <3> QED
        BY <3>2, <3>3
    <2>2 CASE MCNext /\ ~ Controls
      BY <2>2 DEF MCNext, Alerts, Sets, Notifies, Views, SharesSession
    <2>3 CASE UNCHANGED <<focus, operatorVars, notificationVars, controlVars, clientVars>>
      BY <2>3
    <2> QED
      BY <1>2, <2>1, <2>2, <2>3
  <1> QED
    BY <1>1, <1>2, ControlInvariant, PTL DEF MCSpec, ControlFollows

-----------------------------------------------------------------------------
\* Session

CallState ==
  [pc : {"idle", "sent", "found", "answered"},
   kind : {"none", "request", "login", "refresh", "logout"},
   carried : SharingSession!Token \cup {0}, got : SharingSession!Token \cup {0},
   answer : {"none", "ok", "invalid", "401", "lost"}, again : BOOLEAN]

SessionTyped ==
  /\ holder \in {"browser", "worker"} /\ stage \in {"new", "open", "closing", "closed"}
  /\ sessionHeld \in SharingSession!Token \cup {0}
  /\ token \in [SharingSession!Token -> {"unused", "active", "revoked"}]
  /\ lapsed \subseteq SharingSession!Token /\ doubled \in BOOLEAN /\ sessionFaults \in 0..MaxFaults
  /\ call \in [Caller -> CallState]

\* The call has brought a new token that nobody has taken yet.
Brings(c) ==
  call[c].pc = "answered" /\ call[c].kind \in {"login", "refresh"} /\ call[c].answer = "ok"
\* The call has revoked the token that it carried.
Ends(c) ==
  call[c].pc = "answered" /\ call[c].kind \in {"refresh", "logout"} /\ call[c].answer = "ok"

CallsWellFormed ==
  \A c \in Caller :
    /\ call[c].pc = "idle" => call[c].kind = "none" /\ call[c].carried = 0 /\ call[c].got = 0
    /\ call[c].kind = "none" => call[c].pc = "idle"
    /\ call[c].pc = "found" => call[c].kind \in {"refresh", "logout"}
    /\ call[c].kind \in {"refresh", "logout"} => call[c].carried # 0
    /\ call[c].pc \in {"sent", "found"} => call[c].got = 0 /\ call[c].answer = "none"
    /\ Brings(c) => call[c].got # 0
    /\ call[c].kind = "login" /\ call[c].pc = "answered" => call[c].answer \in {"ok", "lost"}
    /\ sessionFaults = 0 => call[c].answer # "lost"

\* A session of the worker is opened and closed by one call, with no other under way.
WorkerStages ==
  LET Only(kinds) == \A c \in Caller : call[c].pc # "idle" => call[c].kind \in kinds
      Single == \A c, d \in Caller : call[c].pc # "idle" /\ call[d].pc # "idle" => c = d
  IN IF holder = "browser" THEN stage = "open"
     ELSE /\ stage = "new" => sessionHeld = 0 /\ Only({"login"}) /\ Single
          /\ stage = "open" => sessionHeld # 0 /\ Only({"request", "refresh"})
          /\ stage = "closing" => sessionHeld # 0 /\ Only({"logout"}) /\ Single
               /\ \A c \in Caller : call[c].pc # "idle" => call[c].carried = sessionHeld
          /\ stage = "closed" => Only({})

\* A token is in use from its creation on, and one that a call has brought is nowhere else
\* and active.
TokensInOrder ==
  /\ sessionHeld # 0 => token[sessionHeld] # "unused"
  /\ \A c \in Caller :
       /\ call[c].carried # 0 => token[call[c].carried] # "unused"
       /\ call[c].got # 0 => token[call[c].got] # "unused"
       /\ Brings(c) =>
            /\ token[call[c].got] = "active" /\ sessionHeld # call[c].got
            /\ \A d \in Caller : call[d].carried # call[c].got
            /\ \A d \in Caller \ {c} : Brings(d) => call[d].got # call[c].got

\* What has revoked the token at hand is on its way to its holder.
RevokerIsUnderWay ==
  sessionFaults = 0 /\ sessionHeld # 0 =>
    \/ token[sessionHeld] = "active"
    \/ \E c \in Caller : Ends(c) /\ call[c].carried = sessionHeld

\* In a surge whose refreshes have not met, the token at hand or the one on its way is the
\* only one that is active, and never both; a sign-out leaves none.
OneActive ==
  holder = "worker" /\ sessionFaults = 0 /\ ~ doubled =>
    /\ \A t \in SharingSession!Token :
         token[t] = "active" => t = sessionHeld \/ \E c \in Caller : Brings(c) /\ call[c].got = t
    /\ \A c \in Caller : Brings(c) /\ sessionHeld # 0 => token[sessionHeld] # "active"
    /\ \A c, d \in Caller : Brings(c) /\ Brings(d) => c = d
    /\ stage = "closed" \/ (stage = "closing" /\ \E c \in Caller : call[c].pc = "answered") =>
         \A t \in SharingSession!Token : token[t] # "active"

SessionInv ==
  /\ SessionTyped /\ CallsWellFormed /\ WorkerStages /\ TokensInOrder /\ RevokerIsUnderWay /\ OneActive


\* What a step makes of the call of one caller, field by field.
CallIs(c, pc, kind, carried, got, answer) ==
  /\ call'[c].pc = pc /\ call'[c].kind = kind /\ call'[c].carried = carried
  /\ call'[c].got = got /\ call'[c].answer = answer
  /\ \A d \in Caller \ {c} : call'[d] = call[d]
  /\ call' \in [Caller -> CallState]

ServerStays == UNCHANGED <<holder, token, doubled>> /\ lapsed' = lapsed
SessionStays == UNCHANGED <<stage, sessionHeld, sessionFaults>>

\* A token that is created replaces another one at most.
TokenMade(t, replaced) ==
  /\ token[t] = "unused" /\ token'[t] = "active"
  /\ \A u \in SharingSession!Token \ {t} : token'[u] = IF u = replaced THEN "revoked" ELSE token[u]
  /\ token' \in [SharingSession!Token -> {"unused", "active", "revoked"}]

\* The call that a caller has from here on.
LEMMA CallBecomes ==
  ASSUME SessionTyped, NEW c \in Caller, NEW new \in CallState, call' = [call EXCEPT ![c] = new]
  PROVE  CallIs(c, new.pc, new.kind, new.carried, new.got, new.answer)
  <1>1 call \in [Caller -> CallState]
    BY DEF SessionTyped
  <1>2 call'[c] = new /\ call' \in [Caller -> CallState]
    BY <1>1
  <1>3 \A d \in Caller \ {c} : call'[d] = call[d]
    BY <1>1
  <1> QED
    BY <1>2, <1>3 DEF CallIs

\* A caller begins a call.
LEMMA NewCall ==
  ASSUME SessionTyped, NEW c \in Caller, NEW kind \in {"request", "login", "refresh", "logout"},
         NEW carried \in SharingSession!Token \cup {0}, NEW again \in BOOLEAN,
         call' = [call EXCEPT ![c] = SharingSession!Call(kind, carried, again)]
  PROVE  CallIs(c, "sent", kind, carried, 0, "none")
  <1> DEFINE new == SharingSession!Call(kind, carried, again)
  <1>1 /\ new \in CallState /\ new.pc = "sent" /\ new.kind = kind /\ new.carried = carried
       /\ new.got = 0 /\ new.answer = "none"
    BY DEF SharingSession!Call, SharingSession!NoCall, CallState
  <1>2 call' = [call EXCEPT ![c] = new]
    OBVIOUS
  <1> HIDE DEF new
  <1> QED
    BY <1>1, <1>2, CallBecomes

\* A caller is done with its call.
LEMMA NoMoreCall ==
  ASSUME SessionTyped, NEW c \in Caller, call' = [call EXCEPT ![c] = SharingSession!NoCall]
  PROVE  CallIs(c, "idle", "none", 0, 0, "none")
  <1>1 /\ SharingSession!NoCall \in CallState /\ SharingSession!NoCall.pc = "idle"
       /\ SharingSession!NoCall.kind = "none" /\ SharingSession!NoCall.carried = 0
       /\ SharingSession!NoCall.got = 0 /\ SharingSession!NoCall.answer = "none"
    BY DEF SharingSession!NoCall, CallState
  <1> QED
    BY <1>1, CallBecomes

\* An answer goes to the call that it is for.
LEMMA CallAnswered ==
  ASSUME SessionTyped, NEW c \in Caller, NEW answer \in {"ok", "401", "lost"},
         call' = [call EXCEPT ![c].pc = "answered", ![c].answer = answer]
  PROVE  CallIs(c, "answered", call[c].kind, call[c].carried, call[c].got, answer)
  <1> DEFINE new == [call[c] EXCEPT !.pc = "answered", !.answer = answer]
  <1>1 call[c] \in CallState
    BY DEF SessionTyped
  <1>2 /\ new \in CallState /\ new.pc = "answered" /\ new.kind = call[c].kind
       /\ new.carried = call[c].carried /\ new.got = call[c].got /\ new.answer = answer
    BY <1>1 DEF CallState
  <1>3 call' = [call EXCEPT ![c] = new]
    BY <1>1 DEF SessionTyped, CallState
  <1> HIDE DEF new
  <1> QED
    BY <1>2, <1>3, CallBecomes

\* An answer brings a token.
LEMMA CallBrings ==
  ASSUME SessionTyped, NEW c \in Caller, NEW t \in SharingSession!Token,
         call' = [call EXCEPT ![c].pc = "answered", ![c].answer = "ok", ![c].got = t]
  PROVE  CallIs(c, "answered", call[c].kind, call[c].carried, t, "ok")
  <1> DEFINE new == [call[c] EXCEPT !.pc = "answered", !.answer = "ok", !.got = t]
  <1>1 call[c] \in CallState
    BY DEF SessionTyped
  <1>2 /\ new \in CallState /\ new.pc = "answered" /\ new.kind = call[c].kind
       /\ new.carried = call[c].carried /\ new.got = t /\ new.answer = "ok"
    BY <1>1 DEF CallState
  <1>3 call' = [call EXCEPT ![c] = new]
    BY <1>1 DEF SessionTyped, CallState
  <1> HIDE DEF new
  <1> QED
    BY <1>2, <1>3, CallBecomes

\* The user service creates a session: one unused token becomes active, the replaced one does
\* not stay so, and the answer brings the new one.
LEMMA CreatedIs ==
  ASSUME SessionTyped, NEW c \in Caller, NEW replaced, SharingSession!Created(replaced, c)
  PROVE  \E t \in SharingSession!Token :
           TokenMade(t, replaced) /\ CallIs(c, "answered", call[c].kind, call[c].carried, t, "ok")
  <1>1 PICK t \in SharingSession!Token :
         /\ token[t] = "unused"
         /\ token' = [u \in SharingSession!Token |-> IF u = t THEN "active"
                                 ELSE IF u = replaced THEN "revoked" ELSE token[u]]
         /\ call' = [call EXCEPT ![c].pc = "answered", ![c].answer = "ok", ![c].got = t]
    BY DEF SharingSession!Created
  <1>2 TokenMade(t, replaced)
    BY <1>1 DEF TokenMade, SessionTyped
  <1>3 CallIs(c, "answered", call[c].kind, call[c].carried, t, "ok")
    BY <1>1, CallBrings
  <1> QED
    BY <1>2, <1>3

\* A login creates a session and replaces none.
LEMMA LoginServed ==
  ASSUME SessionTyped, NEW c \in Caller, SharingSession!ServesLogin(c)
  PROVE  /\ call[c].pc = "sent" /\ call[c].kind = "login" /\ SessionStays /\ UNCHANGED <<holder, lapsed, doubled>>
         /\ \E t \in SharingSession!Token :
              TokenMade(t, 0) /\ CallIs(c, "answered", "login", call[c].carried, t, "ok")
  BY CreatedIs DEF SharingSession!ServesLogin, SessionStays, SharingSession!At

\* A refresh or a sign-out first finds its session active, or is answered that it is invalid.
LEMMA SessionFound ==
  ASSUME SessionTyped, NEW c \in Caller, SharingSession!FindsSession(c)
  PROVE  /\ call[c].pc = "sent" /\ call[c].kind \in {"refresh", "logout"} /\ SessionStays /\ ServerStays
         /\ \/ /\ token[call[c].carried] = "active"
               /\ CallIs(c, "found", call[c].kind, call[c].carried, call[c].got, call[c].answer)
            \/ /\ token[call[c].carried] # "active"
               /\ CallIs(c, "answered", call[c].kind, call[c].carried, call[c].got, "invalid")
  <1>1 \/ /\ token[call[c].carried] = "active" /\ call' = [call EXCEPT ![c].pc = "found"]
       \/ /\ token[call[c].carried] # "active"
          /\ call' = [call EXCEPT ![c].pc = "answered", ![c].answer = "invalid"]
    BY DEF SharingSession!FindsSession
  <1> QED
    BY <1>1
    DEF SharingSession!FindsSession, SharingSession!At, SharingSession!serverVars, SessionStays, ServerStays,
       CallIs, SessionTyped, CallState

\* A refresh replaces the token it has carried, whatever has become of that meanwhile.
LEMMA SessionReplaced ==
  ASSUME SessionTyped, NEW c \in Caller, SharingSession!Replaces(c)
  PROVE  /\ call[c].pc = "found" /\ call[c].kind = "refresh" /\ SessionStays /\ UNCHANGED <<holder, lapsed>>
         /\ doubled' = (doubled \/ token[call[c].carried] = "revoked")
         /\ \E t \in SharingSession!Token :
              TokenMade(t, call[c].carried) /\ CallIs(c, "answered", "refresh", call[c].carried, t, "ok")
  BY CreatedIs DEF SharingSession!Replaces, SessionStays, SharingSession!At

\* A sign-out revokes the token it has carried.
LEMMA SessionRevoked ==
  ASSUME SessionTyped, NEW c \in Caller, SharingSession!Revokes(c)
  PROVE  /\ call[c].pc = "found" /\ call[c].kind = "logout" /\ SessionStays /\ UNCHANGED <<holder, lapsed, doubled>>
         /\ token' = [token EXCEPT ![call[c].carried] = "revoked"]
         /\ CallIs(c, "answered", "logout", call[c].carried, call[c].got, "ok")
  <1>1 call' = [call EXCEPT ![c].pc = "answered", ![c].answer = "ok"] /\ call[c].kind = "logout"
    BY DEF SharingSession!Revokes
  <1>2 CallIs(c, "answered", "logout", call[c].carried, call[c].got, "ok")
    BY <1>1, CallAnswered
  <1> QED
    BY <1>2 DEF SharingSession!Revokes, SharingSession!At, SessionStays

\* A request is served or refused, and changes no session.
LEMMA RequestServed ==
  ASSUME SessionTyped, NEW c \in Caller, SharingSession!ServesRequest(c)
  PROVE  /\ call[c].pc = "sent" /\ call[c].kind = "request" /\ SessionStays /\ ServerStays
         /\ \E answer \in {"401", "ok"} :
              CallIs(c, "answered", "request", call[c].carried, call[c].got, answer)
  <1>1 PICK answer \in {"401", "ok"} :
         call[c].kind = "request" /\ call' = [call EXCEPT ![c].pc = "answered", ![c].answer = answer]
    BY DEF SharingSession!ServesRequest
  <1>2 CallIs(c, "answered", "request", call[c].carried, call[c].got, answer)
    BY <1>1, CallAnswered
  <1> QED
    BY <1>2
    DEF SharingSession!ServesRequest, SharingSession!At, SharingSession!serverVars, SessionStays, ServerStays

\* An answer or a call is lost, which counts as a fault.
LEMMA CallFailed ==
  ASSUME SessionTyped, NEW c \in Caller, SharingSession!Fails(c)
  PROVE  /\ call[c].pc \in {"sent", "answered"} /\ ServerStays /\ UNCHANGED <<stage, sessionHeld>>
         /\ sessionFaults' \in 0..MaxFaults /\ sessionFaults' # 0
         /\ CallIs(c, "answered", call[c].kind, call[c].carried, call[c].got, "lost")
  <1>1 call' = [call EXCEPT ![c].pc = "answered", ![c].answer = "lost"]
    BY DEF SharingSession!Fails
  <1>2 CallIs(c, "answered", call[c].kind, call[c].carried, call[c].got, "lost")
    BY <1>1, CallAnswered
  <1>3 sessionFaults' \in 0..MaxFaults /\ sessionFaults' # 0
    BY ConsoleAssumption DEF SharingSession!Fails, SessionTyped
  <1> QED
    BY <1>2, <1>3 DEF SharingSession!Fails, SharingSession!serverVars, ServerStays

\* A page sends a login, or any other call with the token at hand.
LEMMA PageSent ==
  ASSUME SessionTyped, NEW c \in Caller, SharingSession!PageSends(c)
  PROVE  /\ holder = "browser" /\ call[c].pc = "idle" /\ SessionStays /\ ServerStays
         /\ \/ CallIs(c, "sent", "login", 0, 0, "none")
            \/ \E kind \in {"request", "refresh", "logout"} :
                 sessionHeld # 0 /\ CallIs(c, "sent", kind, sessionHeld, 0, "none")
  <1>1 sessionHeld \in SharingSession!Token \cup {0} /\ 0 \in SharingSession!Token \cup {0}
    BY DEF SessionTyped
  <1>2 \/ CallIs(c, "sent", "login", 0, 0, "none")
       \/ \E kind \in {"request", "refresh", "logout"} :
            sessionHeld # 0 /\ CallIs(c, "sent", kind, sessionHeld, 0, "none")
    BY <1>1, NewCall DEF SharingSession!PageSends
  <1> QED
    BY <1>2
    DEF SharingSession!PageSends, SharingSession!At, SharingSession!serverVars, SessionStays, ServerStays

\* A page takes what a login or a refresh has brought; another answer leaves what is at hand
\* or clears it, and the answer to a sign-out that was heard always clears it.
LEMMA PageTook ==
  ASSUME SessionTyped, NEW c \in Caller, SharingSession!PageTakes(c)
  PROVE  /\ holder = "browser" /\ call[c].pc = "answered" /\ ServerStays /\ UNCHANGED <<stage, sessionFaults>>
         /\ CallIs(c, "idle", "none", 0, 0, "none")
         /\ Brings(c) => sessionHeld' = call[c].got
         /\ ~ Brings(c) => sessionHeld' = 0 \/ (sessionHeld' = sessionHeld /\ ~ Ends(c))
  <1>1 CallIs(c, "idle", "none", 0, 0, "none")
    BY NoMoreCall DEF SharingSession!PageTakes
  <1>2 call[c].pc = "answered"
    BY DEF SharingSession!PageTakes, SharingSession!At
  <1>3 Brings(c) <=> SharingSession!Renewed(call[c])
    BY <1>2 DEF Brings, SharingSession!Renewed
  <1>4 Ends(c) => SharingSession!Renewed(call[c]) \/ SharingSession!SignedOut(call[c])
    BY DEF Ends, SharingSession!Renewed, SharingSession!SignedOut
  <1> QED
    BY <1>1, <1>2, <1>3, <1>4 DEF SharingSession!PageTakes, SharingSession!serverVars, ServerStays

\* A surge opens its session with one login.
LEMMA SessionOpens ==
  ASSUME SessionTyped, NEW c \in Caller, SharingSession!Opens(c)
  PROVE  /\ stage = "new" /\ SessionStays /\ ServerStays /\ CallIs(c, "sent", "login", 0, 0, "none")
         /\ \A d \in Caller : call[d].pc = "idle"
  <1>1 CallIs(c, "sent", "login", 0, 0, "none")
    BY NewCall DEF SharingSession!Opens
  <1> QED
    BY <1>1
    DEF SharingSession!Opens, SharingSession!Idle, SharingSession!At, SharingSession!serverVars, SessionStays,
       ServerStays

\* What the login has brought is the session of the surge.
LEMMA SessionOpened ==
  ASSUME SessionTyped, NEW c \in Caller, SharingSession!Opened(c)
  PROVE  /\ holder = "worker" /\ call[c].pc = "answered" /\ call[c].kind = "login" /\ ServerStays
         /\ sessionFaults' = sessionFaults /\ sessionHeld' = call[c].got
         /\ stage' = IF call[c].answer = "ok" THEN "open" ELSE "closed"
         /\ CallIs(c, "idle", "none", 0, 0, "none")
  <1>1 CallIs(c, "idle", "none", 0, 0, "none")
    BY NoMoreCall DEF SharingSession!Opened
  <1> QED
    BY <1>1 DEF SharingSession!Opened, SharingSession!At, SharingSession!serverVars, ServerStays

\* A sender of the surge sends a request with the token at hand.
LEMMA SenderSent ==
  ASSUME SessionTyped, NEW c \in Caller, SharingSession!SenderSends(c)
  PROVE  /\ holder = "worker" /\ stage = "open" /\ call[c].pc = "idle" /\ SessionStays /\ ServerStays
         /\ CallIs(c, "sent", "request", sessionHeld, 0, "none")
  <1>1 CallIs(c, "sent", "request", sessionHeld, 0, "none")
    BY NewCall DEF SharingSession!SenderSends, SessionTyped
  <1> QED
    BY <1>1
    DEF SharingSession!SenderSends, SharingSession!At, SharingSession!serverVars, SessionStays, ServerStays

\* A sender takes the answer to its request and may refresh the session.
LEMMA SenderTook ==
  ASSUME SessionTyped, NEW c \in Caller, SharingSession!SenderTakes(c)
  PROVE  /\ holder = "worker" /\ call[c].pc = "answered" /\ call[c].kind = "request" /\ SessionStays /\ ServerStays
         /\ \/ CallIs(c, "idle", "none", 0, 0, "none")
            \/ CallIs(c, "sent", "refresh", sessionHeld, 0, "none")
  <1>1 \/ call' = [call EXCEPT ![c] = SharingSession!NoCall]
       \/ call' = [call EXCEPT ![c] = SharingSession!Call("refresh", sessionHeld, TRUE)]
    BY DEF SharingSession!SenderTakes
  <1>2 \/ CallIs(c, "idle", "none", 0, 0, "none")
       \/ CallIs(c, "sent", "refresh", sessionHeld, 0, "none")
    BY <1>1, NewCall, NoMoreCall DEF SessionTyped
  <1> QED
    BY <1>2
    DEF SharingSession!SenderTakes, SharingSession!At, SharingSession!serverVars, SessionStays, ServerStays

\* A sender takes the answer to its refresh and with it the new token.
LEMMA SenderRenewed ==
  ASSUME SessionTyped, NEW c \in Caller, SharingSession!SenderRefreshed(c)
  PROVE  /\ holder = "worker" /\ call[c].pc = "answered" /\ call[c].kind = "refresh" /\ ServerStays
         /\ UNCHANGED <<stage, sessionFaults>>
         /\ \/ /\ call[c].answer = "ok" /\ sessionHeld' = call[c].got
               /\ CallIs(c, "sent", "request", call[c].got, 0, "none")
            \/ /\ call[c].answer # "ok" /\ sessionHeld' = sessionHeld
               /\ CallIs(c, "idle", "none", 0, 0, "none")
  <1>1 \/ /\ call[c].answer = "ok" /\ sessionHeld' = call[c].got
          /\ call' = [call EXCEPT ![c] = SharingSession!Call("request", call[c].got, TRUE)]
       \/ /\ call[c].answer # "ok" /\ sessionHeld' = sessionHeld
          /\ call' = [call EXCEPT ![c] = SharingSession!NoCall]
    BY DEF SharingSession!SenderRefreshed
  <1>2 call[c].got \in SharingSession!Token \cup {0}
    BY DEF SessionTyped, CallState
  <1>3 \/ /\ call[c].answer = "ok" /\ sessionHeld' = call[c].got
          /\ CallIs(c, "sent", "request", call[c].got, 0, "none")
       \/ /\ call[c].answer # "ok" /\ sessionHeld' = sessionHeld
          /\ CallIs(c, "idle", "none", 0, 0, "none")
    BY <1>1, <1>2, NewCall, NoMoreCall
  <1> QED
    BY <1>3 DEF SharingSession!SenderRefreshed, SharingSession!At, SharingSession!serverVars, ServerStays

\* A surge signs out when none of its callers is at work.
LEMMA SessionCloses ==
  ASSUME SessionTyped, NEW c \in Caller, SharingSession!Closes(c)
  PROVE  /\ holder = "worker" /\ stage = "open" /\ stage' = "closing" /\ ServerStays
         /\ UNCHANGED <<sessionHeld, sessionFaults>>
         /\ \A d \in Caller : call[d].pc = "idle"
         /\ CallIs(c, "sent", "logout", sessionHeld, 0, "none")
  <1>1 CallIs(c, "sent", "logout", sessionHeld, 0, "none")
    BY NewCall DEF SharingSession!Closes, SessionTyped
  <1> QED
    BY <1>1
    DEF SharingSession!Closes, SharingSession!Idle, SharingSession!At, SharingSession!serverVars, ServerStays

\* The answer to the sign-out clears the session of the surge.
LEMMA SessionClosed ==
  ASSUME SessionTyped, NEW c \in Caller, SharingSession!Closed(c)
  PROVE  /\ holder = "worker" /\ call[c].pc = "answered" /\ call[c].kind = "logout" /\ ServerStays
         /\ sessionHeld' = 0 /\ stage' = "closed" /\ sessionFaults' = sessionFaults
         /\ CallIs(c, "idle", "none", 0, 0, "none")
  <1>1 CallIs(c, "idle", "none", 0, 0, "none")
    BY NoMoreCall DEF SharingSession!Closed
  <1> QED
    BY <1>1 DEF SharingSession!Closed, SharingSession!At, SharingSession!serverVars, ServerStays

\* An access token runs out and nothing else changes.
LEMMA AccessOver ==
  ASSUME SessionTyped, SharingSession!AccessLapses
  PROVE  /\ lapsed' \subseteq SharingSession!Token
         /\ UNCHANGED <<holder, stage, sessionHeld, token, doubled, call, sessionFaults>>
  BY DEF SharingSession!AccessLapses, SessionTyped

\* The session, its tokens and its calls stay typed.
LEMMA SessionTypedStep ==
  ASSUME SessionTyped, SharingSession!Next
  PROVE  SessionTyped'
  <1>1 ASSUME NEW c \in Caller, SharingSession!ServesLogin(c) PROVE SessionTyped'
    BY <1>1, LoginServed DEF SessionTyped, CallIs, ServerStays, SessionStays, TokenMade
  <1>2 ASSUME NEW c \in Caller, SharingSession!FindsSession(c) PROVE SessionTyped'
    BY <1>2, SessionFound DEF SessionTyped, CallIs, ServerStays, SessionStays
  <1>3 ASSUME NEW c \in Caller, SharingSession!Replaces(c) PROVE SessionTyped'
    BY <1>3, SessionReplaced DEF SessionTyped, CallIs, ServerStays, SessionStays, TokenMade
  <1>4 ASSUME NEW c \in Caller, SharingSession!Revokes(c) PROVE SessionTyped'
    BY <1>4, SessionRevoked DEF SessionTyped, CallIs, ServerStays, SessionStays
  <1>5 ASSUME NEW c \in Caller, SharingSession!ServesRequest(c) PROVE SessionTyped'
    BY <1>5, RequestServed DEF SessionTyped, CallIs, ServerStays, SessionStays
  <1>6 ASSUME NEW c \in Caller, SharingSession!Fails(c) PROVE SessionTyped'
    BY <1>6, CallFailed DEF SessionTyped, CallIs, ServerStays, SessionStays
  <1>7 ASSUME NEW c \in Caller, SharingSession!PageSends(c) PROVE SessionTyped'
    BY <1>7, PageSent DEF SessionTyped, CallIs, ServerStays, SessionStays
  <1>8 ASSUME NEW c \in Caller, SharingSession!PageTakes(c) PROVE SessionTyped'
    <2>1 call[c].got \in SharingSession!Token \cup {0}
      BY DEF SessionTyped, CallState
    <2> QED
      BY <1>8, <2>1, PageTook DEF SessionTyped, CallIs, ServerStays, SessionStays
  <1>9 ASSUME NEW c \in Caller, SharingSession!Opens(c) PROVE SessionTyped'
    BY <1>9, SessionOpens DEF SessionTyped, CallIs, ServerStays, SessionStays
  <1>10 ASSUME NEW c \in Caller, SharingSession!Opened(c) PROVE SessionTyped'
    <2>1 call[c].got \in SharingSession!Token \cup {0}
      BY DEF SessionTyped, CallState
    <2> QED
      BY <1>10, <2>1, SessionOpened DEF SessionTyped, CallIs, ServerStays, SessionStays
  <1>11 ASSUME NEW c \in Caller, SharingSession!SenderSends(c) PROVE SessionTyped'
    BY <1>11, SenderSent DEF SessionTyped, CallIs, ServerStays, SessionStays
  <1>12 ASSUME NEW c \in Caller, SharingSession!SenderTakes(c) PROVE SessionTyped'
    BY <1>12, SenderTook DEF SessionTyped, CallIs, ServerStays, SessionStays
  <1>13 ASSUME NEW c \in Caller, SharingSession!SenderRefreshed(c) PROVE SessionTyped'
    <2>1 call[c].got \in SharingSession!Token \cup {0}
      BY DEF SessionTyped, CallState
    <2> QED
      BY <1>13, <2>1, SenderRenewed DEF SessionTyped, CallIs, ServerStays, SessionStays
  <1>14 ASSUME NEW c \in Caller, SharingSession!Closes(c) PROVE SessionTyped'
    BY <1>14, SessionCloses DEF SessionTyped, CallIs, ServerStays, SessionStays
  <1>15 ASSUME NEW c \in Caller, SharingSession!Closed(c) PROVE SessionTyped'
    BY <1>15, SessionClosed DEF SessionTyped, CallIs, ServerStays, SessionStays
  <1>16 ASSUME SharingSession!AccessLapses PROVE SessionTyped'
    BY <1>16, AccessOver DEF SessionTyped, CallIs, ServerStays, SessionStays
  <1> QED
    BY <1>1, <1>2, <1>3, <1>4, <1>5, <1>6, <1>7, <1>8, <1>9, <1>10, <1>11, <1>12, <1>13, <1>14, <1>15, <1>16
    DEF SharingSession!Next, SharingSession!CallerStep

\* Calls stay well formed.
LEMMA CallsStep ==
  ASSUME SessionTyped, CallsWellFormed, WorkerStages, SharingSession!Next
  PROVE  CallsWellFormed'
  <1>1 ASSUME NEW c \in Caller, SharingSession!ServesLogin(c) PROVE CallsWellFormed'
    <2>1 PICK t \in SharingSession!Token :
           TokenMade(t, 0) /\ CallIs(c, "answered", "login", call[c].carried, t, "ok")
      BY <1>1, LoginServed
    <2>2 t # 0
      BY DEF SharingSession!Token
    <2>3 call[c].kind = "login" /\ call[c].pc \in {"sent", "found"} /\ SessionStays
      BY <1>1, LoginServed
    <2> QED
      BY <2>1, <2>2, <2>3 DEF CallsWellFormed, Brings, CallIs, SessionStays
  <1>2 ASSUME NEW c \in Caller, SharingSession!FindsSession(c) PROVE CallsWellFormed'
    BY <1>2, SessionFound DEF CallsWellFormed, Brings, CallIs, SessionStays
  <1>3 ASSUME NEW c \in Caller, SharingSession!Replaces(c) PROVE CallsWellFormed'
    <2>1 PICK t \in SharingSession!Token :
           TokenMade(t, call[c].carried) /\ CallIs(c, "answered", "refresh", call[c].carried, t, "ok")
      BY <1>3, SessionReplaced
    <2>2 t # 0
      BY DEF SharingSession!Token
    <2>3 call[c].kind = "refresh" /\ call[c].pc \in {"sent", "found"} /\ SessionStays
      BY <1>3, SessionReplaced
    <2> QED
      BY <2>1, <2>2, <2>3 DEF CallsWellFormed, Brings, CallIs, SessionStays
  <1>4 ASSUME NEW c \in Caller, SharingSession!Revokes(c) PROVE CallsWellFormed'
    BY <1>4, SessionRevoked DEF CallsWellFormed, Brings, CallIs, SessionStays
  <1>5 ASSUME NEW c \in Caller, SharingSession!ServesRequest(c) PROVE CallsWellFormed'
    BY <1>5, RequestServed DEF CallsWellFormed, Brings, CallIs, SessionStays
  <1>6 ASSUME NEW c \in Caller, SharingSession!Fails(c) PROVE CallsWellFormed'
    BY <1>6, CallFailed DEF CallsWellFormed, Brings, CallIs
  <1>7 ASSUME NEW c \in Caller, SharingSession!PageSends(c) PROVE CallsWellFormed'
    BY <1>7, PageSent DEF CallsWellFormed, Brings, CallIs, SessionStays
  <1>8 ASSUME NEW c \in Caller, SharingSession!PageTakes(c) PROVE CallsWellFormed'
    BY <1>8, PageTook DEF CallsWellFormed, Brings, CallIs
  <1>9 ASSUME NEW c \in Caller, SharingSession!Opens(c) PROVE CallsWellFormed'
    BY <1>9, SessionOpens DEF CallsWellFormed, Brings, CallIs, SessionStays
  <1>10 ASSUME NEW c \in Caller, SharingSession!Opened(c) PROVE CallsWellFormed'
    BY <1>10, SessionOpened DEF CallsWellFormed, Brings, CallIs
  <1>11 ASSUME NEW c \in Caller, SharingSession!SenderSends(c) PROVE CallsWellFormed'
    BY <1>11, SenderSent DEF CallsWellFormed, Brings, CallIs, SessionStays
  <1>12 ASSUME NEW c \in Caller, SharingSession!SenderTakes(c) PROVE CallsWellFormed'
    <2>1 sessionHeld # 0
      BY <1>12, SenderTook DEF WorkerStages, SessionTyped
    <2> QED
      BY <1>12, <2>1, SenderTook DEF CallsWellFormed, Brings, CallIs, SessionStays
  <1>13 ASSUME NEW c \in Caller, SharingSession!SenderRefreshed(c) PROVE CallsWellFormed'
    BY <1>13, SenderRenewed DEF CallsWellFormed, Brings, CallIs
  <1>14 ASSUME NEW c \in Caller, SharingSession!Closes(c) PROVE CallsWellFormed'
    <2>1 sessionHeld # 0
      BY <1>14, SessionCloses DEF WorkerStages, SessionTyped
    <2> QED
      BY <1>14, <2>1, SessionCloses DEF CallsWellFormed, Brings, CallIs
  <1>15 ASSUME NEW c \in Caller, SharingSession!Closed(c) PROVE CallsWellFormed'
    BY <1>15, SessionClosed DEF CallsWellFormed, Brings, CallIs
  <1>16 ASSUME SharingSession!AccessLapses PROVE CallsWellFormed'
    BY <1>16, AccessOver DEF CallsWellFormed, Brings
  <1> QED
    BY <1>1, <1>2, <1>3, <1>4, <1>5, <1>6, <1>7, <1>8, <1>9, <1>10, <1>11, <1>12, <1>13, <1>14, <1>15, <1>16
    DEF SharingSession!Next, SharingSession!CallerStep

\* The stages of a surge follow each other, each with its own kind of calls.
LEMMA StagesStep ==
  ASSUME SessionTyped, CallsWellFormed, WorkerStages, SharingSession!Next
  PROVE  WorkerStages'
  <1>1 ASSUME NEW c \in Caller, SharingSession!ServesLogin(c) PROVE WorkerStages'
    BY <1>1, LoginServed DEF WorkerStages, CallIs, SessionStays
  <1>2 ASSUME NEW c \in Caller, SharingSession!FindsSession(c) PROVE WorkerStages'
    BY <1>2, SessionFound DEF WorkerStages, CallIs, ServerStays, SessionStays
  <1>3 ASSUME NEW c \in Caller, SharingSession!Replaces(c) PROVE WorkerStages'
    BY <1>3, SessionReplaced DEF WorkerStages, CallIs, SessionStays
  <1>4 ASSUME NEW c \in Caller, SharingSession!Revokes(c) PROVE WorkerStages'
    BY <1>4, SessionRevoked DEF WorkerStages, CallIs, SessionStays
  <1>5 ASSUME NEW c \in Caller, SharingSession!ServesRequest(c) PROVE WorkerStages'
    BY <1>5, RequestServed DEF WorkerStages, CallIs, ServerStays, SessionStays
  <1>6 ASSUME NEW c \in Caller, SharingSession!Fails(c) PROVE WorkerStages'
    BY <1>6, CallFailed DEF WorkerStages, CallIs, ServerStays
  <1>7 ASSUME NEW c \in Caller, SharingSession!PageSends(c) PROVE WorkerStages'
    BY <1>7, PageSent DEF WorkerStages, ServerStays, SessionStays
  <1>8 ASSUME NEW c \in Caller, SharingSession!PageTakes(c) PROVE WorkerStages'
    BY <1>8, PageTook DEF WorkerStages, ServerStays
  <1>9 ASSUME NEW c \in Caller, SharingSession!Opens(c) PROVE WorkerStages'
    BY <1>9, SessionOpens DEF WorkerStages, CallIs, ServerStays, SessionStays
  <1>10 ASSUME NEW c \in Caller, SharingSession!Opened(c) PROVE WorkerStages'
    BY <1>10, SessionOpened DEF SessionTyped, CallsWellFormed, WorkerStages, Brings, CallIs, ServerStays
  <1>11 ASSUME NEW c \in Caller, SharingSession!SenderSends(c) PROVE WorkerStages'
    BY <1>11, SenderSent DEF WorkerStages, CallIs, SessionStays
  <1>12 ASSUME NEW c \in Caller, SharingSession!SenderTakes(c) PROVE WorkerStages'
    BY <1>12, SenderTook DEF WorkerStages, CallIs, ServerStays, SessionStays
  <1>13 ASSUME NEW c \in Caller, SharingSession!SenderRefreshed(c) PROVE WorkerStages'
    BY <1>13, SenderRenewed DEF CallsWellFormed, WorkerStages, Brings, CallIs, ServerStays
  <1>14 ASSUME NEW c \in Caller, SharingSession!Closes(c) PROVE WorkerStages'
    BY <1>14, SessionCloses DEF WorkerStages, CallIs, ServerStays
  <1>15 ASSUME NEW c \in Caller, SharingSession!Closed(c) PROVE WorkerStages'
    BY <1>15, SessionClosed DEF SessionTyped, WorkerStages, CallIs, ServerStays
  <1>16 ASSUME SharingSession!AccessLapses PROVE WorkerStages'
    BY <1>16, AccessOver DEF WorkerStages
  <1> QED
    BY <1>1, <1>2, <1>3, <1>4, <1>5, <1>6, <1>7, <1>8, <1>9, <1>10, <1>11, <1>12, <1>13, <1>14, <1>15, <1>16
    DEF SharingSession!Next, SharingSession!CallerStep

\* What holds of the tokens after one has been made for the call of c.
LEMMA TokensAfterMade ==
  ASSUME SessionTyped, CallsWellFormed, TokensInOrder, NEW c \in Caller, NEW t \in SharingSession!Token,
         NEW replaced \in {0, call[c].carried}, TokenMade(t, replaced), ~ Brings(c),
         CallIs(c, "answered", call[c].kind, call[c].carried, t, "ok"), sessionHeld' = sessionHeld
  PROVE  TokensInOrder'
  <1>a \A x \in SharingSession!Token : token[x] # "unused" => x # t /\ token'[x] # "unused"
    BY DEF TokenMade
  <1>b /\ sessionHeld \in SharingSession!Token \cup {0}
       /\ \A d \in Caller : /\ call[d].carried \in SharingSession!Token \cup {0}
                            /\ call[d].got \in SharingSession!Token \cup {0}
    BY DEF SessionTyped, CallState
  <1>c sessionHeld # t /\ \A d \in Caller : call[d].carried # t /\ call[d].got # t
    BY <1>a, <1>b DEF TokensInOrder, TokenMade, SharingSession!Token
  <1>d \A d \in Caller \ {c} : (Brings(d)' <=> Brings(d)) /\ call'[d] = call[d]
    BY DEF CallIs, Brings
  <1>e call'[c].got = t /\ call'[c].carried = call[c].carried /\ token'[t] = "active" /\ token'[t] # "unused"
    BY DEF CallIs, TokenMade
  <1>1 sessionHeld' # 0 => token'[sessionHeld'] # "unused"
    BY <1>a, <1>b DEF TokensInOrder
  <1>2 ASSUME NEW d \in Caller PROVE call'[d].carried = call[d].carried /\ (call'[d].carried # 0 => token'[call'[d].carried] # "unused")
    <2>1 call'[d].carried = call[d].carried
      BY <1>d, <1>e
    <2> QED
      BY <1>a, <1>b, <2>1 DEF TokensInOrder
  <1>3 ASSUME NEW d \in Caller, call'[d].got # 0 PROVE token'[call'[d].got] # "unused"
    BY <1>3, <1>a, <1>b, <1>d, <1>e DEF TokensInOrder
  <1>4 ASSUME NEW d \in Caller \ {c}, Brings(d)
       PROVE  /\ token'[call[d].got] = "active" /\ sessionHeld # call[d].got
              /\ \A e \in Caller : call[e].carried # call[d].got
              /\ \A e \in Caller \ {d} : Brings(e) => call[e].got # call[d].got
    <2>1 /\ token[call[d].got] = "active" /\ sessionHeld # call[d].got
         /\ \A e \in Caller : call[e].carried # call[d].got
         /\ \A e \in Caller \ {d} : Brings(e) => call[e].got # call[d].got
      BY <1>4 DEF TokensInOrder
    <2>2 call[d].got # 0 /\ call[d].got \in SharingSession!Token /\ call[d].got # t /\ call[d].got # replaced
      BY <1>4, <1>b, <1>c, <2>1 DEF CallsWellFormed
    <2> QED
      BY <2>1, <2>2 DEF TokenMade
  <1>5 ASSUME NEW d \in Caller, Brings(d)'
       PROVE  /\ token'[call'[d].got] = "active" /\ sessionHeld' # call'[d].got
              /\ \A e \in Caller : call'[e].carried # call'[d].got
              /\ \A e \in Caller \ {d} : Brings(e)' => call'[e].got # call'[d].got
    <2>1 CASE d = c
      <3>1 \A e \in Caller : call'[e].carried # t
        BY <1>c, <1>2
      <3>2 \A e \in Caller \ {c} : call'[e].got # t
        BY <1>c, <1>d
      <3> QED
        BY <1>c, <1>e, <2>1, <3>1, <3>2
    <2>2 CASE d # c
      <3>1 Brings(d) /\ call'[d] = call[d]
        BY <1>5, <1>d, <2>2
      <3>2 \A e \in Caller : call'[e].carried # call[d].got
        BY <1>2, <1>4, <2>2, <3>1
      <3>3 \A e \in Caller \ {d} : Brings(e)' => call'[e].got # call[d].got
        BY <1>c, <1>d, <1>e, <1>4, <2>2, <3>1
      <3> QED
        BY <1>4, <2>2, <3>1, <3>2, <3>3
    <2> QED
      BY <2>1, <2>2
  <1> QED
    BY <1>1, <1>2, <1>3, <1>5 DEF TokensInOrder

\* A token is brought by one call and is active until it is taken.
LEMMA TokensStep ==
  ASSUME SessionTyped, CallsWellFormed, WorkerStages, TokensInOrder, SharingSession!Next
  PROVE  TokensInOrder'
  <1>1 ASSUME NEW c \in Caller, SharingSession!ServesLogin(c) PROVE TokensInOrder'
    <2>1 PICK t \in SharingSession!Token :
           TokenMade(t, 0) /\ CallIs(c, "answered", call[c].kind, call[c].carried, t, "ok")
      BY <1>1, LoginServed
    <2>2 ~ Brings(c) /\ sessionHeld' = sessionHeld
      BY <1>1, LoginServed DEF Brings, SessionStays
    <2> QED
      BY <2>1, <2>2, TokensAfterMade
  <1>2 ASSUME NEW c \in Caller, SharingSession!FindsSession(c) PROVE TokensInOrder'
    BY <1>2, SessionFound DEF TokensInOrder, Brings, CallIs, ServerStays, SessionStays
  <1>3 ASSUME NEW c \in Caller, SharingSession!Replaces(c) PROVE TokensInOrder'
    <2>1 PICK t \in SharingSession!Token :
           TokenMade(t, call[c].carried) /\ CallIs(c, "answered", call[c].kind, call[c].carried, t, "ok")
      BY <1>3, SessionReplaced
    <2>2 ~ Brings(c) /\ sessionHeld' = sessionHeld
      BY <1>3, SessionReplaced DEF Brings, SessionStays
    <2> QED
      BY <2>1, <2>2, TokensAfterMade
  <1>4 ASSUME NEW c \in Caller, SharingSession!Revokes(c) PROVE TokensInOrder'
    <2>1 /\ token' = [token EXCEPT ![call[c].carried] = "revoked"] /\ sessionHeld' = sessionHeld
         /\ CallIs(c, "answered", "logout", call[c].carried, call[c].got, "ok")
      BY <1>4, SessionRevoked DEF SessionStays
    <2>2 \A x \in SharingSession!Token : /\ token[x] # "unused" => token'[x] # "unused"
                                         /\ x # call[c].carried => token'[x] = token[x]
      BY <2>1 DEF SessionTyped
    <2>3 \A d \in Caller : call'[d].carried = call[d].carried /\ call'[d].got = call[d].got
      BY <2>1 DEF CallIs
    <2>4 \A d \in Caller : Brings(d)' => Brings(d) /\ call[d].got # call[c].carried /\ call[d].got # 0
      BY <2>1 DEF CallIs, Brings, TokensInOrder, CallsWellFormed
    <2>5 /\ sessionHeld \in SharingSession!Token \cup {0}
         /\ \A d \in Caller : /\ call[d].carried \in SharingSession!Token \cup {0}
                              /\ call[d].got \in SharingSession!Token \cup {0}
      BY DEF SessionTyped, CallState
    <2>6 \A d \in Caller : Brings(d)' => token'[call[d].got] = "active"
      BY <2>2, <2>4, <2>5 DEF TokensInOrder
    <2> QED
      BY <2>1, <2>2, <2>3, <2>4, <2>5, <2>6 DEF TokensInOrder
  <1>5 ASSUME NEW c \in Caller, SharingSession!ServesRequest(c) PROVE TokensInOrder'
    BY <1>5, RequestServed DEF TokensInOrder, Brings, CallIs, ServerStays, SessionStays
  <1>6 ASSUME NEW c \in Caller, SharingSession!Fails(c) PROVE TokensInOrder'
    BY <1>6, CallFailed DEF TokensInOrder, Brings, CallIs, ServerStays
  <1>7 ASSUME NEW c \in Caller, SharingSession!PageSends(c) PROVE TokensInOrder'
    BY <1>7, PageSent DEF CallsWellFormed, TokensInOrder, Brings, CallIs, ServerStays, SessionStays
  <1>8 ASSUME NEW c \in Caller, SharingSession!PageTakes(c) PROVE TokensInOrder'
    BY <1>8, PageTook DEF CallsWellFormed, TokensInOrder, Brings, CallIs, ServerStays
  <1>9 ASSUME NEW c \in Caller, SharingSession!Opens(c) PROVE TokensInOrder'
    BY <1>9, SessionOpens DEF TokensInOrder, Brings, CallIs, ServerStays, SessionStays
  <1>10 ASSUME NEW c \in Caller, SharingSession!Opened(c) PROVE TokensInOrder'
    <2>1 /\ sessionHeld' = call[c].got /\ token' = token /\ CallIs(c, "idle", "none", 0, 0, "none")
      BY <1>10, SessionOpened DEF ServerStays
    <2>2 \A d \in Caller \ {c} : call[d].pc = "idle"
      BY <1>10, SessionOpened DEF WorkerStages, SessionTyped
    <2>3 \A d \in Caller : ~ Brings(d)'
      BY <2>1, <2>2 DEF CallIs, Brings
    <2>4 \A d \in Caller : call'[d].carried = 0 \/ call'[d] = call[d]
      BY <2>1 DEF CallIs
    <2>5 \A d \in Caller : call'[d].got = 0 \/ call'[d] = call[d]
      BY <2>1 DEF CallIs
    <2> QED
      BY <2>1, <2>3, <2>4, <2>5 DEF TokensInOrder
  <1>11 ASSUME NEW c \in Caller, SharingSession!SenderSends(c) PROVE TokensInOrder'
    BY <1>11, SenderSent DEF TokensInOrder, Brings, CallIs, ServerStays, SessionStays
  <1>12 ASSUME NEW c \in Caller, SharingSession!SenderTakes(c) PROVE TokensInOrder'
    BY <1>12, SenderTook DEF CallsWellFormed, TokensInOrder, Brings, CallIs, ServerStays, SessionStays
  <1>13 ASSUME NEW c \in Caller, SharingSession!SenderRefreshed(c) PROVE TokensInOrder'
    BY <1>13, SenderRenewed DEF CallsWellFormed, TokensInOrder, Brings, CallIs, ServerStays
  <1>14 ASSUME NEW c \in Caller, SharingSession!Closes(c) PROVE TokensInOrder'
    BY <1>14, SessionCloses DEF TokensInOrder, Brings, CallIs, ServerStays
  <1>15 ASSUME NEW c \in Caller, SharingSession!Closed(c) PROVE TokensInOrder'
    BY <1>15, SessionClosed DEF CallsWellFormed, TokensInOrder, Brings, CallIs, ServerStays
  <1>16 ASSUME SharingSession!AccessLapses PROVE TokensInOrder'
    BY <1>16, AccessOver DEF TokensInOrder, Brings
  <1> QED
    BY <1>1, <1>2, <1>3, <1>4, <1>5, <1>6, <1>7, <1>8, <1>9, <1>10, <1>11, <1>12, <1>13, <1>14, <1>15, <1>16
    DEF SharingSession!Next, SharingSession!CallerStep

\* What revokes the token at hand comes back to its holder, unless an answer is lost.
LEMMA RevokerStep ==
  ASSUME SessionTyped, SessionTyped', CallsWellFormed, WorkerStages, TokensInOrder, RevokerIsUnderWay, SharingSession!Next
  PROVE  RevokerIsUnderWay'
  <1>1 ASSUME NEW c \in Caller, SharingSession!ServesLogin(c) PROVE RevokerIsUnderWay'
    BY <1>1, LoginServed DEF SessionTyped, RevokerIsUnderWay, Ends, CallIs, SessionStays, TokenMade
  <1>2 ASSUME NEW c \in Caller, SharingSession!FindsSession(c) PROVE RevokerIsUnderWay'
    BY <1>2, SessionFound DEF RevokerIsUnderWay, Ends, CallIs, ServerStays, SessionStays
  <1>3 ASSUME NEW c \in Caller, SharingSession!Replaces(c) PROVE RevokerIsUnderWay'
    BY <1>3, SessionReplaced DEF SessionTyped, RevokerIsUnderWay, Ends, CallIs, SessionStays, TokenMade
  <1>4 ASSUME NEW c \in Caller, SharingSession!Revokes(c) PROVE RevokerIsUnderWay'
    BY <1>4, SessionRevoked DEF SessionTyped, RevokerIsUnderWay, Ends, CallIs, SessionStays
  <1>5 ASSUME NEW c \in Caller, SharingSession!ServesRequest(c) PROVE RevokerIsUnderWay'
    BY <1>5, RequestServed DEF RevokerIsUnderWay, Ends, CallIs, ServerStays, SessionStays
  <1>6 ASSUME NEW c \in Caller, SharingSession!Fails(c) PROVE RevokerIsUnderWay'
    BY <1>6, CallFailed DEF RevokerIsUnderWay
  <1>7 ASSUME NEW c \in Caller, SharingSession!PageSends(c) PROVE RevokerIsUnderWay'
    BY <1>7, PageSent DEF RevokerIsUnderWay, Ends, CallIs, ServerStays, SessionStays
  <1>8 ASSUME NEW c \in Caller, SharingSession!PageTakes(c) PROVE RevokerIsUnderWay'
    BY <1>8, PageTook DEF TokensInOrder, RevokerIsUnderWay, Ends, CallIs, ServerStays
  <1>9 ASSUME NEW c \in Caller, SharingSession!Opens(c) PROVE RevokerIsUnderWay'
    BY <1>9, SessionOpens DEF RevokerIsUnderWay, WorkerStages, SessionStays
  <1>10 ASSUME NEW c \in Caller, SharingSession!Opened(c) PROVE RevokerIsUnderWay'
    <2>1 /\ stage = "new" /\ sessionHeld = 0 /\ \A d \in Caller \ {c} : call[d].pc = "idle"
      BY <1>10, SessionOpened DEF WorkerStages, SessionTyped
    <2>2 sessionFaults' = 0 => Brings(c)
      BY <1>10, SessionOpened DEF CallsWellFormed, Brings
    <2>3 sessionFaults' = 0 => token'[sessionHeld'] = "active"
      BY <1>10, <2>2, SessionOpened DEF TokensInOrder, ServerStays
    <2> QED
      BY <2>3 DEF RevokerIsUnderWay
  <1>11 ASSUME NEW c \in Caller, SharingSession!SenderSends(c) PROVE RevokerIsUnderWay'
    BY <1>11, SenderSent DEF RevokerIsUnderWay, Ends, CallIs, ServerStays, SessionStays
  <1>12 ASSUME NEW c \in Caller, SharingSession!SenderTakes(c) PROVE RevokerIsUnderWay'
    BY <1>12, SenderTook DEF RevokerIsUnderWay, Ends, CallIs, ServerStays, SessionStays
  <1>13 ASSUME NEW c \in Caller, SharingSession!SenderRefreshed(c) PROVE RevokerIsUnderWay'
    BY <1>13, SenderRenewed DEF TokensInOrder, RevokerIsUnderWay, Brings, Ends, CallIs, ServerStays
  <1>14 ASSUME NEW c \in Caller, SharingSession!Closes(c) PROVE RevokerIsUnderWay'
    BY <1>14, SessionCloses DEF RevokerIsUnderWay, Ends, ServerStays
  <1>15 ASSUME NEW c \in Caller, SharingSession!Closed(c) PROVE RevokerIsUnderWay'
    BY <1>15, SessionClosed DEF RevokerIsUnderWay
  <1>16 ASSUME SharingSession!AccessLapses PROVE RevokerIsUnderWay'
    BY <1>16, AccessOver DEF RevokerIsUnderWay, Ends
  <1> QED
    BY <1>1, <1>2, <1>3, <1>4, <1>5, <1>6, <1>7, <1>8, <1>9, <1>10, <1>11, <1>12, <1>13, <1>14, <1>15, <1>16
    DEF SharingSession!Next, SharingSession!CallerStep

\* A surge whose refreshes do not meet has one active token at most.
LEMMA OneActiveStep ==
  ASSUME SessionTyped, SessionTyped', CallsWellFormed, WorkerStages, TokensInOrder, OneActive, SharingSession!Next
  PROVE  OneActive'
  <1>1 ASSUME NEW c \in Caller, SharingSession!ServesLogin(c) PROVE OneActive'
    BY <1>1, LoginServed DEF SessionTyped, OneActive, Brings, WorkerStages, CallIs, SessionStays, TokenMade
  <1>2 ASSUME NEW c \in Caller, SharingSession!FindsSession(c) PROVE OneActive'
    BY <1>2, SessionFound DEF OneActive, Brings, WorkerStages, CallIs, ServerStays, SessionStays
  <1>3 ASSUME NEW c \in Caller, SharingSession!Replaces(c) PROVE OneActive'
    <2> SUFFICES ASSUME holder' = "worker", sessionFaults' = 0, ~ doubled' PROVE OneActive'
      BY DEF OneActive
    <2> DEFINE u == call[c].carried
    <2>1 PICK t \in SharingSession!Token :
           TokenMade(t, u) /\ CallIs(c, "answered", "refresh", u, t, "ok")
      BY <1>3, SessionReplaced
    <2>2 /\ holder = "worker" /\ sessionFaults = 0 /\ ~ doubled /\ token[u] # "revoked"
         /\ sessionHeld' = sessionHeld /\ stage' = stage /\ call[c].pc = "found" /\ call[c].kind = "refresh"
      BY <1>3, SessionReplaced DEF SessionStays
    <2>3 u \in SharingSession!Token /\ u # 0 /\ token[u] = "active"
      <3>1 u \in SharingSession!Token \cup {0} /\ u # 0
        BY <2>2 DEF SessionTyped, CallState, CallsWellFormed
      <3>2 token[u] # "unused"
        BY <3>1 DEF TokensInOrder
      <3> QED
        BY <2>2, <3>1, <3>2 DEF SessionTyped
    <2>4 u = sessionHeld
      BY <2>2, <2>3 DEF OneActive, TokensInOrder
    <2>5 \A d \in Caller : ~ Brings(d)
      BY <2>2, <2>3, <2>4 DEF OneActive
    <2>6 \A d \in Caller : Brings(d)' => d = c
      BY <2>1, <2>5 DEF CallIs, Brings
    <2>7 Brings(c)' /\ call'[c].got = t
      BY <2>1 DEF CallIs, Brings
    <2>8 t # u /\ token'[u] = "revoked"
      BY <2>1, <2>3 DEF TokenMade
    <2>9 \A x \in SharingSession!Token : token'[x] = "active" => x = t
      BY <2>1, <2>2, <2>4, <2>5 DEF TokenMade, OneActive
    <2>10 stage \notin {"closed", "closing"}
      BY <2>2 DEF WorkerStages
    <2> QED
      BY <2>2, <2>4, <2>6, <2>7, <2>8, <2>9, <2>10 DEF OneActive
  <1>4 ASSUME NEW c \in Caller, SharingSession!Revokes(c) PROVE OneActive'
    BY <1>4, SessionRevoked DEF SessionTyped, OneActive, Brings, WorkerStages, CallIs, SessionStays
  <1>5 ASSUME NEW c \in Caller, SharingSession!ServesRequest(c) PROVE OneActive'
    BY <1>5, RequestServed DEF OneActive, Brings, WorkerStages, CallIs, ServerStays, SessionStays
  <1>6 ASSUME NEW c \in Caller, SharingSession!Fails(c) PROVE OneActive'
    BY <1>6, CallFailed DEF OneActive
  <1>7 ASSUME NEW c \in Caller, SharingSession!PageSends(c) PROVE OneActive'
    BY <1>7, PageSent DEF OneActive, ServerStays
  <1>8 ASSUME NEW c \in Caller, SharingSession!PageTakes(c) PROVE OneActive'
    BY <1>8, PageTook DEF OneActive, ServerStays
  <1>9 ASSUME NEW c \in Caller, SharingSession!Opens(c) PROVE OneActive'
    BY <1>9, SessionOpens DEF OneActive, Brings, CallIs, ServerStays, SessionStays
  <1>10 ASSUME NEW c \in Caller, SharingSession!Opened(c) PROVE OneActive'
    <2>1 /\ stage = "new" /\ sessionHeld = 0 /\ \A d \in Caller \ {c} : call[d].pc = "idle"
      BY <1>10, SessionOpened DEF WorkerStages, SessionTyped
    <2>2 sessionFaults' = 0 => Brings(c)
      BY <1>10, SessionOpened DEF CallsWellFormed, Brings
    <2>3 \A d \in Caller : ~ Brings(d)'
      BY <1>10, <2>1, SessionOpened DEF CallIs, Brings
    <2>4 sessionFaults' = 0 => stage' = "open"
      BY <1>10, <2>2, SessionOpened DEF Brings
    <2>5 sessionFaults' = sessionFaults /\ sessionHeld' = call[c].got /\ UNCHANGED <<holder, token, doubled>>
      BY <1>10, SessionOpened DEF ServerStays
    <2>6 \A d \in Caller : Brings(d) => d = c
      BY <2>1 DEF Brings
    <2>7 0 \notin SharingSession!Token
      BY DEF SharingSession!Token
    <2> QED
      BY <2>1, <2>3, <2>4, <2>5, <2>6, <2>7 DEF OneActive
  <1>11 ASSUME NEW c \in Caller, SharingSession!SenderSends(c) PROVE OneActive'
    BY <1>11, SenderSent DEF OneActive, Brings, CallIs, ServerStays, SessionStays
  <1>12 ASSUME NEW c \in Caller, SharingSession!SenderTakes(c) PROVE OneActive'
    BY <1>12, SenderTook DEF OneActive, Brings, CallIs, ServerStays, SessionStays
  <1>13 ASSUME NEW c \in Caller, SharingSession!SenderRefreshed(c) PROVE OneActive'
    BY <1>13, SenderRenewed DEF SessionTyped, OneActive, Brings, WorkerStages, CallIs, ServerStays
  <1>14 ASSUME NEW c \in Caller, SharingSession!Closes(c) PROVE OneActive'
    BY <1>14, SessionCloses DEF OneActive, Brings, CallIs, ServerStays
  <1>15 ASSUME NEW c \in Caller, SharingSession!Closed(c) PROVE OneActive'
    BY <1>15, SessionClosed DEF SessionTyped, OneActive, Brings, WorkerStages, CallIs, ServerStays
  <1>16 ASSUME SharingSession!AccessLapses PROVE OneActive'
    BY <1>16, AccessOver DEF OneActive, Brings
  <1> QED
    BY <1>1, <1>2, <1>3, <1>4, <1>5, <1>6, <1>7, <1>8, <1>9, <1>10, <1>11, <1>12, <1>13, <1>14, <1>15, <1>16
    DEF SharingSession!Next, SharingSession!CallerStep

\* The browser begins signed in, a surge without a session.
LEMMA SessionStart ==
  ASSUME SharingSession!Init
  PROVE  SessionInv
  <1> USE ConsoleAssumption
  <1>1 1 \in SharingSession!Token /\ 0 \notin SharingSession!Token
    BY DEF SharingSession!Token
  <1>2 /\ SharingSession!NoCall \in CallState /\ SharingSession!NoCall.pc = "idle"
       /\ SharingSession!NoCall.kind = "none" /\ SharingSession!NoCall.carried = 0
       /\ SharingSession!NoCall.got = 0 /\ SharingSession!NoCall.answer = "none"
    BY DEF SharingSession!NoCall, CallState
  <1>3 /\ call \in [Caller -> CallState]
       /\ \A c \in Caller : /\ call[c].pc = "idle" /\ call[c].kind = "none" /\ call[c].carried = 0
                            /\ call[c].got = 0 /\ call[c].answer = "none"
    BY <1>2 DEF SharingSession!Init
  <1>4 /\ sessionHeld \in SharingSession!Token \cup {0}
       /\ token \in [SharingSession!Token -> {"unused", "active", "revoked"}]
       /\ sessionHeld # 0 => token[sessionHeld] = "active"
       /\ \/ holder = "browser" /\ stage = "open"
          \/ holder = "worker" /\ stage = "new" /\ sessionHeld = 0 /\ \A t \in SharingSession!Token : token[t] = "unused"
    BY <1>1 DEF SharingSession!Init
  <1>5 lapsed = {} /\ doubled = FALSE /\ sessionFaults \in 0..MaxFaults
    BY DEF SharingSession!Init
  <1>6 SessionTyped
    BY <1>3, <1>4, <1>5 DEF SessionTyped
  <1>7 \A c \in Caller : ~ Brings(c)
    BY <1>3 DEF Brings
  <1>8 CallsWellFormed /\ WorkerStages
    BY <1>3, <1>4, <1>7 DEF CallsWellFormed, WorkerStages
  <1>9 TokensInOrder /\ RevokerIsUnderWay /\ OneActive
    BY <1>3, <1>4, <1>7 DEF TokensInOrder, RevokerIsUnderWay, OneActive
  <1> QED
    BY <1>6, <1>8, <1>9 DEF SessionInv

SessionHolds == focus = "session" => SessionInv

\* The invariant holds throughout a run in which callers and user service take the steps.
LEMMA SessionInvariant == MCSpec => []SessionHolds
  <1>1 ASSUME MCInit PROVE SessionHolds
    BY <1>1, SessionStart DEF MCInit, SessionHolds
  <1>2 ASSUME SessionHolds, MCNext PROVE SessionHolds'
    <2>1 CASE SharesSession
      BY <1>2, <2>1, SessionTypedStep, CallsStep, StagesStep, TokensStep, RevokerStep, OneActiveStep
      DEF SharesSession, SessionHolds, SessionInv
    <2>2 CASE ~ SharesSession
      BY <1>2, <2>2 DEF MCNext, Alerts, Sets, Notifies, Controls, Views, SessionHolds
    <2> QED
      BY <2>1, <2>2
  <1>3 ASSUME SessionHolds, UNCHANGED <<focus, operatorVars, notificationVars, controlVars, clientVars>>
       PROVE  SessionHolds'
    <2>1 UNCHANGED <<focus, holder, stage, sessionHeld, token, lapsed, call, doubled, sessionFaults>>
      BY <1>3 DEF clientVars, sessionVars
    <2> QED
      BY <1>3, <2>1
      DEF SessionHolds, SessionInv, SessionTyped, CallsWellFormed, WorkerStages, TokensInOrder,
         RevokerIsUnderWay, OneActive, Brings, Ends
  <1> QED
    BY <1>1, <1>2, <1>3, PTL DEF MCSpec

\* For any number of callers, tokens and failures, and in whatever order calls and answers
\* overtake each other, the tokens at hand are good for a refresh or a sign-out once no call
\* is under way, and a surge that has ended leaves no session behind: unless an answer was
\* lost, or two refreshes have replaced one token (POST of [action]/route.ts, refreshSession
\* and closeSession of customer-session-manager.ts).
THEOREM SessionsAlwaysHold == MCSpec => []SessionsHold
  <1>1 ASSUME SessionInv PROVE SharingSession!HeldIsLive /\ SharingSession!ClosedIsRevoked
    <2>1 SharingSession!Idle => \A c \in Caller : ~ Ends(c)
      BY DEF SharingSession!Idle, SharingSession!At, Ends
    <2>2 SharingSession!HeldIsLive
      BY <1>1, <2>1 DEF SharingSession!HeldIsLive, SessionInv, RevokerIsUnderWay
    <2>3 stage = "closed" => holder = "worker"
      BY <1>1 DEF SessionInv, SessionTyped, WorkerStages
    <2>4 SharingSession!ClosedIsRevoked
      BY <1>1, <2>3 DEF SharingSession!ClosedIsRevoked, SessionInv, OneActive
    <2> QED
      BY <2>2, <2>4
  <1>2 SessionHolds => SessionsHold
    BY <1>1 DEF SessionHolds, SessionsHold
  <1> QED
    BY <1>2, SessionInvariant, PTL

-----------------------------------------------------------------------------
\* Views

MineLoads == {s \in Viewing!Under("load") : Viewing!Mine(s)}
RequestState ==
  [at : {"free", "sent", "answered"}, kind : {"load", "change"}, value : Nat, visit : Nat]

ViewsTyped ==
  /\ view \in Viewing!View /\ truth \in 0..MaxChanges /\ shown \in -1..truth /\ busy \in BOOLEAN
  /\ visit \in 1..MaxVisits /\ quiet \in BOOLEAN /\ viewFaults \in 0..MaxFaults
  /\ busy => view \in Viewing!Guarded
  /\ viewRequest \in [FetchSlot -> RequestState]
  /\ \A s \in FetchSlot : viewRequest[s].value <= truth /\ viewRequest[s].visit <= visit

\* The flag of a guarded view is set while there is one load of this visit under way, and
\* that load has been answered with nothing older than what the page shows.
OneGuardedLoad ==
  view \in Viewing!Guarded =>
    /\ IF busy THEN \E s \in FetchSlot : MineLoads = {s} ELSE MineLoads = {}
    /\ \A s \in MineLoads : viewRequest[s].at = "answered" => viewRequest[s].value >= shown

\* As long as nothing has disturbed it, a view that is not polled has all its answers of
\* the present state, its change alone under way, and what it shows is current unless a
\* request of this visit is still to come back.
UnpolledIsFollowed ==
  view \notin Viewing!Polled /\ quiet =>
    /\ \A s \in FetchSlot :
         /\ viewRequest[s].at = "answered" => viewRequest[s].value = truth
         /\ viewRequest[s].at # "free" /\ viewRequest[s].kind = "change" =>
              Viewing!Mine(s) /\ \A r \in FetchSlot \ {s} : viewRequest[r].at = "free"
    /\ shown = truth \/ \E s \in FetchSlot : viewRequest[s].at # "free" /\ Viewing!Mine(s)

ViewsInv == ViewsTyped /\ OneGuardedLoad /\ UnpolledIsFollowed


\* A new request takes a free slot, and nothing else.
LEMMA RequestSent ==
  ASSUME ViewsTyped, NEW kind \in {"load", "change"}, NEW of \in Nat, Viewing!Sends(kind, of)
  PROVE  \E s \in FetchSlot :
           /\ viewRequest[s].at = "free"
           /\ viewRequest'[s].at = "sent" /\ viewRequest'[s].kind = kind
           /\ viewRequest'[s].value = 0 /\ viewRequest'[s].visit = of
           /\ \A r \in FetchSlot \ {s} : viewRequest'[r] = viewRequest[r]
           /\ viewRequest' \in [FetchSlot -> RequestState]
  <1>1 PICK s \in FetchSlot : viewRequest[s].at = "free" /\ viewRequest' =
         [viewRequest EXCEPT ![s] = [Viewing!NoRequest EXCEPT !.at = "sent", !.kind = kind, !.visit = of]]
    BY DEF Viewing!Sends
  <1> DEFINE new == [Viewing!NoRequest EXCEPT !.at = "sent", !.kind = kind, !.visit = of]
  <1>2 new \in RequestState /\ new.at = "sent" /\ new.kind = kind /\ new.value = 0 /\ new.visit = of
    BY DEF Viewing!NoRequest, RequestState
  <1>3 viewRequest' = [viewRequest EXCEPT ![s] = new]
    BY <1>1
  <1> HIDE DEF new
  <1> QED
    BY <1>1, <1>2, <1>3 DEF ViewsTyped

\* A request that is over leaves its slot free.
LEMMA RequestOver ==
  ASSUME ViewsTyped, NEW s \in FetchSlot, Viewing!Over(s)
  PROVE  /\ viewRequest' = [viewRequest EXCEPT ![s] =
                              [at |-> "free", kind |-> "load", value |-> 0, visit |-> 0]]
         /\ viewRequest' \in [FetchSlot -> RequestState]
  <1>1 [at |-> "free", kind |-> "load", value |-> 0, visit |-> 0] \in RequestState
    BY DEF RequestState
  <1> QED
    BY <1>1 DEF ViewsTyped, Viewing!Over, Viewing!NoRequest

\* One step of a page, by its effect on the slots: a new request, the answer to one, one
\* that becomes a load, or one that is over.
LEMMA ViewsTypedStep ==
  ASSUME ViewsTyped, Viewing!Next
  PROVE  ViewsTyped'
  <1>c MaxChanges \in Nat /\ MaxVisits \in Nat \ {0} /\ MaxFaults \in Nat
    BY ConsoleAssumption
  <1> USE <1>c
  <1>a visit \in Nat /\ visit + 1 \in Nat /\ truth \in Nat
    BY DEF ViewsTyped
  <1>b \A r \in FetchSlot : /\ viewRequest[r].value \in Nat /\ viewRequest[r].value <= truth
                            /\ viewRequest[r].visit \in Nat /\ viewRequest[r].visit <= visit
    BY DEF ViewsTyped, RequestState
  <1>1 ASSUME Viewing!Opens PROVE ViewsTyped'
    <2>1 PICK s \in FetchSlot :
           /\ viewRequest'[s].value = 0 /\ viewRequest'[s].visit = visit + 1
           /\ \A r \in FetchSlot \ {s} : viewRequest'[r] = viewRequest[r]
           /\ viewRequest' \in [FetchSlot -> RequestState]
      BY <1>1, <1>a, RequestSent DEF Viewing!Opens
    <2> QED
      <3>1 /\ view' = view /\ truth' = truth /\ visit' = visit + 1 /\ viewFaults' = viewFaults
           /\ busy' \in BOOLEAN /\ quiet' \in BOOLEAN /\ shown' \in -1..truth /\ visit' \in 1..MaxVisits
           /\ (busy' => view' \in Viewing!Guarded)
        BY <1>1, <1>a DEF Viewing!Opens, ViewsTyped
      <3>2 \A r \in FetchSlot : viewRequest'[r].value <= truth' /\ viewRequest'[r].visit <= visit'
        BY <1>a, <1>b, <2>1, <3>1
      <3> QED
        BY <2>1, <3>1, <3>2 DEF ViewsTyped
  <1>2 ASSUME Viewing!Loads PROVE ViewsTyped'
    <2>1 PICK s \in FetchSlot :
           /\ viewRequest'[s].value = 0 /\ viewRequest'[s].visit = visit
           /\ \A r \in FetchSlot \ {s} : viewRequest'[r] = viewRequest[r]
           /\ viewRequest' \in [FetchSlot -> RequestState]
      BY <1>2, <1>a, RequestSent DEF Viewing!Loads
    <2> QED
      <3>1 /\ view' = view /\ truth' = truth /\ visit' = visit /\ viewFaults' = viewFaults
           /\ busy' \in BOOLEAN /\ quiet' \in BOOLEAN /\ shown' \in -1..truth /\ visit' \in 1..MaxVisits
           /\ (busy' => view' \in Viewing!Guarded)
        BY <1>2, <1>a DEF Viewing!Loads, ViewsTyped
      <3>2 \A r \in FetchSlot : viewRequest'[r].value <= truth' /\ viewRequest'[r].visit <= visit'
        BY <1>a, <1>b, <2>1, <3>1
      <3> QED
        BY <2>1, <3>1, <3>2 DEF ViewsTyped
  <1>3 ASSUME Viewing!Asks PROVE ViewsTyped'
    <2>1 PICK s \in FetchSlot :
           /\ viewRequest'[s].value = 0 /\ viewRequest'[s].visit = visit
           /\ \A r \in FetchSlot \ {s} : viewRequest'[r] = viewRequest[r]
           /\ viewRequest' \in [FetchSlot -> RequestState]
      BY <1>3, <1>a, RequestSent DEF Viewing!Asks
    <2> QED
      <3>1 /\ UNCHANGED <<view, truth, shown, busy, visit, viewFaults>> /\ quiet' \in BOOLEAN
        BY <1>3 DEF Viewing!Asks, ViewsTyped
      <3>2 \A r \in FetchSlot : viewRequest'[r].value <= truth' /\ viewRequest'[r].visit <= visit'
        BY <1>a, <1>b, <2>1, <3>1
      <3> QED
        BY <2>1, <3>1, <3>2 DEF ViewsTyped
  <1>4 ASSUME Viewing!ChangesElsewhere PROVE ViewsTyped'
    <2>1 /\ truth' = truth + 1 /\ truth < MaxChanges /\ quiet' = FALSE
         /\ UNCHANGED <<view, shown, busy, visit, viewRequest, viewFaults>>
      BY <1>4 DEF Viewing!ChangesElsewhere
    <2>2 truth' \in 0..MaxChanges /\ shown \in -1..truth' /\ truth <= truth'
      BY <2>1 DEF ViewsTyped
    <2>3 \A s \in FetchSlot : viewRequest[s].value \in Nat
      BY DEF ViewsTyped, RequestState
    <2>4 \A s \in FetchSlot : viewRequest'[s].value <= truth' /\ viewRequest'[s].visit <= visit'
      BY <1>a, <1>b, <2>1, <2>2, <2>3
    <2> QED
      BY <2>1, <2>2, <2>4 DEF ViewsTyped
  <1>5 ASSUME NEW s \in FetchSlot, Viewing!Serves(s) PROVE ViewsTyped'
    <2>1 /\ UNCHANGED <<view, shown, busy, visit, quiet, viewFaults>>
         /\ viewRequest' = [viewRequest EXCEPT ![s].at = "answered", ![s].value = truth']
         /\ truth' = truth \/ (truth' = truth + 1 /\ truth < MaxChanges)
      BY <1>5 DEF Viewing!Serves
    <2>2 truth' \in 0..MaxChanges /\ shown \in -1..truth' /\ truth <= truth' /\ truth' \in Nat
      <3>1 truth \in 0..MaxChanges /\ shown \in -1..truth /\ MaxChanges \in Nat
        BY DEF ViewsTyped
      <3>2 truth' \in 0..MaxChanges /\ truth <= truth'
        BY <2>1, <3>1
      <3> QED
        BY <3>1, <3>2
    <2>3 \A r \in FetchSlot : viewRequest[r].value \in Nat /\ viewRequest[r].value <= truth /\ viewRequest[r].visit <= visit
      BY DEF ViewsTyped, RequestState
    <2> DEFINE new == [viewRequest[s] EXCEPT !.at = "answered", !.value = truth']
    <2>a viewRequest \in [FetchSlot -> RequestState] /\ viewRequest[s] \in RequestState
      BY DEF ViewsTyped
    <2>b new \in RequestState /\ new.value = truth' /\ new.visit = viewRequest[s].visit
      BY <2>2, <2>a DEF RequestState
    <2>c viewRequest' = [viewRequest EXCEPT ![s] = new]
      BY <2>1, <2>a
    <2> HIDE DEF new
    <2>4 viewRequest' \in [FetchSlot -> RequestState]
      BY <2>a, <2>b, <2>c
    <2>5 \A r \in FetchSlot : viewRequest'[r].visit = viewRequest[r].visit /\
           (viewRequest'[r].value = viewRequest[r].value \/ viewRequest'[r].value = truth')
      BY <2>a, <2>b, <2>c
    <2>6 \A r \in FetchSlot : viewRequest'[r].value <= truth' /\ viewRequest'[r].visit <= visit
      BY <1>a, <2>2, <2>3, <2>5
    <2> QED
      BY <2>1, <2>2, <2>4, <2>6 DEF ViewsTyped
  <1>6 ASSUME NEW s \in FetchSlot, Viewing!Over(s), Viewing!Frees(s),
              UNCHANGED <<view, truth, visit>>, quiet' \in BOOLEAN, viewFaults' \in 0..MaxFaults,
              shown' = shown \/ shown' = viewRequest[s].value
       PROVE  ViewsTyped'
    <2>1 /\ viewRequest' = [viewRequest EXCEPT ![s] =
                              [at |-> "free", kind |-> "load", value |-> 0, visit |-> 0]]
         /\ viewRequest' \in [FetchSlot -> RequestState]
      BY <1>6, RequestOver
    <2> QED
      BY <1>6, <2>1 DEF Viewing!Frees, ViewsTyped, RequestState
  <1>7 ASSUME NEW s \in FetchSlot, Viewing!Shows(s) PROVE ViewsTyped'
    BY <1>6, <1>7 DEF Viewing!Shows, ViewsTyped
  <1>8 ASSUME NEW s \in FetchSlot, Viewing!LoadsAgain(s) PROVE ViewsTyped'
    <2>1 CASE busy /\ Viewing!Mine(s)
      <3>1 /\ viewRequest' = [viewRequest EXCEPT ![s] =
                                [at |-> "free", kind |-> "load", value |-> 0, visit |-> 0]]
           /\ viewRequest' \in [FetchSlot -> RequestState]
        BY <1>8, <2>1, RequestOver DEF Viewing!LoadsAgain
      <3>2 UNCHANGED <<view, truth, shown, busy, visit, quiet, viewFaults>>
        BY <1>8, <2>1 DEF Viewing!LoadsAgain
      <3>3 \A r \in FetchSlot : /\ viewRequest'[r].value = viewRequest[r].value \/ viewRequest'[r].value = 0
                                /\ viewRequest'[r].visit = viewRequest[r].visit \/ viewRequest'[r].visit = 0
        BY <3>1 DEF ViewsTyped
      <3>4 ASSUME NEW r \in FetchSlot PROVE viewRequest'[r].value <= truth' /\ viewRequest'[r].visit <= visit'
        <4>1 truth' = truth /\ visit' = visit /\ 0 <= truth /\ 0 <= visit
          BY <1>a, <3>2
        <4> QED
          BY <1>b, <3>3, <4>1
      <3> QED
        BY <3>1, <3>2, <3>4 DEF ViewsTyped
    <2>2 CASE ~ (busy /\ Viewing!Mine(s))
      <3>1 /\ UNCHANGED <<view, truth, shown, visit, quiet, viewFaults>>
           /\ viewRequest' = [viewRequest EXCEPT ![s].at = "sent", ![s].kind = "load", ![s].value = 0]
           /\ busy' = (busy \/ (view \in Viewing!Guarded /\ Viewing!Mine(s)))
        BY <1>8, <2>2 DEF Viewing!LoadsAgain
      <3>2 busy' \in BOOLEAN
        BY <3>1
      <3>3 busy' => view' \in Viewing!Guarded
        BY <3>1 DEF ViewsTyped
      <3> DEFINE new == [viewRequest[s] EXCEPT !.at = "sent", !.kind = "load", !.value = 0]
      <3>a viewRequest \in [FetchSlot -> RequestState] /\ viewRequest[s] \in RequestState
        BY DEF ViewsTyped
      <3>b new \in RequestState /\ new.value = 0 /\ new.visit = viewRequest[s].visit
        BY <3>a DEF RequestState
      <3>c viewRequest' = [viewRequest EXCEPT ![s] = new]
        BY <3>1, <3>a
      <3> HIDE DEF new
      <3>4 viewRequest' \in [FetchSlot -> RequestState]
        BY <3>a, <3>b, <3>c
      <3>5 \A r \in FetchSlot : viewRequest'[r].visit = viewRequest[r].visit /\
             (viewRequest'[r].value = viewRequest[r].value \/ viewRequest'[r].value = 0)
        BY <3>a, <3>b, <3>c
      <3>6 ASSUME NEW r \in FetchSlot PROVE viewRequest'[r].value <= truth' /\ viewRequest'[r].visit <= visit'
        <4>1 truth' = truth /\ visit' = visit /\ 0 <= truth
          BY <1>a, <3>1
        <4> QED
          BY <1>b, <3>5, <4>1
      <3> QED
        BY <3>1, <3>2, <3>3, <3>4, <3>6 DEF ViewsTyped
    <2> QED
      BY <2>1, <2>2
  <1>9 ASSUME NEW s \in FetchSlot, Viewing!Aborts(s) PROVE ViewsTyped'
    BY <1>6, <1>9 DEF Viewing!Aborts, ViewsTyped
  <1>10 ASSUME NEW s \in FetchSlot, Viewing!Fails(s) PROVE ViewsTyped'
    <2>1 viewFaults' \in 0..MaxFaults
      BY <1>10 DEF Viewing!Fails, ViewsTyped
    <2> QED
      BY <1>6, <1>10, <2>1 DEF Viewing!Fails
  <1> QED
    BY <1>1, <1>2, <1>3, <1>4, <1>5, <1>7, <1>8, <1>9, <1>10 DEF Viewing!Next

\* A slot holds a load of this visit.
IsMineLoad(s) == viewRequest[s].at # "free" /\ viewRequest[s].kind = "load" /\ viewRequest[s].visit = visit

\* The loads of this visit, slot by slot, before and after a step.
LEMMA MineLoadsAre ==
  /\ MineLoads = {s \in FetchSlot : IsMineLoad(s)}
  /\ MineLoads' = {s \in FetchSlot : IsMineLoad(s)'}
  BY DEF MineLoads, IsMineLoad, Viewing!Under, Viewing!Mine

\* Of a guarded view, one load of this visit at most is under way, and the flag stands for
\* it, through every step.
LEMMA GuardedStep ==
  ASSUME ViewsTyped, ViewsTyped', OneGuardedLoad, Viewing!Next
  PROVE  OneGuardedLoad'
  <1> SUFFICES ASSUME view \in Viewing!Guarded, view' = view PROVE OneGuardedLoad'
    BY DEF Viewing!Next, Viewing!Opens, Viewing!Loads, Viewing!Asks, Viewing!ChangesElsewhere, Viewing!Serves,
       Viewing!Shows, Viewing!LoadsAgain, Viewing!Aborts, Viewing!Fails, OneGuardedLoad
  <1>a /\ busy \in BOOLEAN /\ visit \in Nat /\ visit + 1 \in Nat /\ shown \in Int /\ truth \in Nat /\ shown <= truth
       /\ viewRequest \in [FetchSlot -> RequestState]
       /\ \A s \in FetchSlot : viewRequest[s].visit <= visit /\ viewRequest[s].visit \in Nat
    BY ConsoleAssumption DEF ViewsTyped, RequestState
  <1>b busy => \E s \in FetchSlot : IsMineLoad(s) /\ \A r \in FetchSlot : IsMineLoad(r) => r = s
    BY MineLoadsAre DEF OneGuardedLoad
  <1>c ~ busy => \A r \in FetchSlot : ~ IsMineLoad(r)
    BY MineLoadsAre DEF OneGuardedLoad
  <1>d \A s \in FetchSlot : IsMineLoad(s) /\ viewRequest[s].at = "answered" => viewRequest[s].value >= shown
    BY MineLoadsAre DEF OneGuardedLoad
  <1>e ASSUME \/ /\ busy' = TRUE
                 /\ \E s \in FetchSlot : IsMineLoad(s)' /\ \A r \in FetchSlot : IsMineLoad(r)' => r = s
              \/ busy' = FALSE /\ \A r \in FetchSlot : ~ IsMineLoad(r)',
              \A s \in FetchSlot : IsMineLoad(s)' /\ viewRequest'[s].at = "answered" => viewRequest'[s].value >= shown'
       PROVE  OneGuardedLoad'
    <2>1 MineLoads' = {s \in FetchSlot : IsMineLoad(s)'}
      BY MineLoadsAre
    <2>2 CASE busy'
      <3>1 PICK s \in FetchSlot : IsMineLoad(s)' /\ \A r \in FetchSlot : IsMineLoad(r)' => r = s
        BY <1>e, <2>2
      <3>2 MineLoads' = {s}
        BY <2>1, <3>1
      <3> QED
        BY <1>e, <2>1, <2>2, <3>2 DEF OneGuardedLoad
    <2>3 CASE ~ busy'
      <3>1 MineLoads' = {}
        BY <1>e, <2>1, <2>3
      <3> QED
        BY <1>e, <2>1, <2>3, <3>1 DEF OneGuardedLoad
    <2> QED
      BY <2>2, <2>3
  <1>1 ASSUME Viewing!Opens PROVE OneGuardedLoad'
    <2>1 PICK s \in FetchSlot :
           /\ viewRequest[s].at = "free"
           /\ viewRequest'[s].at = "sent" /\ viewRequest'[s].kind = "load" /\ viewRequest'[s].visit = visit + 1
           /\ \A r \in FetchSlot \ {s} : viewRequest'[r] = viewRequest[r]
      BY <1>1, <1>a, RequestSent DEF Viewing!Opens
    <2>2 visit' = visit + 1 /\ busy' = TRUE
      BY <1>1 DEF Viewing!Opens
    <2>3 IsMineLoad(s)' /\ viewRequest'[s].at = "sent"
      BY <1>a, <2>1, <2>2 DEF IsMineLoad
    <2>4 \A r \in FetchSlot : IsMineLoad(r)' => r = s
      BY <1>a, <2>1, <2>2 DEF IsMineLoad
    <2> QED
      BY <1>e, <2>2, <2>3, <2>4
  <1>2 ASSUME Viewing!Loads PROVE OneGuardedLoad'
    <2>1 PICK s \in FetchSlot :
           /\ viewRequest[s].at = "free"
           /\ viewRequest'[s].at = "sent" /\ viewRequest'[s].kind = "load" /\ viewRequest'[s].visit = visit
           /\ \A r \in FetchSlot \ {s} : viewRequest'[r] = viewRequest[r]
      BY <1>2, <1>a, RequestSent DEF Viewing!Loads
    <2>2 visit' = visit /\ busy' = TRUE /\ ~ busy
      BY <1>2 DEF Viewing!Loads
    <2>3 IsMineLoad(s)' /\ viewRequest'[s].at = "sent"
      BY <1>a, <2>1, <2>2 DEF IsMineLoad
    <2>4 \A r \in FetchSlot : IsMineLoad(r)' => r = s
      BY <1>a, <1>c, <2>1, <2>2 DEF IsMineLoad
    <2> QED
      BY <1>e, <2>2, <2>3, <2>4
  <1>f ASSUME NEW s \in FetchSlot, ~ IsMineLoad(s), ~ IsMineLoad(s)', UNCHANGED <<visit, busy, shown>>,
              \A r \in FetchSlot \ {s} : viewRequest'[r] = viewRequest[r]
       PROVE  OneGuardedLoad'
    <2>1 \A r \in FetchSlot : IsMineLoad(r)' <=> IsMineLoad(r)
      BY <1>f DEF IsMineLoad
    <2> QED
      BY <1>a, <1>b, <1>c, <1>d, <1>e, <1>f, <2>1
  <1>3 ASSUME Viewing!Asks PROVE OneGuardedLoad'
    <2>1 PICK s \in FetchSlot :
           /\ viewRequest[s].at = "free"
           /\ viewRequest'[s].at = "sent" /\ viewRequest'[s].kind = "change" /\ viewRequest'[s].visit = visit
           /\ \A r \in FetchSlot \ {s} : viewRequest'[r] = viewRequest[r]
      BY <1>3, <1>a, RequestSent DEF Viewing!Asks
    <2> QED
      BY <1>3, <1>a, <1>f, <2>1 DEF Viewing!Asks, IsMineLoad
  <1>4 ASSUME Viewing!ChangesElsewhere PROVE OneGuardedLoad'
    <2>1 UNCHANGED <<view, viewRequest, visit, busy, shown>>
      BY <1>4 DEF Viewing!ChangesElsewhere
    <2> QED
      BY <2>1 DEF OneGuardedLoad, MineLoads, Viewing!Under, Viewing!Mine
  <1>5 ASSUME NEW s \in FetchSlot, Viewing!Serves(s) PROVE OneGuardedLoad'
    <2>1 /\ UNCHANGED <<visit, busy, shown>> /\ viewRequest[s].at = "sent" /\ truth' >= truth
         /\ viewRequest' = [viewRequest EXCEPT ![s].at = "answered", ![s].value = truth']
      BY <1>5, <1>a DEF Viewing!Serves
    <2>2 \A r \in FetchSlot : IsMineLoad(r)' <=> IsMineLoad(r)
      BY <1>a, <2>1 DEF IsMineLoad, RequestState
    <2>3 truth' \in Nat /\ truth' >= shown
      BY <1>a, <2>1 DEF ViewsTyped
    <2>4 viewRequest'[s].value = truth' /\ \A r \in FetchSlot \ {s} : viewRequest'[r] = viewRequest[r]
      BY <1>a, <2>1 DEF RequestState
    <2> QED
      BY <1>a, <1>b, <1>c, <1>d, <1>e, <2>1, <2>2, <2>3, <2>4
  <1>6 ASSUME NEW s \in FetchSlot, Viewing!Over(s), Viewing!Frees(s), visit' = visit,
              viewRequest[s].at # "free", viewRequest[s].kind = "load",
              shown' = shown \/ IsMineLoad(s)
       PROVE  OneGuardedLoad'
    <2>1 viewRequest' = [viewRequest EXCEPT ![s] =
                              [at |-> "free", kind |-> "load", value |-> 0, visit |-> 0]]
      BY <1>6, RequestOver
    <2>2 ~ IsMineLoad(s)' /\ \A r \in FetchSlot \ {s} : (IsMineLoad(r)' <=> IsMineLoad(r)) /\ viewRequest'[r] = viewRequest[r]
      BY <1>a, <1>6, <2>1 DEF IsMineLoad
    <2>3 busy' = (busy /\ ~ IsMineLoad(s))
      BY <1>6 DEF Viewing!Frees, IsMineLoad, Viewing!Mine
    <2>4 CASE IsMineLoad(s)
      BY <1>b, <1>c, <1>e, <2>2, <2>3, <2>4
    <2>5 CASE ~ IsMineLoad(s)
      <3>1 \A r \in FetchSlot : IsMineLoad(r)' <=> IsMineLoad(r)
        BY <2>2, <2>5
      <3> QED
        BY <1>a, <1>b, <1>c, <1>d, <1>e, <1>6, <2>2, <2>3, <2>5, <3>1
    <2> QED
      BY <2>4, <2>5
  <1>g view \notin Viewing!Answered
    BY DEF Viewing!Guarded, Viewing!Answered
  <1>7 ASSUME NEW s \in FetchSlot, Viewing!Shows(s) PROVE OneGuardedLoad'
    BY <1>6, <1>7, <1>g DEF Viewing!Shows, IsMineLoad, Viewing!Mine
  <1>8 ASSUME NEW s \in FetchSlot, Viewing!LoadsAgain(s) PROVE OneGuardedLoad'
    <2>1 UNCHANGED <<visit, shown>> /\ viewRequest[s].at = "answered" /\ viewRequest[s].kind = "change"
      BY <1>8 DEF Viewing!LoadsAgain
    <2>2 CASE busy /\ Viewing!Mine(s)
      <3>1 viewRequest' = [viewRequest EXCEPT ![s] =
                                [at |-> "free", kind |-> "load", value |-> 0, visit |-> 0]]
        BY <1>8, <2>2, RequestOver DEF Viewing!LoadsAgain
      <3> QED
        BY <1>8, <1>a, <1>f, <2>1, <2>2, <3>1 DEF Viewing!LoadsAgain, IsMineLoad
    <2>3 CASE ~ (busy /\ Viewing!Mine(s))
      <3>1 /\ viewRequest' = [viewRequest EXCEPT ![s].at = "sent", ![s].kind = "load", ![s].value = 0]
           /\ busy' = (busy \/ Viewing!Mine(s))
        BY <1>8, <2>3 DEF Viewing!LoadsAgain
      <3>2 viewRequest'[s].at = "sent" /\ \A r \in FetchSlot \ {s} : viewRequest'[r] = viewRequest[r]
        BY <1>a, <3>1 DEF RequestState
      <3>3 (IsMineLoad(s)' <=> Viewing!Mine(s)) /\ ~ IsMineLoad(s)
        BY <1>a, <2>1, <3>1 DEF IsMineLoad, Viewing!Mine, RequestState
      <3>4 \A r \in FetchSlot \ {s} : IsMineLoad(r)' <=> IsMineLoad(r)
        BY <2>1, <3>2 DEF IsMineLoad
      <3>5 CASE Viewing!Mine(s)
        BY <1>c, <1>e, <2>3, <3>1, <3>2, <3>3, <3>4, <3>5
      <3>6 CASE ~ Viewing!Mine(s)
        <4>1 \A r \in FetchSlot : IsMineLoad(r)' <=> IsMineLoad(r)
          BY <3>3, <3>4, <3>6
        <4>2 busy' = busy
          BY <1>a, <3>1, <3>6
        <4>3 \A r \in FetchSlot : IsMineLoad(r)' /\ viewRequest'[r].at = "answered" => viewRequest'[r].value >= shown'
          <5>1 TAKE r \in FetchSlot
          <5>2 HAVE IsMineLoad(r)' /\ viewRequest'[r].at = "answered"
          <5>3 r # s /\ viewRequest'[r] = viewRequest[r] /\ IsMineLoad(r)
            BY <5>2, <3>2, <4>1
          <5> QED
            BY <1>d, <2>1, <5>2, <5>3
        <4>4 CASE busy
          BY <1>b, <1>e, <4>1, <4>2, <4>3, <4>4
        <4>5 CASE ~ busy
          BY <1>a, <1>c, <1>e, <4>1, <4>2, <4>3, <4>5
        <4> QED
          BY <4>4, <4>5
      <3> QED
        BY <3>5, <3>6
    <2> QED
      BY <2>2, <2>3
  <1>9 ASSUME NEW s \in FetchSlot, Viewing!Aborts(s) PROVE OneGuardedLoad'
    BY <1>6, <1>9 DEF Viewing!Aborts
  <1>10 ASSUME NEW s \in FetchSlot, Viewing!Fails(s) PROVE OneGuardedLoad'
    <2>1 CASE viewRequest[s].kind = "load"
      BY <1>6, <1>10, <2>1 DEF Viewing!Fails
    <2>2 CASE viewRequest[s].kind # "load"
      <3>1 viewRequest' = [viewRequest EXCEPT ![s] =
                                [at |-> "free", kind |-> "load", value |-> 0, visit |-> 0]]
        BY <1>10, RequestOver DEF Viewing!Fails
      <3> QED
        BY <1>10, <1>a, <1>f, <2>2, <3>1 DEF Viewing!Fails, Viewing!Frees, IsMineLoad
    <2> QED
      BY <2>1, <2>2
  <1> QED
    BY <1>1, <1>2, <1>3, <1>4, <1>5, <1>7, <1>8, <1>9, <1>10 DEF Viewing!Next

\* As long as nobody disturbs it, a view that is not polled is shown as it is or has a
\* request under way that will show it, through every step.
LEMMA UnpolledStep ==
  ASSUME ViewsTyped, ViewsTyped', UnpolledIsFollowed, Viewing!Next
  PROVE  UnpolledIsFollowed'
  <1> SUFFICES ASSUME view \notin Viewing!Polled, view' = view, quiet, quiet' PROVE UnpolledIsFollowed'
    BY DEF Viewing!Next, Viewing!Opens, Viewing!Loads, Viewing!Asks, Viewing!ChangesElsewhere, Viewing!Serves,
       Viewing!Shows, Viewing!LoadsAgain, Viewing!Aborts, Viewing!Fails, UnpolledIsFollowed
  <1> DEFINE at(s) == viewRequest[s].at
             value(s) == viewRequest[s].value
             kind(s) == viewRequest[s].kind
             mine(s) == viewRequest[s].visit = visit
  <1>a /\ visit \in Nat /\ visit + 1 \in Nat /\ truth \in Nat
       /\ viewRequest \in [FetchSlot -> RequestState]
       /\ \A s \in FetchSlot : viewRequest[s].visit <= visit /\ viewRequest[s].visit \in Nat
    BY ConsoleAssumption DEF ViewsTyped, RequestState
  <1>b \A s \in FetchSlot : at(s) = "answered" => value(s) = truth
    BY DEF UnpolledIsFollowed
  <1>c \A s \in FetchSlot : at(s) # "free" /\ kind(s) = "change" =>
         mine(s) /\ \A r \in FetchSlot \ {s} : at(r) = "free"
    BY DEF UnpolledIsFollowed, Viewing!Mine
  <1>d shown = truth \/ \E s \in FetchSlot : at(s) # "free" /\ mine(s)
    BY DEF UnpolledIsFollowed, Viewing!Mine
  <1>e ASSUME \A s \in FetchSlot : at(s)' = "answered" => value(s)' = truth',
              \A s \in FetchSlot : at(s)' # "free" /\ kind(s)' = "change" =>
                mine(s)' /\ \A r \in FetchSlot \ {s} : at(r)' = "free",
              shown' = truth' \/ \E s \in FetchSlot : at(s)' # "free" /\ mine(s)'
       PROVE  UnpolledIsFollowed'
    BY <1>e DEF UnpolledIsFollowed, Viewing!Mine
  <1>f view \notin Viewing!Guarded
    BY DEF Viewing!Guarded, Viewing!Polled
  <1>1 ASSUME Viewing!Opens PROVE UnpolledIsFollowed'
    <2>1 PICK s \in FetchSlot :
           /\ viewRequest'[s].at = "sent" /\ viewRequest'[s].kind = "load" /\ viewRequest'[s].visit = visit + 1
           /\ \A r \in FetchSlot \ {s} : viewRequest'[r] = viewRequest[r]
      BY <1>1, <1>a, RequestSent DEF Viewing!Opens
    <2>2 truth' = truth /\ visit' = visit + 1 /\ Viewing!Under("change") = {}
      BY <1>1 DEF Viewing!Opens
    <2>3 \A r \in FetchSlot : ~ (at(r) # "free" /\ kind(r) = "change")
      BY <2>2 DEF Viewing!Under
    <2>4 \A r \in FetchSlot : ~ (at(r)' # "free" /\ kind(r)' = "change")
      BY <2>1, <2>3
    <2>5 \A r \in FetchSlot : at(r)' = "answered" => value(r)' = truth'
      BY <1>b, <2>1, <2>2
    <2> QED
      BY <1>e, <2>1, <2>2, <2>4, <2>5
  <1>2 ~ Viewing!Loads
    BY DEF Viewing!Loads
  <1>3 ASSUME Viewing!Asks PROVE UnpolledIsFollowed'
    <2>1 PICK s \in FetchSlot :
           /\ viewRequest'[s].at = "sent" /\ viewRequest'[s].kind = "change" /\ viewRequest'[s].visit = visit
           /\ \A r \in FetchSlot \ {s} : viewRequest'[r] = viewRequest[r]
      BY <1>3, <1>a, RequestSent DEF Viewing!Asks
    <2>2 truth' = truth /\ visit' = visit /\ \A r \in FetchSlot : at(r) = "free"
      BY <1>3 DEF Viewing!Asks, Viewing!Still
    <2> QED
      BY <1>e, <2>1, <2>2
  <1>4 ~ Viewing!ChangesElsewhere
    BY DEF Viewing!ChangesElsewhere
  <1>5 ASSUME NEW s \in FetchSlot, Viewing!Serves(s) PROVE UnpolledIsFollowed'
    <2>1 /\ visit' = visit /\ shown' = shown /\ at(s) = "sent"
         /\ truth' = IF kind(s) = "change" THEN truth + 1 ELSE truth
         /\ viewRequest' = [viewRequest EXCEPT ![s].at = "answered", ![s].value = truth']
      BY <1>5 DEF Viewing!Serves
    <2>2 /\ at(s)' = "answered" /\ value(s)' = truth' /\ kind(s)' = kind(s) /\ (mine(s)' <=> mine(s))
         /\ \A r \in FetchSlot \ {s} : viewRequest'[r] = viewRequest[r]
      BY <1>a, <2>1 DEF RequestState
    <2>3 CASE kind(s) = "change"
      <3>1 mine(s) /\ \A r \in FetchSlot \ {s} : at(r) = "free"
        BY <1>c, <2>1, <2>3
      <3>2 \A r \in FetchSlot \ {s} : at(r)' = "free"
        BY <2>2, <3>1
      <3>3 \E r \in FetchSlot : at(r)' # "free" /\ mine(r)'
        BY <2>2, <3>1
      <3>4 \A r \in FetchSlot : at(r)' = "answered" => value(r)' = truth'
        BY <2>2, <3>2
      <3>5 \A r \in FetchSlot : at(r)' # "free" => r = s
        BY <3>2
      <3> HIDE DEF at, value, kind, mine
      <3> QED
        BY <1>e, <2>2, <3>1, <3>2, <3>3, <3>4, <3>5
    <2>4 CASE kind(s) # "change"
      <3>1 truth' = truth /\ \A r \in FetchSlot : at(r) # "free" <=> at(r)' # "free"
        BY <2>1, <2>2, <2>4
      <3>2 shown' = truth' \/ \E r \in FetchSlot : at(r)' # "free" /\ mine(r)'
        BY <1>d, <2>1, <2>2, <3>1
      <3>3 \A r \in FetchSlot : at(r)' = "answered" => value(r)' = truth'
        BY <1>b, <2>2, <3>1
      <3>4 ASSUME NEW r \in FetchSlot, at(r)' # "free" /\ kind(r)' = "change"
           PROVE  mine(r)' /\ \A t \in FetchSlot \ {r} : at(t)' = "free"
        <4>1 r # s
          BY <2>2, <2>4, <3>4
        <4>2 at(r) # "free" /\ kind(r) = "change"
          BY <2>2, <3>4, <4>1
        <4> QED
          BY <1>c, <2>1, <4>1, <4>2
      <3> QED
        BY <1>e, <3>2, <3>3, <3>4
    <2> QED
      BY <2>3, <2>4
  <1>6 ASSUME NEW s \in FetchSlot, Viewing!Shows(s) PROVE UnpolledIsFollowed'
    <2>1 /\ visit' = visit /\ truth' = truth /\ at(s) = "answered"
         /\ shown' = IF mine(s) THEN value(s) ELSE shown
      BY <1>6 DEF Viewing!Shows, Viewing!Mine
    <2>2 viewRequest' = [viewRequest EXCEPT ![s] =
                              [at |-> "free", kind |-> "load", value |-> 0, visit |-> 0]]
      BY <1>6, RequestOver DEF Viewing!Shows
    <2>3 at(s)' = "free" /\ \A r \in FetchSlot \ {s} : viewRequest'[r] = viewRequest[r]
      BY <1>a, <2>2
    <2>4 shown' = truth' \/ \E r \in FetchSlot : at(r)' # "free" /\ mine(r)'
      BY <1>b, <1>d, <2>1, <2>3
    <2>5 \A r \in FetchSlot : at(r)' = "answered" => value(r)' = truth'
      BY <1>b, <2>1, <2>3
    <2>6 \A r \in FetchSlot : at(r)' # "free" => r # s /\ at(r) # "free" /\ kind(r)' = kind(r)
      BY <2>3
    <2>7 ASSUME NEW r \in FetchSlot, at(r)' # "free" /\ kind(r)' = "change"
         PROVE  mine(r)' /\ \A t \in FetchSlot \ {r} : at(t)' = "free"
      BY <1>c, <2>1, <2>3, <2>6, <2>7
    <2> QED
      BY <1>e, <2>4, <2>5, <2>7
  <1>7 ASSUME NEW s \in FetchSlot, Viewing!LoadsAgain(s) PROVE UnpolledIsFollowed'
    <2>1 /\ UNCHANGED <<visit, truth, shown>> /\ at(s) = "answered" /\ kind(s) = "change"
      BY <1>7 DEF Viewing!LoadsAgain
    <2>2 mine(s) /\ \A r \in FetchSlot \ {s} : at(r) = "free"
      BY <1>c, <2>1
    <2>3 CASE ~ busy
      <3>1 viewRequest' = [viewRequest EXCEPT ![s].at = "sent", ![s].kind = "load", ![s].value = 0]
        BY <1>7, <2>3 DEF Viewing!LoadsAgain
      <3>2 /\ at(s)' = "sent" /\ kind(s)' = "load" /\ mine(s)'
           /\ \A r \in FetchSlot \ {s} : viewRequest'[r] = viewRequest[r]
        BY <1>a, <2>1, <2>2, <3>1 DEF RequestState
      <3> QED
        BY <1>e, <2>2, <3>2
    <2> QED
      BY <1>f, <2>3 DEF ViewsTyped
  <1>8 ASSUME NEW s \in FetchSlot PROVE ~ Viewing!Aborts(s) /\ ~ Viewing!Fails(s)
    BY DEF Viewing!Aborts, Viewing!Fails
  <1> QED
    BY <1>1, <1>2, <1>3, <1>4, <1>5, <1>6, <1>7, <1>8 DEF Viewing!Next

-----------------------------------------------------------------------------
\* A page that has just been opened waits for its first load.
LEMMA ViewsStart ==
  ASSUME Viewing!Init
  PROVE  ViewsInv
  <1> USE ConsoleAssumption
  <1> DEFINE first == [Viewing!NoRequest EXCEPT !.at = "sent", !.visit = 1]
  <1>1 PICK s \in FetchSlot : viewRequest = [r \in FetchSlot |-> IF r = s THEN first ELSE Viewing!NoRequest]
    BY DEF Viewing!Init
  <1>2 /\ first \in RequestState /\ first.at = "sent" /\ first.kind = "load" /\ first.value = 0 /\ first.visit = 1
       /\ Viewing!NoRequest \in RequestState /\ Viewing!NoRequest.at = "free" /\ Viewing!NoRequest.kind = "load"
       /\ Viewing!NoRequest.value = 0 /\ Viewing!NoRequest.visit = 0
    BY DEF Viewing!NoRequest, RequestState
  <1> HIDE DEF first
  <1>3 /\ viewRequest \in [FetchSlot -> RequestState]
       /\ viewRequest[s].at = "sent" /\ viewRequest[s].kind = "load" /\ viewRequest[s].visit = 1
       /\ \A r \in FetchSlot : viewRequest[r].value = 0 /\ viewRequest[r].visit \in {0, 1}
       /\ \A r \in FetchSlot \ {s} : viewRequest[r].at = "free"
       /\ \A r \in FetchSlot : viewRequest[r].at # "answered" /\ viewRequest[r].kind = "load"
    BY <1>1, <1>2
  <1>4 /\ view \in Viewing!View /\ truth = 0 /\ shown = -1 /\ visit = 1 /\ quiet = TRUE /\ viewFaults = 0
       /\ busy = (view \in Viewing!Guarded)
    BY DEF Viewing!Init
  <1>5 ViewsTyped
    <2>1 truth \in 0..MaxChanges /\ shown \in -1..truth /\ visit \in 1..MaxVisits /\ viewFaults \in 0..MaxFaults
      BY <1>4
    <2>2 \A r \in FetchSlot : viewRequest[r].value <= truth /\ viewRequest[r].visit <= visit
      BY <1>3, <1>4
    <2>3 busy \in BOOLEAN /\ (busy => view \in Viewing!Guarded) /\ quiet \in BOOLEAN
      <3>1 busy = (view \in Viewing!Guarded) /\ quiet = TRUE
        BY DEF Viewing!Init
      <3>2 (view \in Viewing!Guarded) \in BOOLEAN
        OBVIOUS
      <3>3 busy \in BOOLEAN
        BY Zenon, <3>1, <3>2
      <3>4 busy => view \in Viewing!Guarded
        BY Zenon, <3>1
      <3> QED
        BY <3>1, <3>3, <3>4
    <2>4 view \in Viewing!View
      BY <1>4
    <2> QED
      BY <1>3, <2>1, <2>2, <2>3, <2>4 DEF ViewsTyped
  <1>6 MineLoads = {s}
    BY <1>3, <1>4, MineLoadsAre DEF IsMineLoad
  <1>7 OneGuardedLoad
    BY <1>3, <1>4, <1>6 DEF OneGuardedLoad
  <1>8 UnpolledIsFollowed
    BY <1>3, <1>4 DEF UnpolledIsFollowed, Viewing!Mine
  <1> QED
    BY <1>5, <1>7, <1>8 DEF ViewsInv

ViewsHold == focus = "views" => ViewsInv

\* The invariant holds throughout a run in which a view takes the steps.
LEMMA ViewsInvariant == MCSpec => []ViewsHold
  <1>1 ASSUME MCInit PROVE ViewsHold
    BY <1>1, ViewsStart DEF MCInit, ViewsHold
  <1>2 ASSUME ViewsHold, MCNext PROVE ViewsHold'
    <2>1 CASE Views
      BY <1>2, <2>1, ViewsTypedStep, GuardedStep, UnpolledStep DEF Views, ViewsHold, ViewsInv
    <2>2 CASE ~ Views
      BY <1>2, <2>2 DEF MCNext, Alerts, Sets, Notifies, Controls, SharesSession, ViewsHold
    <2> QED
      BY <2>1, <2>2
  <1>3 ASSUME ViewsHold, UNCHANGED <<focus, operatorVars, notificationVars, controlVars, clientVars>>
       PROVE  ViewsHold'
    <2>1 UNCHANGED <<focus, view, truth, shown, busy, visit, viewRequest, viewFaults, quiet>>
      BY <1>3 DEF clientVars, viewVars
    <2> QED
      BY <1>3, <2>1 DEF ViewsHold, ViewsInv, ViewsTyped, OneGuardedLoad, UnpolledIsFollowed, MineLoads,
         Viewing!Under, Viewing!Mine
  <1> QED
    BY <1>1, <1>2, <1>3, PTL DEF MCSpec

\* What the page shows of a guarded view only grows in a visit.
LEMMA GuardedViewAdvances ==
  ASSUME ViewsInv, Viewing!Next
  PROVE  Viewing!GuardedAdvances
  <1> SUFFICES ASSUME visit' = visit, view \in Viewing!Guarded PROVE shown' >= shown
    BY DEF Viewing!GuardedAdvances
  <1>a shown \in Int /\ visit \in Nat /\ view \notin Viewing!Answered
    BY ConsoleAssumption DEF ViewsInv, ViewsTyped, Viewing!Guarded, Viewing!Answered
  <1>1 ~ Viewing!Opens
    BY <1>a DEF Viewing!Opens
  <1>2 ASSUME NEW s \in FetchSlot, Viewing!Shows(s) PROVE shown' >= shown
    <2>1 CASE Viewing!Mine(s)
      <3>1 s \in MineLoads /\ viewRequest[s].at = "answered" /\ shown' = viewRequest[s].value
        BY <1>2, <1>a, <2>1 DEF Viewing!Shows, MineLoads, Viewing!Under
      <3> QED
        BY <3>1 DEF ViewsInv, OneGuardedLoad
    <2>2 CASE ~ Viewing!Mine(s)
      BY <1>2, <1>a, <2>2 DEF Viewing!Shows
    <2> QED
      BY <2>1, <2>2
  <1>3 CASE shown' = shown
    BY <1>3, <1>a
  <1> QED
    BY <1>1, <1>2, <1>3 DEF Viewing!Next, Viewing!Loads, Viewing!Asks, Viewing!ChangesElsewhere,
       Viewing!Serves, Viewing!LoadsAgain, Viewing!Aborts, Viewing!Fails

\* The instance counts as the library does, whose theorems about finite sets are used below.
LEMMA SlotsCounted == \A S : Viewing!Cardinality(S) = Cardinality(S)
  BY DEF Viewing!Cardinality, Cardinality

\* The flag of a guarded view stands for one load (warmupRequestInFlight of operations/page.tsx).
LEMMA BusyIsOneLoad ==
  ASSUME ViewsInv
  PROVE  Viewing!BusyStandsForLoad
  <1>1 {s \in Viewing!Under("load") : Viewing!Mine(s)} = MineLoads
    BY DEF MineLoads
  <1>2 ASSUME NEW s, MineLoads = {s} PROVE Cardinality(MineLoads) = 1
    BY <1>2, FS_Singleton
  <1>3 Cardinality({}) = 0
    BY FS_EmptySet
  <1> SUFFICES ASSUME view \in Viewing!Guarded PROVE Cardinality(MineLoads) = IF busy THEN 1 ELSE 0
    BY <1>1, SlotsCounted DEF Viewing!BusyStandsForLoad
  <1>4 CASE busy
    <2>1 PICK s \in FetchSlot : MineLoads = {s}
      BY <1>4 DEF ViewsInv, OneGuardedLoad
    <2> QED
      BY <1>2, <1>4, <2>1
  <1>5 CASE ~ busy
    <2>1 MineLoads = {}
      BY <1>5 DEF ViewsInv, OneGuardedLoad
    <2> QED
      BY <1>3, <1>5, <2>1
  <1> QED
    BY <1>4, <1>5

\* A view that is not polled shows what the server has once all its requests are over.
LEMMA UnpolledShowsTruth ==
  ASSUME ViewsInv
  PROVE  Viewing!UnpolledIsCurrent
  BY DEF ViewsInv, UnpolledIsFollowed, Viewing!UnpolledIsCurrent, Viewing!Still

\* For any number of slots, changes, visits and failures, a guarded view of the console
\* does not go back within a visit, its flag stands for the one load of this visit that is
\* under way, and a view that is not polled shows what the server has once nothing is under
\* way and nothing has disturbed it (loadWarmupProgress and loadWarmupJobs of
\* operations/page.tsx, toggleAccount and saveConfig of runner/page.tsx).
THEOREM ViewsAlwaysAdvance == MCSpec => ViewsAdvance
  <1> DEFINE A == focus = "views" =>
               Viewing!GuardedAdvances /\ Viewing!BusyStandsForLoad' /\ Viewing!UnpolledIsCurrent'
             B == focus = "views" => Viewing!BusyStandsForLoad /\ Viewing!UnpolledIsCurrent
  <1>1 ViewsHold => B
    BY BusyIsOneLoad, UnpolledShowsTruth DEF ViewsHold
  <1>2 ASSUME ViewsHold, B', [MCNext]_<<focus, operatorVars, notificationVars, controlVars, clientVars>>
       PROVE  A \/ UNCHANGED viewVars
    <2>1 CASE Views
      <3>1 ViewsInv /\ Viewing!Next /\ focus' = "views"
        BY <1>2, <2>1 DEF ViewsHold, Views
      <3>2 Viewing!GuardedAdvances
        BY <3>1, GuardedViewAdvances
      <3> QED
        BY <1>2, <3>1, <3>2
    <2>2 CASE MCNext /\ ~ Views
      BY <2>2 DEF MCNext, Alerts, Sets, Notifies, Controls, SharesSession, clientVars
    <2>3 CASE UNCHANGED <<focus, operatorVars, notificationVars, controlVars, clientVars>>
      BY <2>3 DEF clientVars
    <2> QED
      BY <1>2, <2>1, <2>2, <2>3
  <1> QED
    BY <1>1, <1>2, ViewsInvariant, PTL DEF MCSpec, ViewsAdvance

-----------------------------------------------------------------------------
\* What the parts have in common

\* For any number of consoles, operators, accounts and rules, an account stays enabled unless
\* two are disabled at once, and after a save that no other was rendering beside, both alert
\* services have loaded what it wrote (setLifecycleAccountEnabled of lifecycle-accounts.ts,
\* renderAndReload of alert-config.ts).
THEOREM SettingsAlwaysHold == MCSpec => []SettingsHold
  <1>1 AlertsHold => (focus = "alerts" => Alerting!FilesFollow)
    BY FilesAreServed DEF AlertsHold
  <1>2 SettingsHeld => (focus = "settings" => Setting!AccountsRemain)
    BY DEF SettingsHeld, SettingsInv, ReadsAreCurrent, Setting!AccountsRemain
  <1>3 AlertsHold /\ SettingsHeld => SettingsHold
    BY <1>1, <1>2 DEF SettingsHold
  <1> QED
    BY <1>3, AlertsInvariant, SettingsInvariant, PTL

\* However requests overlap, a save of the alert configuration replaces what its author has
\* seen, and an update of the runner's profile leaves what it does not name: the version that
\* both compare stands for all they have read before (saveAlertConfig,
\* updateRunnerConfigInDb).
THEOREM EditsAlwaysSeen == MCSpec => EditsAreSeen
  <1> DEFINE A == /\ focus = "alerts" => Alerting!ReplacesWhatWasSeen
                  /\ focus = "settings" => Setting!KeepsUnnamed
  <1>1 ASSUME AlertsHold, SettingsHeld, [MCNext]_<<focus, operatorVars, notificationVars, controlVars, clientVars>>
       PROVE  A \/ UNCHANGED operatorVars
    <2>1 CASE Alerts
      BY <1>1, <2>1, SavesReplaceTheSeen DEF Alerts, AlertsHold
    <2>2 CASE Sets
      BY <1>1, <2>2, UnnamedAreKept DEF Sets, SettingsHeld
    <2>3 CASE MCNext /\ ~ Alerts /\ ~ Sets
      BY <2>3 DEF MCNext, Notifies, Controls, SharesSession, Views
    <2>4 CASE UNCHANGED <<focus, operatorVars, notificationVars, controlVars, clientVars>>
      BY <2>4
    <2> QED
      BY <1>1, <2>1, <2>2, <2>3, <2>4
  <1> QED
    BY <1>1, AlertsInvariant, SettingsInvariant, PTL DEF MCSpec, EditsAreSeen

\* The types of the module AlertConfig follow from the invariant.
LEMMA AlertsAreTyped ==
  ASSUME AlertsInv
  PROVE  Alerting!TypeOK
  <1>1 \A o \in Operator : draft[o].written <= version /\ draft[o].current <= version
    BY DEF AlertsInv, DraftsAreRead
  <1> QED
    BY <1>1 DEF AlertsInv, AlertsTyped, Alerting!TypeOK

\* The types of the module RunnerSettings follow from the invariant.
LEMMA SettingsAreTyped ==
  ASSUME SettingsInv
  PROVE  Setting!TypeOK
  <1>1 ASSUME NEW c \in Client
       PROVE  /\ client[c].pc \in {"idle", "form", "update", "disable"} /\ client[c].version \in Nat
              /\ client[c].version <= profile.version
              /\ client[c].seen \subseteq Account /\ client[c].account \subseteq Account
    <2>1 client[c] \in ConsoleState
      BY DEF SettingsInv, SettingsTyped
    <2> QED
      BY <2>1 DEF ConsoleState, SettingsInv, ReadsAreCurrent
  <1>2 profile.version \in Nat
    BY DEF SettingsInv, SettingsTyped
  <1> QED
    BY <1>1, <1>2 DEF SettingsInv, SettingsTyped, Setting!TypeOK

\* The types of the module RunnerControl follow from the invariant.
LEMMA ControlIsTyped ==
  ASSUME ControlInv
  PROVE  Controlling!TypeOK
  <1>1 /\ engine \in EngineState /\ task \in [Controlling!Task -> TaskState]
    BY DEF ControlInv, ControlTyped
  <1>2 /\ engine.stage \in Stage /\ engine.config \in Controlling!Profile
       /\ engine.paused \in BOOLEAN /\ engine.checked \in BOOLEAN
    BY <1>1 DEF EngineState
  <1>3 \A k \in Controlling!Task : task[k].pc \in {"idle", "control", "controlled", "config", "configured",
                                                  "publish", "expire", "lifecycle"}
    BY <1>1 DEF TaskState
  <1>4 /\ controlProfile \in Controlling!Profile /\ paused \in BOOLEAN
       /\ published \in [present : BOOLEAN, running : BOOLEAN, expires : BOOLEAN]
       /\ firm \in BOOLEAN /\ undone \in BOOLEAN /\ slow \in BOOLEAN /\ failed \in 0..MaxFaults
    BY DEF ControlInv, ControlTyped
  <1> QED
    BY <1>2, <1>3, <1>4 DEF Controlling!TypeOK, Stage

\* The types of the module CustomerSession follow from the invariant.
LEMMA SessionIsTyped ==
  ASSUME SessionInv
  PROVE  SharingSession!TypeOK
  <1>1 SessionTyped
    BY DEF SessionInv
  <1>2 ASSUME NEW c \in Caller
       PROVE  /\ call[c].pc \in {"idle", "sent", "found", "answered"}
              /\ call[c].kind \in {"none", "request", "login", "refresh", "logout"}
              /\ call[c].carried \in SharingSession!Token \cup {0} /\ call[c].got \in SharingSession!Token \cup {0}
              /\ call[c].answer \in {"none", "ok", "invalid", "401", "lost"} /\ call[c].again \in BOOLEAN
    <2>1 call[c] \in CallState
      BY <1>1 DEF SessionTyped
    <2> QED
      BY <2>1 DEF CallState
  <1> QED
    BY <1>1, <1>2 DEF SessionTyped, SharingSession!TypeOK

\* The types of the module ConsoleViews follow from the invariant.
LEMMA ViewsAreTyped ==
  ASSUME ViewsInv
  PROVE  Viewing!TypeOK
  <1>1 ViewsTyped
    BY DEF ViewsInv
  <1>2 truth \in Nat /\ visit \in Nat
    BY <1>1, ConsoleAssumption DEF ViewsTyped
  <1>3 ASSUME NEW s \in FetchSlot
       PROVE  /\ viewRequest[s].at \in {"free", "sent", "answered"} /\ viewRequest[s].kind \in {"load", "change"}
              /\ viewRequest[s].value \in Nat /\ viewRequest[s].visit \in Nat
              /\ viewRequest[s].value <= truth /\ viewRequest[s].visit <= visit
    <2>1 viewRequest[s] \in RequestState
      BY <1>1 DEF ViewsTyped
    <2> QED
      BY <1>1, <2>1 DEF ViewsTyped, RequestState
  <1> QED
    BY <1>1, <1>2, <1>3 DEF ViewsTyped, Viewing!TypeOK

\* The part that takes steps keeps its state well typed, whichever it is (the six modules
\* of the console and of the customers' sessions).
THEOREM ConsoleTyped == MCSpec => []TypeOK
  <1>1 AlertsHold /\ SettingsHeld /\ NotificationHolds /\ ControlHolds /\ SessionHolds /\ ViewsHold => TypeOK
    BY AlertsAreTyped, SettingsAreTyped, ControlIsTyped, SessionIsTyped, ViewsAreTyped
    DEF AlertsHold, SettingsHeld, NotificationHolds, NotificationInv, ControlHolds, SessionHolds, ViewsHold, TypeOK
  <1> QED
    BY <1>1, AlertsInvariant, SettingsInvariant, NotificationInvariant, ControlInvariant, SessionInvariant,
       ViewsInvariant, PTL
=============================================================================
