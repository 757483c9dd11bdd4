----------------------------- MODULE RunnerSettings -----------------------------
\* The operator's settings of the traffic runner: the profile in the database
\* (traffic-control-plane/src/lib/runner-config.ts) and the whitelist of accounts
\* (lifecycle-accounts.ts), with the routes under app/internal/traffic/runner. Two
\* fields of two values stand for those of the profile, and requests that are not
\* valid are left out. What the engine makes of the settings is in TrafficRunner.
EXTENDS Integers, FiniteSets

CONSTANTS
  Client,               \* consoles
  Account,              \* accounts of the deployment, all with a customer id
  MaxUpdates            \* bound on updates of the profile

Field == {"enabled", "interval"}
Values == [Field -> BOOLEAN]

VARIABLES
  profile,              \* runner_profile: version and values
  allowed,              \* accounts that are not disabled in runner_customer_whitelist
  client,               \* per console: its form or request, and what the server has read
  settled               \* history: no two accounts were disabled at once since one was enabled
                        \* while none was being disabled

vars == <<profile, allowed, client, settled>>

Nothing == [pc |-> "idle", version |-> 0, change |-> {}, values |-> [f \in Field |-> TRUE],
            account |-> {}, seen |-> {}]

TypeOK ==
  /\ profile \in [version : 1..MaxUpdates + 1, values : Values]
  /\ allowed \subseteq Account
  /\ \A c \in Client :
       /\ client[c].pc \in {"idle", "form", "update", "disable"}
       /\ client[c].version \in 0..profile.version
       /\ client[c].seen \subseteq Account /\ client[c].account \subseteq Account

Init ==
  /\ profile = [version |-> 1, values |-> [f \in Field |-> TRUE]]
  /\ allowed = Account
  /\ client = [c \in Client |-> Nothing]
  /\ settled = TRUE

-----------------------------------------------------------------------------
\* The profile.

LoadsForm(c) ==
  /\ client[c].pc \in {"idle", "form"}
  /\ client' = [client EXCEPT ![c] = [Nothing EXCEPT !.pc = "form", !.version = profile.version]]
  /\ UNCHANGED <<profile, allowed, settled>>

\* updateRunnerConfigInDb up to its transaction: what the request does not name is
\* taken from a profile that is read first.
SubmitsUpdate(c, named, values) ==
  /\ client[c].pc = "form"
  /\ client' = [client EXCEPT ![c].pc = "update", ![c].change = named,
       ![c].values = [f \in Field |-> IF f \in named THEN values[f] ELSE profile.values[f]]]
  /\ UNCHANGED <<profile, allowed, settled>>

\* Defect: the statement does not ask for the version.
UpdatesAnyVersion(c) ==
  /\ client[c].pc = "update" /\ profile.version <= MaxUpdates
  /\ profile' = [version |-> profile.version + 1, values |-> client[c].values]
  /\ client' = [client EXCEPT ![c] = Nothing]
  /\ UNCHANGED <<allowed, settled>>

\* Its one statement: all fields, where the version is that of the form.
Updates(c) ==
  /\ client[c].pc = "update" /\ profile.version <= MaxUpdates
  /\ profile' = IF client[c].version = profile.version
                THEN [version |-> profile.version + 1, values |-> client[c].values]
                ELSE profile
  /\ client' = [client EXCEPT ![c] = Nothing]
  /\ UNCHANGED <<allowed, settled>>

-----------------------------------------------------------------------------
\* The accounts.

Enables(a) ==
  /\ a \notin allowed
  /\ allowed' = allowed \cup {a}
  /\ settled' = (settled \/ \A c \in Client : client[c].pc # "disable")
  /\ UNCHANGED <<profile, client>>

\* setLifecycleAccountEnabled reads the accounts, looks for a second one and then
\* disables the one that was named.
AsksToDisable(c, a) ==
  /\ client[c].pc = "idle"
  /\ client' = [client EXCEPT ![c].pc = "disable", ![c].account = {a}, ![c].seen = allowed]
  /\ UNCHANGED <<profile, allowed, settled>>

LastOfThem(c) == Cardinality(client[c].seen) <= 1

KeepsLast(c) ==
  /\ client[c].pc = "disable" /\ LastOfThem(c)
  /\ client' = [client EXCEPT ![c] = Nothing]
  /\ UNCHANGED <<profile, allowed, settled>>

Disables(c) ==
  /\ client[c].pc = "disable" /\ ~ LastOfThem(c)
  /\ allowed' = allowed \ client[c].account
  /\ client' = [client EXCEPT ![c] = Nothing]
  /\ settled' = (settled /\ \A d \in Client \ {c} : client[d].pc # "disable")
  /\ UNCHANGED profile

-----------------------------------------------------------------------------
Next ==
  \/ \E c \in Client :
       \/ LoadsForm(c) \/ Updates(c) \/ KeepsLast(c) \/ Disables(c)
       \/ \E named \in SUBSET Field, values \in Values : SubmitsUpdate(c, named, values)
       \/ \E a \in Account : AsksToDisable(c, a)
  \/ \E a \in Account : Enables(a)

Spec == Init /\ [][Next]_vars

\* An update leaves the fields that it does not name as they are, although it writes
\* all of them with values that were read before: the version tells of any change.
KeepsUnnamed ==
  \A c \in Client :
    client[c].pc = "update" /\ client'[c].pc = "idle" /\ profile' # profile =>
      \A f \in Field \ client[c].change : profile'.values[f] = profile.values[f]

\* The last enabled account stays enabled, unless two accounts are disabled at once, and
\* again from when one is enabled after that (setLifecycleAccountEnabled).
AccountsRemain == settled => allowed # {}
=============================================================================
