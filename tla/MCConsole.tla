------------------------------- MODULE MCConsole -------------------------------
\* What the operator's console sets, shows and controls, and the sessions of customers.
\* These parts share no state, so that each is checked by itself: which one has a state
\* and takes steps is chosen at the beginning.
EXTENDS Integers, Sequences, FiniteSets
CONSTANTS
  None, MaxFaults,
  Operator, SourceEditor, Rule, Source, MaxVersion,
  Client, Account, MaxUpdates,
  MaxProfiles, Caller, MaxTokens, FetchSlot, MaxChanges, MaxVisits,
  FaultRuns, HeapChoices

\* A run is its token, counted from 1; the file of the image names rules; there is an
\* account to begin with; a bound leaves room for the state that a part begins in.
ASSUME ConsoleAssumption ==
  /\ FaultRuns \subseteq Nat \ {0} /\ Source \in Seq(Rule)
  /\ IsFiniteSet(Account) /\ Account # {} /\ IsFiniteSet(FetchSlot)
  /\ MaxVersion \in Nat \ {0} /\ MaxProfiles \in Nat \ {0} /\ MaxTokens \in Nat \ {0}
  /\ MaxVisits \in Nat \ {0} /\ MaxUpdates \in Nat /\ MaxChanges \in Nat /\ MaxFaults \in Nat

VARIABLES
  focus,
  version, rules, password, draft, temporary, file, served, saved,
  profile, allowed, client, settled,
  expired, fence, cleanups, scheduler, faults, accepted, abandoned, heap, state, prepare,
  release, held, retained, files, up, request, cleaned, lost, revived,
  controlProfile, paused, engine, task, published, firm, undone, slow, failed,
  holder, stage, sessionHeld, token, lapsed, call, doubled, sessionFaults,
  view, truth, shown, busy, visit, viewRequest, viewFaults, quiet

Alerting == INSTANCE AlertConfig
Setting == INSTANCE RunnerSettings
Notifying == INSTANCE NotificationTarget WITH Run <- FaultRuns
Controlling == INSTANCE RunnerControl WITH profile <- controlProfile, MaxVersion <- MaxProfiles
SharingSession == INSTANCE CustomerSession WITH held <- sessionHeld, faults <- sessionFaults
Viewing == INSTANCE ConsoleViews WITH request <- viewRequest

MCSource == <<1>>
MCHeapChoices == {{}, {2}}

MCInit ==
  /\ focus \in {"alerts", "settings", "notification", "control", "session", "views"}
  /\ IF focus = "alerts" THEN Alerting!Init
     ELSE /\ version = None /\ rules = None /\ password = None /\ draft = None
          /\ temporary = None /\ file = None /\ served = None /\ saved = None
  /\ IF focus = "settings" THEN Setting!Init
     ELSE /\ profile = None /\ allowed = None /\ client = None /\ settled = None
  /\ IF focus = "notification" THEN Notifying!Init
     ELSE /\ expired = None /\ fence = None /\ cleanups = None /\ scheduler = None
          /\ faults = None /\ accepted = None /\ abandoned = None /\ heap = None
          /\ state = None /\ prepare = None /\ release = None /\ held = None
          /\ retained = None /\ files = None /\ up = None /\ request = None
          /\ cleaned = None /\ lost = None /\ revived = None
  /\ IF focus = "control" THEN Controlling!Init
     ELSE /\ controlProfile = None /\ paused = None /\ engine = None /\ task = None
          /\ published = None /\ firm = None /\ undone = None /\ slow = None /\ failed = None
  /\ IF focus = "session" THEN SharingSession!Init
     ELSE /\ holder = None /\ stage = None /\ sessionHeld = None /\ token = None
          /\ lapsed = None /\ call = None /\ doubled = None /\ sessionFaults = None
  /\ IF focus = "views" THEN Viewing!Init
     ELSE /\ view = None /\ truth = None /\ shown = None /\ busy = None /\ visit = None
          /\ viewRequest = None /\ viewFaults = None /\ quiet = None

alertVars == <<version, rules, password, draft, temporary, file, served, saved>>
settingVars == <<profile, allowed, client, settled>>
notificationVars ==
  <<expired, fence, cleanups, scheduler, faults, accepted, abandoned, heap, state, prepare,
    release, held, retained, files, up, request, cleaned, lost, revived>>
controlVars ==
  <<controlProfile, paused, engine, task, published, firm, undone, slow, failed>>
sessionVars ==
  <<holder, stage, sessionHeld, token, lapsed, call, doubled, sessionFaults>>
viewVars == <<view, truth, shown, busy, visit, viewRequest, viewFaults, quiet>>
operatorVars == <<alertVars, settingVars>>
clientVars == <<sessionVars, viewVars>>

Alerts == focus = "alerts" /\ Alerting!Next
  /\ UNCHANGED <<focus, settingVars, notificationVars, controlVars, clientVars>>
Sets == focus = "settings" /\ Setting!Next
  /\ UNCHANGED <<focus, alertVars, notificationVars, controlVars, clientVars>>
Notifies == focus = "notification" /\ Notifying!Next
  /\ UNCHANGED <<focus, operatorVars, controlVars, clientVars>>
Controls == focus = "control" /\ Controlling!Next
  /\ UNCHANGED <<focus, operatorVars, notificationVars, clientVars>>
SharesSession == focus = "session" /\ SharingSession!Next
  /\ UNCHANGED <<focus, operatorVars, notificationVars, controlVars, viewVars>>
Views == focus = "views" /\ Viewing!Next
  /\ UNCHANGED <<focus, operatorVars, notificationVars, controlVars, sessionVars>>
MCNext == Alerts \/ Sets \/ Notifies \/ Controls \/ SharesSession \/ Views
MCSpec ==
  MCInit /\ [][MCNext]_<<focus, operatorVars, notificationVars, controlVars, clientVars>>

\* The state of the part that takes steps is well typed.
TypeOK ==
  /\ focus = "alerts" => Alerting!TypeOK
  /\ focus = "settings" => Setting!TypeOK
  /\ focus = "notification" => Notifying!TypeOK
  /\ focus = "control" => Controlling!TypeOK
  /\ focus = "session" => SharingSession!TypeOK
  /\ focus = "views" => Viewing!TypeOK
\* A save replaces what its author saw (AlertConfig), and an update of the profile
\* changes only what it names (RunnerSettings).
EditsAreSeen ==
  [][/\ focus = "alerts" => Alerting!ReplacesWhatWasSeen
     /\ focus = "settings" => Setting!KeepsUnnamed]_operatorVars
\* The alert services load nothing older than the saves under way (AlertConfig), and the
\* last account stays enabled (RunnerSettings).
SettingsHold ==
  /\ focus = "alerts" => Alerting!FilesFollow
  /\ focus = "settings" => Setting!AccountsRemain
\* An active run keeps the notification target, and a cleaned up file stays away
\* (NotificationTarget).
TargetFollows ==
  focus = "notification" => Notifying!ActiveIsServed /\ Notifying!FilesScoped
\* The engine heeds a pause, goes back to no older profile and leaves a status that says
\* stopped (RunnerControl).
ControlFollows ==
  [][focus = "control" =>
       Controlling!PauseIsHeeded /\ Controlling!ConfigAdvances /\ Controlling!StoppedIsShown]_controlVars
\* A session that several requests share stays usable and is given back
\* (CustomerSession).
SessionsHold ==
  focus = "session" => SharingSession!HeldIsLive /\ SharingSession!ClosedIsRevoked
\* Guarded views of the console do not go back, their flag stands for one load, and views
\* that are not polled show what the server has (ConsoleViews).
ViewsAdvance ==
  [][focus = "views" =>
       Viewing!GuardedAdvances /\ Viewing!BusyStandsForLoad' /\ Viewing!UnpolledIsCurrent']_viewVars
=============================================================================
