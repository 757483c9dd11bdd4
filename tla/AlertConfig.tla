------------------------------ MODULE AlertConfig ------------------------------
\* The alert configuration (traffic-control-plane/src/lib/alert-config.ts and the
\* routes under app/internal/alerts): rules and receivers in the database under one
\* version, the two files rendered from them, and the services that load the files.
\* Of the receivers only a password is kept; groups, routes and the text of rules
\* are left out, and what names a rule stands for its definition.
EXTENDS Integers, Sequences, FiniteSets

CONSTANTS
  Operator,             \* requests of the console, one after the other each
  SourceEditor,         \* those of them that may edit the source instead of the form
  Rule,                 \* names of rules
  Source,               \* the rules of the YAML file of the image, in its order
  MaxVersion            \* bound on the saves

VARIABLES
  version, rules, password,     \* alert_config_meta, alert_rule, alert_receiver
  draft,                \* per operator: the request and what it has read
  temporary, file,      \* by service: version in the temporary and in the live file
  served,               \* by service: version that it has loaded
  saved                 \* history: the rules of each version as they were saved

vars == <<version, rules, password, draft, temporary, file, served, saved>>

Service == {"Prometheus", "Alertmanager"}
SourceRules == {Source[i] : i \in 1..Len(Source)}
Blank == [pc |-> "idle", goal |-> "form", from |-> "config", next |-> 1, version |-> 0, seen |-> {},
          rules |-> {}, keeps |-> TRUE, current |-> 0, secret |-> 0, written |-> 0,
          beside |-> {}, todo |-> <<>>]

TypeOK ==
  /\ version \in 1..MaxVersion /\ rules \subseteq Rule /\ password \in 0..version
  /\ file \in [Service -> 0..version] /\ served \in [Service -> 0..version]
  /\ temporary \in [Service -> -1..version]
  /\ Len(saved) = version
  /\ \A o \in Operator : draft[o].written <= version /\ draft[o].current <= version

\* The tables have been created and are empty but for version 1; the files are those
\* of the image.
Init ==
  /\ version = 1 /\ rules = {} /\ password = 0
  /\ draft = [o \in Operator |-> Blank]
  /\ temporary = [k \in Service |-> -1]
  /\ file = [k \in Service |-> 0] /\ served = [k \in Service |-> 0]
  /\ saved = <<{}>>

Asks(o, k) == draft[o].pc = k

-----------------------------------------------------------------------------
\* loadAlertConfig, by the console for a form (goal "form") and twice by every save:
\* for the version (goal "save") and for the stored password (goal "secret").

Requests(o, from) ==
  /\ draft[o].pc \in {"idle", "saved"} /\ version < MaxVersion
  /\ from = "source" => o \in SourceEditor
  /\ draft' = [draft EXCEPT ![o] = [Blank EXCEPT !.pc = "counting", !.from = from]]
  /\ UNCHANGED <<version, rules, password, temporary, file, served, saved>>

AfterImport(goal) == IF goal = "secret" THEN "content" ELSE "version"

\* The source YAML is imported whenever the table is found empty.
CountsRules(o) ==
  /\ Asks(o, "counting")
  /\ draft' = [draft EXCEPT ![o].pc = IF rules = {} THEN "importing" ELSE AfterImport(draft[o].goal)]
  /\ UNCHANGED <<version, rules, password, temporary, file, served, saved>>

\* One statement per rule; a rule that is there already ends the import by an error.
ImportsRule(o) ==
  /\ Asks(o, "importing")
  /\ LET next == draft[o].next
         more == next <= Len(Source) /\ Source[next] \notin rules
     IN IF more
        THEN /\ rules' = rules \cup {Source[next]}
             /\ draft' = [draft EXCEPT ![o].next = next + 1]
        ELSE /\ draft' = [draft EXCEPT ![o].pc = AfterImport(draft[o].goal), ![o].next = 1]
             /\ UNCHANGED rules
  /\ UNCHANGED <<version, password, temporary, file, served, saved>>

\* The three queries of a load are not one transaction: the version comes first.
ReadsVersion(o) ==
  /\ Asks(o, "version")
  /\ draft' = [draft EXCEPT ![o] =
       IF @.goal = "form" THEN [@ EXCEPT !.pc = "content", !.version = version]
       ELSE [@ EXCEPT !.pc = "counting", !.goal = "secret", !.current = version]]
  /\ UNCHANGED <<version, rules, password, temporary, file, served, saved>>

\* What loadAlertSource finds in the live file, or in that of the image.
InFile == IF file["Prometheus"] = 0 THEN SourceRules ELSE saved[file["Prometheus"]]

ReadsContent(o) ==
  /\ Asks(o, "content")
  /\ draft' = [draft EXCEPT ![o] =
       IF @.goal = "secret" THEN [@ EXCEPT !.pc = "checking", !.secret = password]
       ELSE [@ EXCEPT !.pc = "form", !.seen = IF draft[o].from = "source" THEN InFile ELSE rules]]
  /\ UNCHANGED <<version, rules, password, temporary, file, served, saved>>

-----------------------------------------------------------------------------
\* saveAlertConfig and saveAlertSource.

\* The operator adds or removes a rule, or gives a new password; the source of the
\* rules has no password and may not be empty.
Edits(o, edited, keeps) ==
  /\ Asks(o, "form")
  /\ keeps <=> edited # draft[o].seen
  /\ draft[o].from = "source" => edited # {} /\ keeps
  /\ draft' = [draft EXCEPT ![o].pc = "counting", ![o].goal = "save",
                            ![o].rules = edited, ![o].keeps = keeps]
  /\ UNCHANGED <<version, rules, password, temporary, file, served, saved>>

Renders == <<<<"fill", "Prometheus">>, <<"move", "Prometheus">>,
             <<"fill", "Alertmanager">>, <<"move", "Alertmanager">>,
             <<"reload", "Prometheus">>, <<"reload", "Alertmanager">>>>

\* A saved source is written as it is over the file rendered from it.
Remaining(from) ==
  IF from = "source"
  THEN Renders \o <<<<"fill", "Prometheus">>, <<"move", "Prometheus">>, <<"reload", "Prometheus">>>>
  ELSE Renders

UpToDate(d) == d.version = d.current /\ d.version = version

GivesUp(o) == draft' = [draft EXCEPT ![o] = Blank]

\* A conflict, or a statement of the transaction fails: the request leaves nothing. A
\* read that fails before is the same.
Refused(o) ==
  /\ Asks(o, "checking")
  /\ GivesUp(o)
  /\ UNCHANGED <<version, rules, password, temporary, file, served, saved>>

\* The transaction: the version is compared and counted, everything else replaced.
Commits(o) ==
  LET d == draft[o]
      rendering == {t \in Operator \ {o} : draft[t].todo # <<>>}
      beside == {draft[t].written : t \in rendering}
  IN /\ Asks(o, "checking") /\ UpToDate(d) /\ version < MaxVersion
     /\ version' = version + 1
     /\ rules' = d.rules
     /\ password' = IF d.keeps THEN d.secret ELSE version + 1
     /\ saved' = Append(saved, d.rules)
     /\ draft' = [draft EXCEPT ![o] =
          [Blank EXCEPT !.pc = "rendering", !.written = version + 1, !.beside = beside,
                        !.todo = Remaining(d.from)]]
     /\ UNCHANGED <<temporary, file, served>>

\* renderAndReload, after the commit and under no lock. The name of a temporary file
\* has the process in it, not the request: a second save fills or moves the same one.
Step(o, does, k) == Asks(o, "rendering") /\ Head(draft[o].todo) = <<does, k>>

Proceeds(o) ==
  draft' = [draft EXCEPT ![o].todo = Tail(@),
                         ![o].pc = IF Len(draft[o].todo) = 1 THEN "saved" ELSE @]

\* Defect: a temporary file that is there already is left as it is.
FillsNew(o, k) ==
  /\ Step(o, "fill", k)
  /\ temporary' = [temporary EXCEPT ![k] = IF @ = -1 THEN draft[o].written ELSE @]
  /\ Proceeds(o)
  /\ UNCHANGED <<version, rules, password, file, served, saved>>

Fills(o, k) ==
  /\ Step(o, "fill", k)
  /\ temporary' = [temporary EXCEPT ![k] = draft[o].written]
  /\ Proceeds(o)
  /\ UNCHANGED <<version, rules, password, file, served, saved>>

Moves(o, k) ==
  /\ Step(o, "move", k) /\ temporary[k] # -1
  /\ file' = [file EXCEPT ![k] = temporary[k]]
  /\ temporary' = [temporary EXCEPT ![k] = -1]
  /\ Proceeds(o)
  /\ UNCHANGED <<version, rules, password, served, saved>>

Reloads(o, k) ==
  /\ Step(o, "reload", k)
  /\ served' = [served EXCEPT ![k] = file[k]]
  /\ Proceeds(o)
  /\ UNCHANGED <<version, rules, password, temporary, file, saved>>

\* The file that was to be moved is gone: another save has moved it.
MoveFails(o, k) ==
  /\ Step(o, "move", k) /\ temporary[k] = -1
  /\ GivesUp(o)
  /\ UNCHANGED <<version, rules, password, temporary, file, served, saved>>

\* A write or reload fails, a reload perhaps by its lost answer: the caller gets an
\* error, and the new version stays.
RenderFails(o) ==
  /\ Asks(o, "rendering")
  /\ \/ UNCHANGED served
     \/ \E k \in Service : Step(o, "reload", k) /\ served' = [served EXCEPT ![k] = file[k]]
  /\ GivesUp(o)
  /\ UNCHANGED <<version, rules, password, temporary, file, saved>>

OperatorStep(o) ==
  \/ \E from \in {"config", "source"} : Requests(o, from)
  \/ CountsRules(o) \/ ImportsRule(o) \/ ReadsVersion(o) \/ ReadsContent(o)
  \/ \E r \in Rule :
       \/ Edits(o, draft[o].seen \cup {r}, TRUE)
       \/ Edits(o, draft[o].seen \ {r}, TRUE)
  \/ Edits(o, draft[o].seen, FALSE)
  \/ Refused(o) \/ Commits(o) \/ RenderFails(o)
  \/ \E k \in Service : Fills(o, k) \/ Moves(o, k) \/ MoveFails(o, k) \/ Reloads(o, k)

Next == \E o \in Operator : OperatorStep(o)
Spec == Init /\ [][Next]_vars

-----------------------------------------------------------------------------
\* A save from the form replaces what its author saw: every rule in the table was in
\* the form, unless it was imported since, and every rule of the form is in the table;
\* a password that it does not give remains. (A save of the source is not that safe.)
ReplacesWhatWasSeen ==
  \A o \in Operator :
    Asks(o, "checking") /\ draft'[o].pc = "rendering" =>
      /\ draft[o].keeps => password' = password
      /\ draft[o].from = "config" =>
           draft[o].seen \subseteq rules /\ rules \ draft[o].seen \subseteq SourceRules

\* A save that has succeeded leaves both files and both services at its own version, at
\* that of a save that was rendering when it committed, or at a later one: saves that
\* overlap may overtake each other, but nothing older comes back, be it left in a
\* temporary file by a save that failed; and one that nothing overlaps leaves its own.
FilesFollow ==
  \A o \in Operator : Asks(o, "saved") =>
    \A k \in Service :
      {file[k], served[k]} \subseteq draft[o].beside \cup draft[o].written..version
=============================================================================
