------------------------ MODULE ProviderSwitch_proofs ------------------------
(***************************************************************************)
(* For any providers, models, turns and bounds: the executor follows the    *)
(* catalog, the calls use the choice, the workers of replaced clients stop, *)
(* and a restart finds what was saved.                                      *)
(***************************************************************************)
EXTENDS ProviderSwitch, TLAPS

\* The choice that the catalog makes.
Now == ChoiceOf(active, rows, secrets)

CtlPlaces == {"idle", "openSecrets", "writeSecrets", "openCatalog", "writeCatalog",
              "compare"} \cup Configuring
TurnPlaces == {"idle", "build", "send", "wait", "call"} \cup Selecting

\* The places of the control thread at which the executor is as it was.
Before == {"idle", "openSecrets", "writeSecrets", "openCatalog", "writeCatalog", "compare",
           "stop", "client"}

\* What is being configured is the choice of the catalog, and has a model.
ChoiceTaken == ctl.pc \in Configuring => ctl.choice = Now /\ Usable(ctl.choice)

\* A turn that is about to use a client has hold of one.
ClientNamed ==
  \A t \in Turns : turn[t].pc \in {"wait", "call", "stop", "client"}
                     => turn[t].client \in ClientIds

Typed == TypeOK /\ ChoiceTaken /\ ClientNamed

\* The control thread configures, or turns select, but not both.
Apart == ctl.pc \notin Configuring \/ \A t \in Turns : turn[t].pc \notin Selecting

\* The fields of the executor agree with each other, and with the last choice or,
\* one after the other, with the next.
InForce ==
  /\ ctl.pc \in Before => clients[current] = setting /\ setting = applied.setting
  /\ ctl.pc # "select" => model = applied.model
  /\ candidate = NewCandidate(applied)
  /\ ctl.pc \in {"stop", "client"} => ctl.old = current
  /\ ctl.pc \notin Before => clients[current] = ctl.choice.setting
  /\ ctl.pc = "link" => setting.provider = ctl.choice.setting.provider
  /\ ctl.pc \in {"model", "select"} => setting = ctl.choice.setting
  /\ ctl.pc = "select" => model = ctl.choice.model

\* A turn that selects finds the last choice, and replaces no client.
SelectsChoice ==
  \A t \in Turns :
    turn[t].pc \in Selecting => /\ turn[t].pc \in {"compare", "model"}
                                /\ turn[t].provider = applied.setting.provider
                                /\ turn[t].model = applied.model

\* Only the current client has a worker, or one that was called when it was no
\* longer, or was about not to be, the current one.
Workers ==
  /\ live \subseteq {current} \cup revived
  /\ ctl.pc = "client" /\ current \in live => current \in revived

\* What a turn made up after the last choice, it sends with that choice.
FreshCalls ==
  \A t \in fresh :
    /\ turn[t].pc \in {"send", "wait"} => turn[t].model = applied.model
    /\ turn[t].pc = "wait" => clients[turn[t].client] = applied.setting

\* What holds as long as no choice was applied while a turn was selecting.
Unraced == ~raced => Apart /\ InForce /\ SelectsChoice /\ Workers /\ FreshCalls

\* A choice that comes makes up the calls anew.
NoneFresh == ctl.pc \in Configuring => fresh = {}

\* When no request is served, the last choice is that of the catalog.
Applied == ctl.pc = "idle" /\ "refused" \notin lost /\ Usable(Now) => applied = Now

ExecutorInv == Unraced /\ NoneFresh /\ Applied

\* Loading a row that was saved gives the row again.
Normal == "refused" \notin lost => \A p \in Providers : LoadedRow(p, rows[p]) = rows[p]

LoadsNow == catalogFile.active = active /\ LoadedRows = rows
LoadsAcked == catalogFile.active = acked.active /\ LoadedRows = acked.rows

\* Unless a save of them was lost, the file has the secrets, those of the last
\* answered request while the one that changes them is not saved.
SavedSecrets ==
  "secrets" \notin lost =>
    /\ ctl.pc \notin {"openSecrets", "writeSecrets"} => secretFile = secrets
    /\ ctl.pc = "openSecrets" => secretFile = acked.secrets

\* The same for the catalog; a request that changes it changes no secret.
SavedCatalog ==
  "catalog" \notin lost /\ "refused" \notin lost =>
    /\ ctl.pc \notin {"openCatalog", "writeCatalog"} => LoadsNow
    /\ ctl.pc = "openCatalog" => LoadsNow \/ (LoadsAcked /\ acked.secrets = secrets)

\* An answered request left the catalog as it is, until another changes it.
Acks ==
  ctl.pc \in {"idle", "openSecrets"} =>
    /\ acked.active = active
    /\ "refused" \notin lost => acked.rows = rows
    /\ ctl.pc = "idle" => acked.secrets = secrets

FilesInv == Normal /\ SavedSecrets /\ SavedCatalog /\ Acks

IInv == Typed /\ ExecutorInv /\ FilesInv

-----------------------------------------------------------------------------
(* The operators on rows and choices                                        *)

LEMMA NoModeIsNone == NoMode \notin Modes
BY DEF NoMode, Modes

LEMMA DefaultsTyped ==
  /\ DefaultRows \in [Providers -> Row]
  /\ DefaultChoice \in Choice /\ DefaultChoice.model \in Models
  /\ NoSecrets \in [Providers -> Secrets \cup {NoSecret}]
<1>1. \A p \in Providers : DefaultRow(p) \in Row
  BY DEF DefaultRow, Row, Modes
<1>2. DefaultChoice \in Choice /\ DefaultChoice.model \in Models
  BY ConstantsAssumption DEF DefaultChoice, Choice, Setting
<1> QED BY <1>1, <1>2 DEF DefaultRows, NoSecrets

\* Loading keeps a row a row, and loading what was loaded changes nothing.
LEMMA LoadingTyped ==
  ASSUME NEW p, NEW row \in Row
  PROVE  /\ LoadedRow(p, row) \in Row
         /\ LoadedRow(p, LoadedRow(p, row)) = LoadedRow(p, row)
BY DEF LoadedRow, Row, Modes

LEMMA ChoiceTyped ==
  ASSUME NEW act \in Providers, NEW rs \in [Providers -> Row],
         NEW ss \in [Providers -> Secrets \cup {NoSecret}]
  PROVE  /\ ChoiceOf(act, rs, ss) \in Choice
         /\ Usable(ChoiceOf(act, rs, ss)) => ChoiceOf(act, rs, ss).model \in Models
         /\ StartChoice(act, rs, ss) \in Choice /\ StartChoice(act, rs, ss).model \in Models
<1>1. rs[act] \in Row /\ ss[act] \in Secrets \cup {NoSecret}
  OBVIOUS
<1>2. /\ rs[act].url \in Urls \cup {NoUrl} /\ rs[act].mode \in Modes \cup {NoMode}
      /\ rs[act].model \in Models \cup {NoModel}
  BY <1>1 DEF Row
<1>3. [provider |-> act, url |-> rs[act].url, mode |-> rs[act].mode, secret |-> ss[act]]
        \in Setting
  BY <1>1, <1>2 DEF Setting
<1>4. ChoiceOf(act, rs, ss) \in Choice /\ ChoiceOf(act, rs, ss).model = rs[act].model
  BY <1>2, <1>3 DEF ChoiceOf, Choice
<1> QED BY <1>2, <1>4, DefaultsTyped DEF StartChoice, Usable

\* The mode of a connection is one, and is the one that loading keeps.
LEMMA ConnectionTyped ==
  ASSUME rows \in [Providers -> Row], NEW p \in Providers,
         NEW url \in Urls \cup {NoUrl}, NEW mode \in Modes \cup {NoMode}
  PROVE  LET row == [rows[p] EXCEPT !.url = url, !.mode = ConnectionMode(p, url, mode)]
         IN  row \in Row /\ LoadedRow(p, row) = row
<1>1. ConnectionMode(p, url, mode) \in Modes
  BY DEF ConnectionMode, Row, Modes, NoMode
<1>2. p = Gateway /\ url # NoUrl => ConnectionMode(p, url, mode) # "litellm_sdk"
  BY DEF ConnectionMode, Modes, NoMode
<1> QED BY <1>1, <1>2 DEF Row, LoadedRow

-----------------------------------------------------------------------------
(* The shape of the steps                                                   *)

\* A request changes secrets, and is to save them first, or the rest of the catalog;
\* only one that is refused leaves a row that loading changes.
LEMMA AcceptSteps ==
  ASSUME TypeOK, Accept
  PROVE  /\ active' \in Providers /\ rows' \in [Providers -> Row]
         /\ secrets' \in [Providers -> Secrets \cup {NoSecret}]
         /\ \/ Request("openCatalog") /\ secrets' = secrets /\ lost' = lost
            \/ Request("openSecrets") /\ active' = active /\ rows' = rows /\ lost' = lost
            \/ /\ Request("idle") /\ active' = active /\ secrets' = secrets
               /\ lost' = lost \cup {"refused"}
         /\ Normal => Normal'
<1> USE DEF TypeOK
<1>0. \A p \in Providers : rows[p] \in Row
  OBVIOUS
<1>1. ASSUME NEW p \in Providers, SetActiveProvider(p) \/ RemoveSecret(p)
      PROVE  /\ active' \in Providers /\ rows' = rows
             /\ secrets' \in [Providers -> Secrets \cup {NoSecret}] /\ lost' = lost
             /\ \/ Request("openCatalog") /\ secrets' = secrets
                \/ Request("openSecrets") /\ active' = active
  BY <1>1 DEF SetActiveProvider, RemoveSecret
<1>2. ASSUME NEW p \in Providers, NEW s \in Secrets, SetSecret(p, s)
      PROVE  /\ active' = active /\ rows' = rows /\ lost' = lost /\ Request("openSecrets")
             /\ secrets' \in [Providers -> Secrets \cup {NoSecret}]
  BY <1>2 DEF SetSecret
<1>3. ASSUME NEW p \in Providers, NEW m \in Models, SetActiveModel(p, m) \/ RefreshModels(p, m)
      PROVE  /\ UNCHANGED <<active, secrets, lost>> /\ Request("openCatalog")
             /\ rows' \in [Providers -> Row]
             /\ Normal => Normal'
  <2>1. /\ UNCHANGED <<active, secrets, lost>> /\ Request("openCatalog")
        /\ \E n \in Models \cup {NoModel} : rows' = [rows EXCEPT ![p].model = n]
    <3>1. CASE SetActiveModel(p, m)
      BY <3>1 DEF SetActiveModel
    <3>2. CASE RefreshModels(p, m)
      <4>1. rows[p].model \in Models \cup {NoModel}
        BY <1>0 DEF Row
      <4> QED BY <3>2, <4>1 DEF RefreshModels
    <3> QED BY <1>3, <3>1, <3>2
  <2>2. PICK n \in Models \cup {NoModel} : rows' = [rows EXCEPT ![p].model = n]
    BY <2>1
  <2>3. rows' \in [Providers -> Row]
    BY <2>2, <1>0 DEF Row
  <2>4. \A q \in Providers : rows'[q] = [rows[q] EXCEPT !.model = rows'[q].model]
    <3> TAKE q \in Providers
    <3>1. CASE q = p
      BY <2>2, <3>1, <1>0 DEF Row
    <3>2. CASE q # p
      BY <2>2, <3>2, <1>0 DEF Row
    <3> QED BY <3>1, <3>2
  <2>5. ASSUME NEW q \in Providers, LoadedRow(q, rows[q]) = rows[q]
        PROVE  LoadedRow(q, rows'[q]) = rows'[q]
    <3>1. rows'[q].url = rows[q].url /\ rows'[q].mode = rows[q].mode
      BY <2>4, <1>0 DEF Row
    <3>2. rows'[q] \in Row /\ rows[q] \in Row
      BY <2>3, <1>0
    <3> QED BY <3>1, <3>2, <2>5 DEF LoadedRow, Row
  <2> QED BY <2>1, <2>3, <2>5 DEF Normal
<1>4. ASSUME NEW p \in Providers, NEW url \in Urls \cup {NoUrl}, NEW mode \in Modes \cup {NoMode},
             SetConnection(p, url, mode)
      PROVE  /\ UNCHANGED <<active, secrets, lost>> /\ Request("openCatalog")
             /\ rows' \in [Providers -> Row]
             /\ Normal => Normal'
  <2> DEFINE row == [rows[p] EXCEPT !.url = url, !.mode = ConnectionMode(p, url, mode)]
  <2>1. row \in Row /\ LoadedRow(p, row) = row
    BY ConnectionTyped
  <2>2. rows' = [rows EXCEPT ![p] = row]
    BY <1>4 DEF SetConnection
  <2>3. UNCHANGED <<active, secrets, lost>> /\ Request("openCatalog")
    BY <1>4 DEF SetConnection
  <2> HIDE DEF row
  <2>4. rows' \in [Providers -> Row]
        /\ \A q \in Providers : rows'[q] = IF q = p THEN row ELSE rows[q]
    BY <2>1, <2>2
  <2> QED BY <2>1, <2>3, <2>4 DEF Normal
<1>5. ASSUME NEW p \in Providers, NEW url \in Urls \cup {NoUrl}, RefuseConnection(p, url)
      PROVE  /\ active' = active /\ secrets' = secrets /\ Request("idle")
             /\ lost' = lost \cup {"refused"} /\ rows' \in [Providers -> Row]
  BY <1>5, <1>0 DEF RefuseConnection, Row
<1>6. CASE SetOther
  BY <1>6 DEF SetOther, Normal
<1>7. CASE \E p \in Providers : SetActiveProvider(p) \/ RemoveSecret(p)
  BY <1>7, <1>1 DEF Normal
<1>8. CASE \E p \in Providers : \E s \in Secrets : SetSecret(p, s)
  BY <1>8, <1>2 DEF Normal
<1>9. CASE \E p \in Providers : \E m \in Models : SetActiveModel(p, m) \/ RefreshModels(p, m)
  BY <1>9, <1>3
<1>10. CASE \E p \in Providers : \E url \in Urls \cup {NoUrl} : RefuseConnection(p, url)
  BY <1>10, <1>5 DEF Normal
<1>11. CASE \E p \in Providers : \E url \in Urls \cup {NoUrl} :
              \E mode \in Modes \cup {NoMode} : SetConnection(p, url, mode)
  BY <1>11, <1>4
<1> QED BY <1>6, <1>7, <1>8, <1>9, <1>10, <1>11 DEF Accept

\* A save leaves the catalog and the executor alone.
LEMMA SaveSteps ==
  ASSUME TypeOK, Save
  PROVE  /\ UNCHANGED <<catalog, executor, turn, requests, calls, crashes, applied, acked,
                        raced, fresh, settled, revived>>
         /\ ctl' = [ctl EXCEPT !.pc = ctl'.pc]
         /\ ctl.pc \in CtlPlaces \ (Configuring \cup {"idle", "compare"})
         /\ ctl'.pc \in CtlPlaces \ (Configuring \cup {"idle"})
         /\ lost' \subseteq {"catalog", "secrets", "refused"}
         /\ "refused" \in lost' <=> "refused" \in lost
<1> USE DEF TypeOK, SaveStep, CtlPlaces, Configuring
<1>1. CASE OpenSecrets
  BY <1>1 DEF OpenSecrets
<1>2. CASE WriteSecrets
  BY <1>2 DEF WriteSecrets
<1>3. CASE OpenCatalog
  BY <1>3 DEF OpenCatalog
<1>4. CASE WriteCatalog
  BY <1>4 DEF WriteCatalog
<1>5. CASE SaveFails
  <2>1. CASE SaveStep("openSecrets", "openCatalog") \/ SaveStep("writeSecrets", "openCatalog")
    BY <1>5, <2>1 DEF SaveFails
  <2>2. CASE SaveStep("openCatalog", "compare") \/ SaveStep("writeCatalog", "compare")
    BY <1>5, <2>2 DEF SaveFails
  <2> QED BY <1>5, <2>1, <2>2 DEF SaveFails
<1> QED BY <1>1, <1>2, <1>3, <1>4, <1>5 DEF Save

\* A configuration leaves the catalog, the files and the turns alone.
LEMMA ConfigureSteps ==
  ASSUME TypeOK, Configure
  PROVE  /\ UNCHANGED <<catalog, files, turn, requests, calls, crashes, lost, revived>>
         /\ ctl.pc \in Configuring \cup {"compare"}
         /\ ctl'.pc \in Configuring \cup {"idle"}
BY DEF TypeOK, Configure, IgnoreChoice, CompareChoice, StopOld, ReplaceClient, SetName,
       SetLink, SetModel, RebuildSelection, ConfigureStep, Configuring, Answered

\* A client that is made is one more, and is the last.
LEMMA OneMore ==
  ASSUME clients \in Seq(Setting), NEW s \in Setting, clients' = Append(clients, s)
  PROVE  /\ clients' \in Seq(Setting)
         /\ Len(clients') \in ClientIds' /\ clients'[Len(clients')] = s
         /\ ClientIds \subseteq ClientIds' /\ 0..Len(clients) \subseteq 0..Len(clients')
         /\ Len(clients') \notin ClientIds
         /\ \A c \in ClientIds : clients'[c] = clients[c]
BY DEF ClientIds

-----------------------------------------------------------------------------
(* The types                                                                *)

\* A turn's record.
TurnRecord == [pc : TurnPlaces, provider : Providers, model : Models, client : 0..Len(clients)]

\* A step of a turn changes its own record, and leaves the catalog, the files and the
\* control thread alone.
LEMMA TurnSteps ==
  ASSUME TypeOK, ClientNamed, NEW t \in Turns, Select(t) \/ Turn(t)
  PROVE  /\ UNCHANGED <<catalog, files, ctl, requests, crashes, applied, acked, lost>>
         /\ turn' = [turn EXCEPT ![t] = turn'[t]] /\ turn'[t] \in TurnRecord
         /\ turn'[t].pc \in {"wait", "call", "stop", "client"} => turn'[t].client \in ClientIds
<1> DEFINE Goal == /\ turn' = [turn EXCEPT ![t] = turn'[t]] /\ turn'[t] \in TurnRecord
                   /\ turn'[t].pc \in {"wait", "call", "stop", "client"}
                        => turn'[t].client \in ClientIds
<1>1. UNCHANGED <<catalog, files, ctl, requests, crashes, applied, acked, lost>>
  BY DEF Turn, Select, Compare, StopSelected, ReplaceSelected, NameSelected, ModelSelected,
         Build, Send, Call, CallEnds, TurnStep
<1> SUFFICES Goal
  BY <1>1
<1>2. /\ turn \in [Turns -> TurnRecord] /\ turn[t] \in TurnRecord
      /\ current \in ClientIds /\ current \in 0..Len(clients)
      /\ candidate.provider \in Providers /\ candidate.model \in Models /\ model \in Models
      /\ turn[t].pc \in {"wait", "call", "stop", "client"} => turn[t].client \in ClientIds
  BY DEF TypeOK, ClientIds, TurnRecord, TurnPlaces, ClientNamed
<1>3. ASSUME NEW pc \in TurnPlaces, turn' = [turn EXCEPT ![t].pc = pc],
             \/ pc \notin {"wait", "call", "stop", "client"}
             \/ turn[t].pc \in {"wait", "call", "stop", "client"}
      PROVE  Goal
  BY <1>2, <1>3 DEF TurnRecord
<1>4. CASE Select(t)
  <2>1. turn' = [turn EXCEPT ![t].pc = "compare", ![t].provider = candidate.provider,
                             ![t].model = candidate.model]
    BY <1>4 DEF Select
  <2>2. "compare" \in TurnPlaces
    BY DEF TurnPlaces, Selecting
  <2>3. turn'[t].pc = "compare" /\ turn' = [turn EXCEPT ![t] = turn'[t]]
    BY <1>2, <2>1 DEF TurnRecord
  <2>4. turn'[t] \in TurnRecord
    BY <1>2, <2>1, <2>2 DEF TurnRecord
  <2> QED BY <2>3, <2>4
<1>5. CASE Compare(t)
  <2>1. CASE turn[t].provider = setting.provider
    <3>1. turn' = [turn EXCEPT ![t].pc = "model"] /\ "model" \in TurnPlaces
      BY <1>5, <2>1 DEF Compare, TurnPlaces, Selecting
    <3> QED BY <1>3, <3>1
  <2>2. CASE turn[t].provider # setting.provider
    <3>1. turn' = [turn EXCEPT ![t].pc = "stop", ![t].client = current]
      BY <1>5, <2>2 DEF Compare
    <3>2. "stop" \in TurnPlaces
      BY DEF TurnPlaces, Selecting
    <3>3. turn'[t].client = current /\ turn' = [turn EXCEPT ![t] = turn'[t]]
      BY <1>2, <3>1 DEF TurnRecord
    <3>4. turn'[t] \in TurnRecord
      BY <1>2, <3>1, <3>2 DEF TurnRecord
    <3> QED BY <1>2, <3>3, <3>4
  <2> QED BY <2>1, <2>2
<1>6. CASE StopSelected(t)
  <2>1. turn[t].pc = "stop" /\ turn' = [turn EXCEPT ![t].pc = "client"] /\ "client" \in TurnPlaces
    BY <1>6 DEF StopSelected, TurnStep, Go, TurnPlaces, Selecting
  <2> QED BY <1>3, <2>1
<1>7. CASE ReplaceSelected(t) \/ NameSelected(t) \/ ModelSelected(t) \/ CallEnds(t)
  <2>1. PICK pc \in {"name", "model", "build", "idle"} : turn' = [turn EXCEPT ![t].pc = pc]
    BY <1>7 DEF ReplaceSelected, NameSelected, ModelSelected, CallEnds, Go
  <2>2. pc \in TurnPlaces
    BY <2>1 DEF TurnPlaces, Selecting
  <2> QED BY <1>3, <2>1, <2>2
<1>8. CASE Build(t)
  <2>1. turn' = [turn EXCEPT ![t].pc = "send", ![t].model = model] /\ "send" \in TurnPlaces
    BY <1>8 DEF Build, TurnPlaces
  <2>2. turn'[t].pc = "send" /\ turn' = [turn EXCEPT ![t] = turn'[t]]
    BY <1>2, <2>1 DEF TurnRecord
  <2>3. turn'[t] \in TurnRecord
    BY <1>2, <2>1 DEF TurnRecord
  <2> QED BY <2>2, <2>3
<1>9. CASE Send(t)
  <2>1. turn' = [turn EXCEPT ![t].pc = "wait", ![t].client = current] /\ "wait" \in TurnPlaces
    BY <1>9 DEF Send, TurnPlaces
  <2>2. turn'[t].client = current /\ turn' = [turn EXCEPT ![t] = turn'[t]]
    BY <1>2, <2>1 DEF TurnRecord
  <2>3. turn'[t] \in TurnRecord
    BY <1>2, <2>1 DEF TurnRecord
  <2> QED BY <1>2, <2>2, <2>3
<1>10. CASE Call(t)
  <2>1. turn[t].pc = "wait" /\ turn' = [turn EXCEPT ![t].pc = "call"] /\ "call" \in TurnPlaces
    BY <1>10 DEF Call, TurnStep, Go, TurnPlaces
  <2> QED BY <1>3, <2>1
<1> QED BY <1>1, <1>4, <1>5, <1>6, <1>7, <1>8, <1>9, <1>10 DEF Turn

\* A process that starts is typed, and its only client is the current one.
LEMMA BootedTyped ==
  ASSUME NEW act \in Providers, NEW rs \in [Providers -> Row],
         NEW ss \in [Providers -> Secrets \cup {NoSecret}], Booted(act, rs, ss)
  PROVE  /\ active' = act /\ rows' = rs /\ secrets' = ss
         /\ ctl' \in [pc : {"idle"}, old : {0}, choice : Choice]
         /\ clients' \in Seq(Setting) /\ Len(clients') = 1 /\ current' = 1
         /\ live' = {} /\ revived' = {} /\ fresh' = {} /\ settled' = {} /\ lost' = {}
         /\ applied' = StartChoice(act, rs, ss) /\ applied' \in Choice /\ applied'.model \in Models
         /\ setting' = applied'.setting /\ model' = applied'.model
         /\ setting' \in Setting /\ model' \in Models
         /\ clients'[1] = setting' /\ candidate' = NewCandidate(applied')
         /\ candidate' \in [provider : Providers, model : Models]
         /\ turn' \in [Turns -> [pc : {"idle"}, provider : Providers, model : Models, client : {0}]]
         /\ acked' = [active |-> act, rows |-> rs, secrets |-> ss] /\ acked' \in Catalog
         /\ raced' = FALSE
<1> DEFINE choice == StartChoice(act, rs, ss)
<1>1. choice \in Choice /\ choice.model \in Models
  BY ChoiceTyped
<1>2. /\ active' = act /\ rows' = rs /\ secrets' = ss
      /\ ctl' = [pc |-> "idle", old |-> 0, choice |-> choice]
      /\ clients' = <<choice.setting>> /\ current' = 1
      /\ live' = {} /\ revived' = {} /\ fresh' = {} /\ settled' = {} /\ lost' = {}
      /\ applied' = choice /\ setting' = choice.setting /\ model' = choice.model
      /\ candidate' = NewCandidate(choice)
      /\ turn' = [t \in Turns |-> [pc |-> "idle", provider |-> DefaultProvider,
                                   model |-> DefaultModel, client |-> 0]]
      /\ acked' = [active |-> act, rows |-> rs, secrets |-> ss] /\ raced' = FALSE
  BY DEF Booted, NewCandidate
<1> HIDE DEF choice
<1>3. choice.setting \in Setting /\ choice.setting.provider \in Providers
  BY <1>1 DEF Choice, Setting
<1>4. clients' \in Seq(Setting) /\ Len(clients') = 1 /\ clients'[1] = choice.setting
  BY <1>2, <1>3
<1>5. candidate' \in [provider : Providers, model : Models]
  BY <1>1, <1>2, <1>3 DEF NewCandidate
<1>6. turn' \in [Turns -> [pc : {"idle"}, provider : Providers, model : Models, client : {0}]]
  BY <1>2, ConstantsAssumption
<1>7. acked' \in Catalog
  BY <1>2 DEF Catalog
<1>8. ctl' \in [pc : {"idle"}, old : {0}, choice : Choice]
  BY <1>1, <1>2
<1>9. choice = StartChoice(act, rs, ss)
  BY DEF choice
<1> QED BY <1>1, <1>2, <1>3, <1>4, <1>5, <1>6, <1>7, <1>8, <1>9

\* Every request, and every save, keeps the types.
LEMMA CatalogTyped == ASSUME Typed, Accept \/ Save PROVE Typed'
<1> USE DEF Typed
<1>1. ClientNamed' /\ ChoiceTaken'
  <2>1. ctl'.pc \notin Configuring
    <3>1. CASE Accept
      BY <3>1, AcceptSteps DEF Request, TypeOK, Configuring
    <3>2. CASE Save
      BY <3>2, SaveSteps
    <3> QED BY <3>1, <3>2
  <2>2. UNCHANGED <<turn, clients>>
    <3>1. CASE Accept
      BY <3>1, AcceptSteps DEF Request, executor
    <3>2. CASE Save
      BY <3>2, SaveSteps DEF executor
    <3> QED BY <3>1, <3>2
  <2> QED BY <2>1, <2>2 DEF ClientNamed, ChoiceTaken, ClientIds
<1>2. CASE Accept
  <2>1. PICK next \in {"openCatalog", "openSecrets", "idle"} : Request(next)
    BY <1>2, AcceptSteps
  <2>2. ctl' = [ctl EXCEPT !.pc = next] /\ ctl'.old = ctl.old /\ ctl'.choice = ctl.choice
    BY <2>1 DEF Request, TypeOK
  <2>3. requests' \in 0..MaxRequests
    BY <2>1, ConstantsAssumption DEF Request, TypeOK
  <2>4. /\ active' \in Providers /\ rows' \in [Providers -> Row]
        /\ secrets' \in [Providers -> Secrets \cup {NoSecret}]
        /\ lost' \subseteq {"catalog", "secrets", "refused"}
    BY <1>2, AcceptSteps DEF TypeOK
  <2>5. UNCHANGED <<files, executor, turn, calls, crashes, applied, acked, raced, fresh,
                    settled, revived>>
    BY <2>1 DEF Request
  <2>6. ctl' \in [pc : {"idle", "openSecrets", "writeSecrets", "openCatalog",
                        "writeCatalog", "compare"} \cup Configuring,
                  old : 0..Len(clients), choice : Choice]
    BY <2>2 DEF TypeOK
  <2> QED BY <1>1, <2>3, <2>4, <2>5, <2>6 DEF TypeOK, files, executor, ClientIds
<1>3. CASE Save
  <2>1. catalogFile' \in [active : Providers, rows : [Providers -> Row]]
        /\ secretFile' \in [Providers -> Secrets \cup {NoSecret}]
    BY <1>3, ConstantsAssumption, DefaultsTyped
    DEF Save, OpenSecrets, WriteSecrets, OpenCatalog, WriteCatalog, SaveFails, files,
        Unreadable, TypeOK
  <2>2. ctl' \in [pc : {"idle", "openSecrets", "writeSecrets", "openCatalog",
                        "writeCatalog", "compare"} \cup Configuring,
                  old : 0..Len(clients), choice : Choice]
    BY <1>3, SaveSteps DEF TypeOK, CtlPlaces
  <2>3. /\ UNCHANGED <<catalog, executor, turn, requests, calls, crashes, applied, acked,
                       raced, fresh, settled, revived>>
        /\ lost' \subseteq {"catalog", "secrets", "refused"}
    BY <1>3, SaveSteps
  <2> QED BY <1>1, <2>1, <2>2, <2>3 DEF TypeOK, catalog, executor, ClientIds
<1> QED BY <1>2, <1>3

\* Every step of a configuration keeps the types.
LEMMA ConfigureTyped == ASSUME Typed, Configure PROVE Typed'
<1> USE DEF Typed
<1> DEFINE Ctls == [pc : {"idle", "openSecrets", "writeSecrets", "openCatalog",
                          "writeCatalog", "compare"} \cup Configuring,
                    old : 0..Len(clients), choice : Choice]
<1>0. /\ Now \in Choice /\ (Usable(Now) => Now.model \in Models)
      /\ CatalogNow \in Catalog /\ Now' = Now /\ CatalogNow' = CatalogNow
  <2>1. UNCHANGED <<active, rows, secrets>>
    BY ConfigureSteps DEF catalog
  <2> QED BY <2>1, ChoiceTyped DEF TypeOK, Now, CatalogNow, Catalog
<1>1. UNCHANGED <<catalog, files, turn, requests, calls, crashes, lost, revived>>
  BY ConfigureSteps
<1>2. ctl.choice \in Choice /\ ctl.choice.setting \in Setting /\ ctl.old \in 0..Len(clients)
      /\ current \in 0..Len(clients) /\ setting \in Setting
  BY DEF TypeOK, Choice, ClientIds
<1>3. ASSUME clients' = clients, ctl' \in Ctls, ChoiceTaken',
             live' \subseteq ClientIds, current' = current, setting' \in Setting,
             model' \in Models, candidate' \in [provider : Providers, model : Models],
             applied' \in Choice, acked' \in Catalog, raced' \in BOOLEAN,
             fresh' \subseteq Turns, settled' \subseteq Turns
      PROVE  Typed'
  <2>1. ClientNamed'
    BY <1>1, <1>3 DEF ClientNamed, ClientIds
  <2> QED BY <1>1, <1>3, <2>1 DEF TypeOK, ClientIds, catalog, files
<1>4. CASE IgnoreChoice
  <2>1. ctl' \in Ctls /\ ctl'.pc = "idle" /\ acked' = CatalogNow
    BY <1>2, <1>4 DEF IgnoreChoice, Answered
  <2>2. ChoiceTaken'
    BY <2>1 DEF ChoiceTaken, Configuring
  <2> QED BY <1>0, <1>3, <1>4, <2>1, <2>2 DEF IgnoreChoice, executor, TypeOK
<1>5. CASE CompareChoice
  <2>1. ctl' = IF Differs(Now) THEN [pc |-> "stop", old |-> current, choice |-> Now]
               ELSE [pc |-> "model", old |-> 0, choice |-> Now]
    BY <1>5 DEF CompareChoice, Now
  <2>2. ctl' \in Ctls /\ ctl'.choice = Now
    <3>1. CASE Differs(Now)
      BY <1>0, <1>2, <2>1, <3>1 DEF Configuring
    <3>2. CASE ~Differs(Now)
      BY <1>0, <1>2, <2>1, <3>2 DEF Configuring
    <3> QED BY <3>1, <3>2
  <2>3. ChoiceTaken'
    BY <1>0, <1>5, <2>2 DEF ChoiceTaken, CompareChoice, Now, Usable
  <2>4. raced' \in BOOLEAN /\ fresh' = {} /\ settled' = {}
    BY <1>5 DEF CompareChoice, TypeOK
  <2> HIDE DEF Ctls
  <2> QED BY <1>3, <1>5, <2>2, <2>3, <2>4 DEF CompareChoice, executor, TypeOK
<1>6. ASSUME NEW pc \in Configuring, ctl.pc \in Configuring, ctl' = [ctl EXCEPT !.pc = pc]
      PROVE  ctl' \in Ctls /\ ChoiceTaken'
  <2>1. ctl'.choice = ctl.choice /\ ctl'.old = ctl.old /\ ctl'.pc = pc /\ ctl' \in Ctls
    BY <1>6 DEF TypeOK
  <2> QED BY <1>0, <1>6, <2>1 DEF ChoiceTaken, Usable
<1>7. CASE StopOld
  <2>1. ctl' \in Ctls /\ ChoiceTaken'
    BY <1>6, <1>7 DEF StopOld, ConfigureStep, Configuring
  <2> QED BY <1>3, <1>7, <2>1 DEF StopOld, AfterStop, TypeOK
<1>8. CASE ReplaceClient
  <2>1. ctl' \in Ctls /\ ChoiceTaken'
    BY <1>6, <1>8 DEF ReplaceClient, ConfigureStep, Configuring
  <2>2. /\ clients' \in Seq(Setting) /\ current' \in ClientIds'
        /\ ClientIds \subseteq ClientIds' /\ 0..Len(clients) \subseteq 0..Len(clients')
    BY <1>2, <1>8, OneMore DEF ReplaceClient, TypeOK
  <2>3. ctl' \in [pc : {"idle", "openSecrets", "writeSecrets", "openCatalog",
                        "writeCatalog", "compare"} \cup Configuring,
                  old : 0..Len(clients'), choice : Choice]
    BY <2>1, <2>2
  <2>4. turn' \in [Turns -> [pc : {"idle", "build", "send", "wait", "call"} \cup Selecting,
                             provider : Providers, model : Models,
                             client : 0..Len(clients')]]
    <3>1. [pc : {"idle", "build", "send", "wait", "call"} \cup Selecting,
           provider : Providers, model : Models, client : 0..Len(clients)]
            \subseteq [pc : {"idle", "build", "send", "wait", "call"} \cup Selecting,
                      provider : Providers, model : Models, client : 0..Len(clients')]
      BY <2>2
    <3> QED BY <1>1, <3>1 DEF TypeOK
  <2>5. ClientNamed'
    BY <1>1, <2>2 DEF ClientNamed
  <2>6. UNCHANGED <<live, setting, model, candidate, applied, acked, raced, fresh, settled>>
    BY <1>8 DEF ReplaceClient
  <2>7. live' \subseteq ClientIds' /\ revived' \subseteq ClientIds'
    BY <1>1, <2>2, <2>6 DEF TypeOK
  <2> HIDE DEF Ctls
  <2> QED BY <1>1, <2>1, <2>2, <2>3, <2>4, <2>5, <2>6, <2>7 DEF TypeOK, catalog, files
<1>9. CASE SetName
  <2>1. ctl' \in Ctls /\ ChoiceTaken'
    BY <1>6, <1>9 DEF SetName, ConfigureStep, Configuring
  <2>2. setting' \in Setting
    BY <1>2, <1>9 DEF SetName, Setting
  <2> QED BY <1>3, <1>9, <2>1, <2>2 DEF SetName, TypeOK
<1>10. CASE SetLink
  <2>1. ctl' \in Ctls /\ ChoiceTaken'
    BY <1>6, <1>10 DEF SetLink, ConfigureStep, Configuring
  <2>2. setting' \in Setting
    BY <1>2, <1>10 DEF SetLink, Setting
  <2> QED BY <1>3, <1>10, <2>1, <2>2 DEF SetLink, TypeOK
<1>11. CASE SetModel
  <2>1. ctl' \in Ctls /\ ChoiceTaken'
    BY <1>6, <1>11 DEF SetModel, ConfigureStep, Configuring
  <2>2. model' \in Models
    BY <1>0, <1>11 DEF SetModel, ConfigureStep, ChoiceTaken, Configuring
  <2> QED BY <1>3, <1>11, <2>1, <2>2 DEF SetModel, TypeOK
<1>12. CASE RebuildSelection
  <2>1. ctl' \in Ctls /\ ctl'.pc = "idle" /\ acked' = CatalogNow
    BY <1>2, <1>12 DEF RebuildSelection, Answered
  <2>2. ChoiceTaken'
    BY <2>1 DEF ChoiceTaken, Configuring
  <2>3. ctl.choice.model \in Models /\ ctl.choice.setting.provider \in Providers
    BY <1>0, <1>2, <1>12 DEF RebuildSelection, ConfigureStep, ChoiceTaken, Configuring, Setting
  <2>4. candidate' \in [provider : Providers, model : Models] /\ applied' \in Choice
    BY <1>2, <1>12, <2>3 DEF RebuildSelection, NewCandidate
  <2> QED BY <1>0, <1>3, <1>12, <2>1, <2>2, <2>4 DEF RebuildSelection, TypeOK
<1> QED BY <1>4, <1>5, <1>7, <1>8, <1>9, <1>10, <1>11, <1>12 DEF Configure

\* Every step of a turn keeps the types.
LEMMA TurnTyped == ASSUME Typed, NEW t \in Turns, Select(t) \/ Turn(t) PROVE Typed'
<1> USE DEF Typed
<1>1. /\ UNCHANGED <<catalog, files, ctl, requests, crashes, applied, acked, lost>>
      /\ turn' = [turn EXCEPT ![t] = turn'[t]] /\ turn'[t] \in TurnRecord
      /\ turn'[t].pc \in {"wait", "call", "stop", "client"} => turn'[t].client \in ClientIds
  BY TurnSteps
<1>2. turn[t] \in TurnRecord /\ turn \in [Turns -> TurnRecord]
  BY DEF TypeOK, TurnRecord, TurnPlaces
<1>3. ChoiceTaken'
  BY <1>1 DEF ChoiceTaken, catalog, Now, Usable
<1>4. turn' \in [Turns -> TurnRecord]
  BY <1>1, <1>2
<1>5. calls' \in Nat /\ raced' \in BOOLEAN /\ fresh' \subseteq Turns /\ settled' \subseteq Turns
  <2>1. calls' \in Nat
    BY DEF TypeOK, Turn, Select, Compare, StopSelected, ReplaceSelected, NameSelected,
           ModelSelected, Build, Send, Call, CallEnds
  <2>2. raced' \in BOOLEAN
    BY DEF TypeOK, Turn, Select, Compare, StopSelected, ReplaceSelected, NameSelected,
           ModelSelected, Build, Send, Call, CallEnds
  <2>3. settled' \subseteq Turns
    BY DEF TypeOK, Turn, Select, Compare, StopSelected, ReplaceSelected, NameSelected,
           ModelSelected, Build, Send, Call, CallEnds
  <2>4. fresh' \subseteq Turns
    BY DEF TypeOK, Turn, Select, Compare, StopSelected, ReplaceSelected, NameSelected,
           ModelSelected, Build, Send, Call, CallEnds
  <2> QED BY <2>1, <2>2, <2>3, <2>4
<1>6. CASE ReplaceSelected(t)
  <2> DEFINE s == [setting EXCEPT !.provider = turn[t].provider, !.mode = NoMode]
  <2>1. s \in Setting
    BY <1>2 DEF TypeOK, Setting, TurnRecord
  <2>2. clients' = Append(clients, s) /\ current' = Len(clients')
        /\ UNCHANGED <<live, setting, model, candidate, revived>>
    BY <1>6 DEF ReplaceSelected
  <2> HIDE DEF s
  <2>3. /\ clients' \in Seq(Setting) /\ current' \in ClientIds'
        /\ ClientIds \subseteq ClientIds' /\ 0..Len(clients) \subseteq 0..Len(clients')
    BY <2>1, <2>2, OneMore DEF TypeOK
  <2>4. TurnRecord \subseteq TurnRecord'
    BY <2>3 DEF TurnRecord
  <2>5. turn' \in [Turns -> TurnRecord']
    BY <1>4, <2>4
  <2>6. ctl' \in [pc : CtlPlaces, old : 0..Len(clients'), choice : Choice]
    BY <1>1, <2>3 DEF TypeOK, CtlPlaces
  <2>7. ClientNamed'
    BY <1>1, <1>2, <2>3 DEF ClientNamed
  <2>8. live' \subseteq ClientIds' /\ revived' \subseteq ClientIds'
    BY <2>2, <2>3 DEF TypeOK
  <2> QED BY <1>1, <1>3, <1>5, <2>2, <2>3, <2>5, <2>6, <2>7, <2>8
      DEF TypeOK, TurnRecord, TurnPlaces, CtlPlaces, catalog, files
<1>7. CASE ~ReplaceSelected(t)
  <2>1. clients' = clients /\ current' = current /\ candidate' = candidate
    BY <1>7 DEF Turn, Select, Compare, StopSelected, NameSelected, ModelSelected, Build,
                Send, Call, CallEnds, executor
  <2>2. ClientIds' = ClientIds
    BY <2>1 DEF ClientIds
  <2>3. live' \subseteq ClientIds /\ revived' \subseteq ClientIds
    <3>1. CASE Call(t)
      <4>1. turn[t].client \in ClientIds
        BY <3>1 DEF Call, TurnStep, ClientNamed
      <4> QED BY <3>1, <4>1 DEF Call, TypeOK
    <3>2. CASE StopSelected(t)
      BY <3>2 DEF StopSelected, AfterStop, TypeOK
    <3>3. CASE UNCHANGED <<live, revived>>
      BY <3>3 DEF TypeOK
    <3> QED BY <1>7, <3>1, <3>2, <3>3
        DEF Turn, Select, Compare, NameSelected, ModelSelected, Build, Send, CallEnds, executor
  <2>4. setting' \in Setting
    <3>1. CASE NameSelected(t)
      BY <1>2, <3>1 DEF NameSelected, TypeOK, Setting, TurnRecord
    <3>2. CASE ~NameSelected(t)
      <4>1. setting' = setting
        BY <1>7, <3>2 DEF Turn, Select, Compare, StopSelected, ModelSelected, Build, Send,
                          Call, CallEnds, executor
      <4> QED BY <4>1 DEF TypeOK
    <3> QED BY <3>1, <3>2
  <2>5. model' \in Models
    <3>1. CASE ModelSelected(t)
      BY <1>2, <3>1 DEF ModelSelected, TurnRecord
    <3>2. CASE ~ModelSelected(t)
      <4>1. model' = model
        BY <1>7, <3>2 DEF Turn, Select, Compare, StopSelected, NameSelected, Build, Send,
                          Call, CallEnds, executor
      <4> QED BY <4>1 DEF TypeOK
    <3> QED BY <3>1, <3>2
  <2>6. ClientNamed'
    BY <1>1, <1>2, <2>2 DEF ClientNamed
  <2> QED BY <1>1, <1>3, <1>4, <1>5, <2>1, <2>2, <2>3, <2>4, <2>5, <2>6
      DEF TypeOK, TurnRecord, TurnPlaces, catalog, files
<1> QED BY <1>6, <1>7

\* What a restart loads is a catalog, and loads as itself.
LEMMA LoadsTyped ==
  ASSUME TypeOK
  PROVE  /\ catalogFile.active \in Providers
         /\ LoadedRows \in [Providers -> Row]
         /\ secretFile \in [Providers -> Secrets \cup {NoSecret}]
         /\ \A p \in Providers : LoadedRow(p, LoadedRows[p]) = LoadedRows[p]
<1>1. \A p \in Providers : catalogFile.rows[p] \in Row
  BY DEF TypeOK
<1> QED BY <1>1, LoadingTyped DEF TypeOK, LoadedRows

LEMMA RestartTyped == ASSUME Typed, CrashAndRestart PROVE Typed'
<1>1. /\ Booted(catalogFile.active, LoadedRows, secretFile)
      /\ UNCHANGED <<catalogFile, secretFile, requests, calls>> /\ crashes' \in 0..MaxCrashes
  BY ConstantsAssumption DEF CrashAndRestart, files, Typed, TypeOK
<1>2. TypeOK
  BY DEF Typed
<1> DEFINE act == catalogFile.active
           rs == LoadedRows
           ss == secretFile
<1>3. act \in Providers /\ rs \in [Providers -> Row]
      /\ ss \in [Providers -> Secrets \cup {NoSecret}]
  BY <1>2, LoadsTyped
<1> HIDE DEF act, rs, ss
<1>4. Booted(act, rs, ss)
  BY <1>1 DEF act, rs, ss
<1>5. /\ active' \in Providers /\ rows' \in [Providers -> Row]
      /\ secrets' \in [Providers -> Secrets \cup {NoSecret}]
      /\ ctl' \in [pc : {"idle"}, old : {0}, choice : Choice]
      /\ clients' \in Seq(Setting) /\ Len(clients') = 1 /\ current' = 1
      /\ live' = {} /\ revived' = {} /\ fresh' = {} /\ settled' = {} /\ lost' = {}
      /\ applied' \in Choice /\ setting' \in Setting /\ model' \in Models
      /\ candidate' \in [provider : Providers, model : Models]
      /\ turn' \in [Turns -> [pc : {"idle"}, provider : Providers, model : Models, client : {0}]]
      /\ acked' \in Catalog /\ raced' = FALSE
  BY <1>3, <1>4, BootedTyped
<1>6. ChoiceTaken'
  BY <1>5 DEF ChoiceTaken, Configuring
<1>7. ClientNamed'
  BY <1>5 DEF ClientNamed
<1>8. ctl' \in [pc : CtlPlaces, old : 0..Len(clients'), choice : Choice]
      /\ turn' \in [Turns -> TurnRecord'] /\ current' \in ClientIds'
  <2>1. {0} \subseteq 0..Len(clients') /\ current' \in ClientIds'
    BY <1>5 DEF ClientIds
  <2>2. ctl' \in [pc : CtlPlaces, old : 0..Len(clients'), choice : Choice]
    BY <1>5, <2>1 DEF CtlPlaces
  <2>3. [pc : {"idle"}, provider : Providers, model : Models, client : {0}] \subseteq TurnRecord'
    BY <2>1 DEF TurnRecord, TurnPlaces
  <2> QED BY <1>5, <2>1, <2>2, <2>3
<1> QED BY <1>1, <1>2, <1>5, <1>6, <1>7, <1>8
    DEF Typed, TypeOK, TurnRecord, TurnPlaces, CtlPlaces

\* Every step keeps the types.
LEMMA TypedStep == ASSUME Typed, [Next]_vars PROVE Typed'
<1>1. CASE UNCHANGED vars
  BY <1>1 DEF vars, Typed, TypeOK, ChoiceTaken, ClientNamed, ClientIds, Now, Usable
<1> QED BY <1>1, CatalogTyped, ConfigureTyped, TurnTyped, RestartTyped DEF Next

-----------------------------------------------------------------------------
(* The executor                                                             *)

LEMMA CatalogExecutor ==
  ASSUME Typed, ExecutorInv, Accept \/ Save
  PROVE  ExecutorInv'
<1>1. /\ UNCHANGED <<clients, live, current, setting, model, candidate, turn, applied, raced,
                     fresh, revived>>
      /\ ctl.pc \in Before \ {"stop", "client"} /\ ctl'.pc \in Before \ {"stop", "client"}
      /\ ctl'.pc = "idle" => "refused" \in lost'
  <2>1. CASE Accept
    <3>1. /\ UNCHANGED <<clients, live, current, setting, model, candidate, turn, applied,
                         raced, fresh, revived>>
          /\ ctl.pc = "idle" /\ ctl'.pc \in {"openCatalog", "openSecrets", "idle"}
      BY <2>1, AcceptSteps DEF Typed, TypeOK, Request, executor
    <3>2. ctl'.pc = "idle" => "refused" \in lost'
      BY <2>1, AcceptSteps DEF Typed, TypeOK, Request
    <3> QED BY <3>1, <3>2 DEF Before
  <2>2. CASE Save
    BY <2>2, SaveSteps DEF Typed, executor, CtlPlaces, Configuring, Before
  <2> QED BY <2>1, <2>2
<1>2. ctl.pc \notin Configuring /\ ctl'.pc \notin Configuring
  BY <1>1 DEF Configuring, Before
<1>3. ctl.pc \notin {"stop", "client", "link", "model", "select"}
      /\ ctl'.pc \notin {"stop", "client", "link", "model", "select"}
  BY <1>2 DEF Configuring
<1>4. Unraced'
  BY <1>1, <1>2, <1>3 DEF ExecutorInv, Unraced, Apart, InForce, SelectsChoice, Workers,
     FreshCalls, NewCandidate
<1>5. NoneFresh' /\ Applied'
  BY <1>1, <1>2 DEF NoneFresh, Applied
<1> QED BY <1>4, <1>5 DEF ExecutorInv

LEMMA ConfigureExecutor ==
  ASSUME Typed, ExecutorInv, Configure
  PROVE  ExecutorInv'
<1>1. /\ UNCHANGED <<catalog, files, turn, requests, calls, crashes, lost, revived>>
      /\ ctl.pc \in Configuring \cup {"compare"} /\ ctl'.pc \in Configuring \cup {"idle"}
  BY ConfigureSteps DEF Typed
<1>2. Now' = Now
  BY <1>1 DEF Now, catalog
<1>3. CASE IgnoreChoice
  <2>1. /\ UNCHANGED <<clients, live, current, setting, model, candidate, applied, raced, fresh>>
        /\ ctl.pc = "compare" /\ ctl'.pc = "idle" /\ ~Usable(Now)
    BY <1>3 DEF IgnoreChoice, ConfigureStep, Answered, executor, Now
  <2>2. Unraced'
    BY <1>1, <2>1 DEF ExecutorInv, Unraced, Apart, InForce, SelectsChoice, Workers,
       FreshCalls, NewCandidate, Configuring, Before
  <2>3. NoneFresh' /\ Applied'
    BY <1>2, <2>1 DEF NoneFresh, Applied, Configuring, Usable
  <2> QED BY <2>2, <2>3 DEF ExecutorInv
<1>4. CASE CompareChoice
  <2>1. /\ UNCHANGED <<clients, live, current, setting, model, candidate, applied>>
        /\ ctl.pc = "compare" /\ fresh' = {}
        /\ raced' = (raced \/ \E t \in Turns : turn[t].pc \in Selecting)
        /\ ctl' = IF Differs(Now) THEN [pc |-> "stop", old |-> current, choice |-> Now]
                  ELSE [pc |-> "model", old |-> 0, choice |-> Now]
    BY <1>4 DEF CompareChoice, ConfigureStep, executor, Now
  <2>2. ctl'.pc \in {"stop", "model"} /\ NoneFresh' /\ Applied'
    BY <2>1 DEF NoneFresh, Applied
  <2>3. ASSUME ~raced' PROVE Apart' /\ InForce' /\ SelectsChoice' /\ Workers' /\ FreshCalls'
    <3>1. ~raced /\ \A t \in Turns : turn'[t].pc \notin Selecting
      BY <1>1, <2>1, <2>3
    <3>2. InForce /\ Workers
      BY <3>1 DEF ExecutorInv, Unraced
    <3>3. Apart' /\ SelectsChoice' /\ FreshCalls'
      BY <2>1, <3>1 DEF Apart, SelectsChoice, FreshCalls
    <3>4. Workers'
      BY <1>1, <2>1, <2>2, <3>2 DEF Workers
    <3>5. CASE Differs(Now)
      <4>1. ctl'.pc = "stop" /\ ctl'.old = current
        BY <2>1, <3>5
      <4>2. InForce'
        BY <2>1, <3>2, <4>1 DEF InForce, Before, NewCandidate
      <4> QED BY <3>3, <3>4, <4>2
    <3>6. CASE ~Differs(Now)
      <4>1. ctl'.pc = "model" /\ ctl'.choice.setting = setting
        BY <2>1, <3>6 DEF Differs
      <4>2. InForce'
        BY <2>1, <3>2, <4>1 DEF InForce, Before, NewCandidate
      <4> QED BY <3>3, <3>4, <4>2
    <3> QED BY <3>5, <3>6
  <2> QED BY <2>2, <2>3 DEF ExecutorInv, Unraced
\* The other steps follow each other, and no turn selects among them.
<1>5. ASSUME ctl.pc \in Configuring, raced' = raced, fresh' = fresh,
             ctl'.pc # "idle" \/ applied' = Now,
             ~raced /\ InForce /\ Workers => InForce' /\ Workers'
      PROVE  ExecutorInv'
  <2>1. fresh' = {} /\ NoneFresh' /\ FreshCalls'
    BY <1>5 DEF ExecutorInv, NoneFresh, FreshCalls
  <2>2. Applied'
    BY <1>2, <1>5 DEF Applied
  <2>3. ~raced => Apart' /\ SelectsChoice'
    BY <1>1, <1>5 DEF ExecutorInv, Unraced, Apart, SelectsChoice
  <2> QED BY <1>5, <2>1, <2>2, <2>3 DEF ExecutorInv, Unraced
<1>6. ctl \in [pc : CtlPlaces, old : 0..Len(clients), choice : Choice]
  BY DEF Typed, TypeOK, CtlPlaces
<1>7. CASE StopOld
  <2>1. /\ ctl.pc = "stop" /\ ctl'.pc = "client" /\ ctl'.old = ctl.old /\ ctl'.choice = ctl.choice
        /\ live' = live \ {ctl.old}
        /\ UNCHANGED <<clients, current, setting, model, candidate, applied, raced, fresh>>
    BY <1>6, <1>7 DEF StopOld, AfterStop, ConfigureStep
  <2>2. InForce => InForce'
    BY <2>1 DEF InForce, Before, NewCandidate
  <2>3. InForce /\ Workers => Workers'
    BY <1>1, <2>1 DEF InForce, Workers
  <2> QED BY <1>5, <2>1, <2>2, <2>3 DEF Configuring
<1>8. CASE ReplaceClient
  <2>1. /\ ctl.pc = "client" /\ ctl'.pc = "name" /\ ctl'.choice = ctl.choice
        /\ clients' = Append(clients, ctl.choice.setting) /\ current' = Len(clients')
        /\ UNCHANGED <<live, setting, model, candidate, applied, raced, fresh>>
    BY <1>6, <1>8 DEF ReplaceClient, ConfigureStep
  <2>2. clients'[current'] = ctl.choice.setting
    BY <1>6, <2>1, OneMore DEF Typed, TypeOK, Choice
  <2>3. InForce => InForce'
    BY <2>1, <2>2 DEF InForce, Before, NewCandidate
  <2>4. Workers => Workers'
    BY <1>1, <2>1 DEF Workers
  <2> QED BY <1>5, <2>1, <2>3, <2>4 DEF Configuring
<1>9. CASE SetName
  <2>1. /\ ctl.pc = "name" /\ ctl'.pc = "link" /\ ctl'.choice = ctl.choice
        /\ setting' = [setting EXCEPT !.provider = ctl.choice.setting.provider]
        /\ UNCHANGED <<clients, live, current, model, candidate, applied, raced, fresh>>
    BY <1>6, <1>9 DEF SetName, ConfigureStep
  <2>2. setting'.provider = ctl.choice.setting.provider
    BY <2>1 DEF Typed, TypeOK, Setting
  <2>3. InForce => InForce'
    BY <2>1, <2>2 DEF InForce, Before, NewCandidate
  <2>4. Workers => Workers'
    BY <1>1, <2>1 DEF Workers
  <2> QED BY <1>5, <2>1, <2>3, <2>4 DEF Configuring
<1>10. CASE SetLink
  <2>1. /\ ctl.pc = "link" /\ ctl'.pc = "model" /\ ctl'.choice = ctl.choice
        /\ setting' = [ctl.choice.setting EXCEPT !.provider = setting.provider]
        /\ UNCHANGED <<clients, live, current, model, candidate, applied, raced, fresh>>
    BY <1>6, <1>10 DEF SetLink, ConfigureStep
  <2>2. ctl.choice.setting \in Setting
    BY <1>6 DEF Choice
  <2>3. setting.provider = ctl.choice.setting.provider => setting' = ctl.choice.setting
    BY <2>1, <2>2 DEF Setting
  <2>4. InForce => InForce'
    BY <2>1, <2>3 DEF InForce, Before, NewCandidate
  <2>5. Workers => Workers'
    BY <1>1, <2>1 DEF Workers
  <2> QED BY <1>5, <2>1, <2>4, <2>5 DEF Configuring
<1>11. CASE SetModel
  <2>1. /\ ctl.pc = "model" /\ ctl'.pc = "select" /\ ctl'.choice = ctl.choice
        /\ model' = ctl.choice.model
        /\ UNCHANGED <<clients, live, current, setting, candidate, applied, raced, fresh>>
    BY <1>6, <1>11 DEF SetModel, ConfigureStep
  <2>2. InForce => InForce'
    BY <2>1 DEF InForce, Before, NewCandidate
  <2>3. Workers => Workers'
    BY <1>1, <2>1 DEF Workers
  <2> QED BY <1>5, <2>1, <2>2, <2>3 DEF Configuring
<1>12. CASE RebuildSelection
  <2>1. /\ ctl.pc = "select" /\ ctl'.pc = "idle" /\ ctl'.choice = ctl.choice
        /\ candidate' = NewCandidate(ctl.choice) /\ applied' = ctl.choice
        /\ UNCHANGED <<clients, live, current, setting, model, raced, fresh>>
    BY <1>12 DEF RebuildSelection, ConfigureStep, Answered
  <2>2. ctl.choice = Now
    BY <2>1 DEF Typed, ChoiceTaken, Configuring
  <2>3. InForce => InForce'
    BY <2>1 DEF InForce, Before, NewCandidate
  <2>4. Workers => Workers'
    BY <1>1, <2>1 DEF Workers
  <2> QED BY <1>5, <2>1, <2>2, <2>3, <2>4 DEF Configuring
<1> QED BY <1>3, <1>4, <1>7, <1>8, <1>9, <1>10, <1>11, <1>12 DEF Configure

LEMMA TurnExecutor ==
  ASSUME Typed, ExecutorInv, NEW t \in Turns, Select(t) \/ Turn(t)
  PROVE  ExecutorInv'
<1>1. /\ UNCHANGED <<catalog, files, ctl, requests, crashes, applied, acked, lost>>
      /\ turn' = [turn EXCEPT ![t] = turn'[t]] /\ turn'[t] \in TurnRecord
  BY TurnSteps DEF Typed
<1>2. /\ turn \in [Turns -> TurnRecord] /\ turn[t] \in TurnRecord
      /\ \A u \in Turns : u # t => turn'[u] = turn[u]
  BY <1>1 DEF Typed, TypeOK, TurnRecord, TurnPlaces
<1>3. Applied'
  BY <1>1 DEF ExecutorInv, Applied, Now, catalog, Usable
<1>4. NoneFresh'
  <2>1. ctl.pc \in Configuring => fresh' \subseteq fresh
    BY DEF Turn, Select, Compare, StopSelected, ReplaceSelected, NameSelected,
           ModelSelected, Build, Send, Call, CallEnds
  <2> QED BY <1>1, <2>1 DEF ExecutorInv, NoneFresh
<1> SUFFICES ASSUME ~raced'
             PROVE  Apart' /\ InForce' /\ SelectsChoice' /\ Workers' /\ FreshCalls'
  BY <1>3, <1>4 DEF ExecutorInv, Unraced
<1>5. ~raced
  BY DEF Turn, Select, Compare, StopSelected, ReplaceSelected, NameSelected,
         ModelSelected, Build, Send, Call, CallEnds
<1>6. Apart /\ InForce /\ SelectsChoice /\ Workers /\ FreshCalls
  BY <1>5 DEF ExecutorInv, Unraced
<1>7. turn[t].pc \in Selecting =>
        /\ ctl.pc \notin Configuring /\ ctl.pc \in Before
        /\ setting = applied.setting /\ clients[current] = setting
        /\ turn[t].pc \in {"compare", "model"} /\ turn[t].provider = applied.setting.provider
        /\ turn[t].model = applied.model
  <2>1. ctl.pc \in Configuring \cup Before
    BY DEF Typed, TypeOK, Configuring, Before
  <2> QED BY <1>6, <2>1 DEF Apart, InForce, SelectsChoice
\* A turn that is, or comes, outside the selection keeps the parts that are about it.
<1>8. ASSUME turn'[t].pc \notin Selecting PROVE Apart' /\ SelectsChoice'
  BY <1>1, <1>2, <1>6, <1>8 DEF Apart, SelectsChoice
<1>9. ASSUME UNCHANGED <<clients, live, current, setting, model, candidate, revived>>
      PROVE  InForce' /\ Workers'
  BY <1>1, <1>6, <1>9 DEF InForce, Workers, NewCandidate
<1>10. ASSUME UNCHANGED <<clients, fresh>>, turn'[t].pc \notin {"send", "wait"}
       PROVE  FreshCalls'
  <2>1. fresh \subseteq Turns
    BY DEF Typed, TypeOK
  <2> QED BY <1>1, <1>2, <1>6, <1>10, <2>1 DEF FreshCalls
<1>11. CASE Select(t)
  <2>1. /\ UNCHANGED <<clients, live, current, setting, model, candidate, revived, fresh>>
        /\ ctl.pc \notin Configuring
        /\ turn' = [turn EXCEPT ![t].pc = "compare", ![t].provider = candidate.provider,
                                ![t].model = candidate.model]
    BY <1>11 DEF Select, executor
  <2>2. turn'[t].pc = "compare" /\ turn'[t].provider = candidate.provider
        /\ turn'[t].model = candidate.model
    BY <1>2, <2>1 DEF TurnRecord
  <2>3. candidate.provider = applied.setting.provider /\ candidate.model = applied.model
    BY <1>6 DEF InForce, NewCandidate
  <2>4. Apart' /\ SelectsChoice'
    BY <1>1, <1>2, <1>6, <2>1, <2>2, <2>3 DEF Apart, SelectsChoice
  <2> QED BY <1>9, <1>10, <2>1, <2>2, <2>4
<1>12. CASE Compare(t)
  <2>1. /\ UNCHANGED <<clients, live, current, setting, model, candidate, revived, fresh>>
        /\ turn[t].pc = "compare"
    BY <1>12 DEF Compare, executor, TurnStep
  <2>2. turn[t].pc \in Selecting
    BY <2>1 DEF Selecting
  <2>3. turn' = [turn EXCEPT ![t].pc = "model"]
    BY <1>7, <1>12, <2>2 DEF Compare
  <2>4. turn'[t].pc = "model" /\ turn'[t].provider = turn[t].provider
        /\ turn'[t].model = turn[t].model
    BY <1>2, <2>3 DEF TurnRecord
  <2>5. Apart' /\ SelectsChoice'
    BY <1>1, <1>2, <1>6, <1>7, <2>2, <2>4 DEF Apart, SelectsChoice
  <2> QED BY <1>9, <1>10, <2>1, <2>4, <2>5
<1>13. CASE StopSelected(t) \/ ReplaceSelected(t) \/ NameSelected(t)
  <2>1. turn[t].pc \in {"stop", "client", "name"}
    BY <1>13 DEF StopSelected, ReplaceSelected, NameSelected, TurnStep
  <2> QED BY <1>7, <2>1 DEF Selecting
<1>14. CASE ModelSelected(t)
  <2>1. /\ UNCHANGED <<clients, live, current, setting, candidate, revived, fresh>>
        /\ turn[t].pc = "model" /\ model' = turn[t].model
        /\ turn' = [turn EXCEPT ![t].pc = "build"]
    BY <1>14 DEF ModelSelected, TurnStep, Go
  <2>2. model' = applied.model /\ ctl.pc \in Before
    BY <1>7, <2>1 DEF Selecting
  <2>3. turn'[t].pc = "build"
    BY <1>2, <2>1 DEF TurnRecord
  <2>4. InForce' /\ Workers'
    BY <1>1, <1>6, <2>1, <2>2 DEF InForce, Workers, NewCandidate, Before
  <2> QED BY <1>8, <1>10, <2>1, <2>3, <2>4 DEF Selecting
<1>15. CASE Build(t)
  <2>1. /\ UNCHANGED <<clients, live, current, setting, model, candidate, revived>>
        /\ turn' = [turn EXCEPT ![t].pc = "send", ![t].model = model]
        /\ fresh' = IF ctl.pc \in Configuring THEN fresh \ {t} ELSE fresh \cup {t}
    BY <1>15 DEF Build, executor
  <2>2. turn'[t].pc = "send" /\ turn'[t].model = model
    BY <1>2, <2>1 DEF TurnRecord
  <2>3. t \in fresh' => model = applied.model
    BY <1>6, <2>1 DEF InForce, Configuring
  <2>4. FreshCalls'
    BY <1>1, <1>2, <1>6, <2>1, <2>2, <2>3 DEF FreshCalls, Typed, TypeOK
  <2> QED BY <1>8, <1>9, <2>1, <2>2, <2>4 DEF Selecting
<1>16. CASE Send(t)
  <2>1. /\ UNCHANGED <<clients, live, current, setting, model, candidate, revived, fresh>>
        /\ turn' = [turn EXCEPT ![t].pc = "wait", ![t].client = current]
        /\ turn[t].pc = "send"
    BY <1>16 DEF Send, executor, TurnStep
  <2>2. turn'[t].pc = "wait" /\ turn'[t].client = current /\ turn'[t].model = turn[t].model
    BY <1>2, <2>1 DEF TurnRecord
  <2>3. t \in fresh => clients[current] = applied.setting
    <3>1. t \in fresh => ctl.pc \in Before
      BY DEF ExecutorInv, NoneFresh, Typed, TypeOK, Configuring, Before
    <3> QED BY <1>6, <3>1 DEF InForce
  <2>4. FreshCalls'
    BY <1>1, <1>2, <1>6, <2>1, <2>2, <2>3 DEF FreshCalls, Typed, TypeOK
  <2> QED BY <1>8, <1>9, <2>1, <2>2, <2>4 DEF Selecting
<1>17. CASE Call(t)
  <2> DEFINE c == turn[t].client
  <2>1. /\ UNCHANGED <<clients, current, setting, model, candidate, fresh>>
        /\ live' = live \cup {c}
        /\ revived' = IF c # current \/ Replacing(c) THEN revived \cup {c} ELSE revived
        /\ turn' = [turn EXCEPT ![t].pc = "call"]
    BY <1>17 DEF Call, Go
  <2> HIDE DEF c
  <2>2. turn'[t].pc = "call"
    BY <1>2, <2>1 DEF TurnRecord
  <2>3. InForce'
    BY <1>1, <1>6, <2>1 DEF InForce, NewCandidate
  <2>4. ctl.pc = "client" /\ c = current => Replacing(c)
    BY <1>6 DEF Replacing, InForce
  <2>5. Workers'
    BY <1>1, <1>6, <2>1, <2>4 DEF Workers
  <2> QED BY <1>8, <1>10, <2>1, <2>2, <2>3, <2>5 DEF Selecting
<1>18. CASE CallEnds(t)
  <2>1. /\ UNCHANGED <<clients, live, current, setting, model, candidate, revived, fresh>>
        /\ \E pc \in {"build", "idle"} : turn' = [turn EXCEPT ![t].pc = pc]
    BY <1>18 DEF CallEnds, executor, Go
  <2>2. turn'[t].pc \in {"build", "idle"}
    BY <1>2, <2>1 DEF TurnRecord
  <2> QED BY <1>8, <1>9, <1>10, <2>1, <2>2 DEF Selecting
<1> QED BY <1>11, <1>12, <1>13, <1>14, <1>15, <1>16, <1>17, <1>18 DEF Turn

\* After a restart the executor has the choice it starts with.
LEMMA RestartExecutor == ASSUME Typed, CrashAndRestart PROVE ExecutorInv'
<1> DEFINE act == catalogFile.active
           rs == LoadedRows
           ss == secretFile
<1>1. act \in Providers /\ rs \in [Providers -> Row]
      /\ ss \in [Providers -> Secrets \cup {NoSecret}]
  BY LoadsTyped DEF Typed
<1>2. Booted(act, rs, ss)
  BY DEF CrashAndRestart
<1> HIDE DEF act, rs, ss
<1>3. /\ active' = act /\ rows' = rs /\ secrets' = ss
      /\ ctl' \in [pc : {"idle"}, old : {0}, choice : Choice]
      /\ current' = 1 /\ live' = {} /\ fresh' = {}
      /\ applied' = StartChoice(act, rs, ss)
      /\ setting' = applied'.setting /\ model' = applied'.model
      /\ clients'[1] = setting' /\ candidate' = NewCandidate(applied')
      /\ turn' \in [Turns -> [pc : {"idle"}, provider : Providers, model : Models, client : {0}]]
  BY <1>1, <1>2, BootedTyped
<1>4. ctl'.pc = "idle" /\ \A t \in Turns : turn'[t].pc = "idle"
  BY <1>3
<1>5. Apart' /\ InForce' /\ SelectsChoice' /\ Workers' /\ FreshCalls'
  BY <1>3, <1>4 DEF Apart, InForce, SelectsChoice, Workers, FreshCalls, Configuring, Before,
                    Selecting, NewCandidate
<1>6. NoneFresh'
  BY <1>3 DEF NoneFresh
<1>7. Applied'
  <2>1. Now' = ChoiceOf(act, rs, ss)
    BY <1>3 DEF Now, ChoiceOf
  <2>2. Usable(ChoiceOf(act, rs, ss)) => StartChoice(act, rs, ss) = ChoiceOf(act, rs, ss)
    BY DEF StartChoice, Usable, ChoiceOf
  <2> QED BY <1>3, <2>1, <2>2 DEF Applied, Usable
<1> QED BY <1>5, <1>6, <1>7 DEF ExecutorInv, Unraced

LEMMA ExecutorStep == ASSUME Typed, ExecutorInv, [Next]_vars PROVE ExecutorInv'
<1>1. CASE UNCHANGED vars
  BY <1>1 DEF vars, ExecutorInv, Unraced, Apart, InForce, SelectsChoice, Workers, FreshCalls,
              NoneFresh, Applied, Now, Usable, NewCandidate
<1> QED BY <1>1, CatalogExecutor, ConfigureExecutor, TurnExecutor, RestartExecutor DEF Next

-----------------------------------------------------------------------------
(* The files                                                                *)

\* A request leaves the files behind the catalog by what it changes.
LEMMA AcceptFiles == ASSUME Typed, FilesInv, Accept PROVE FilesInv'
<1>1. TypeOK /\ Normal'
  BY AcceptSteps DEF Typed, FilesInv
<1>2. ASSUME NEW next, Request(next)
      PROVE  /\ ctl.pc = "idle" /\ ctl'.pc = next
             /\ UNCHANGED <<catalogFile, secretFile, acked>> /\ LoadedRows' = LoadedRows
  BY <1>1, <1>2 DEF Request, files, TypeOK, LoadedRows
<1>3. CASE Request("openCatalog") /\ secrets' = secrets /\ lost' = lost
  BY <1>1, <1>2, <1>3 DEF FilesInv, SavedSecrets, SavedCatalog, Acks, LoadsNow, LoadsAcked
<1>4. CASE Request("openSecrets") /\ active' = active /\ rows' = rows /\ lost' = lost
  BY <1>1, <1>2, <1>4 DEF FilesInv, SavedSecrets, SavedCatalog, Acks, LoadsNow, LoadsAcked
<1>5. CASE /\ Request("idle") /\ active' = active /\ secrets' = secrets
           /\ lost' = lost \cup {"refused"}
  BY <1>1, <1>2, <1>5 DEF FilesInv, SavedSecrets, SavedCatalog, Acks, LoadsNow, LoadsAcked
<1> QED BY <1>1, <1>3, <1>4, <1>5, AcceptSteps

\* A save that succeeds brings a file up to the catalog; one that fails is lost.
LEMMA SaveFiles == ASSUME Typed, FilesInv, Save PROVE FilesInv'
<1>1. /\ UNCHANGED <<active, rows, secrets, acked>>
      /\ ctl' = [ctl EXCEPT !.pc = ctl'.pc] /\ ctl'.pc # "idle"
      /\ "refused" \in lost' <=> "refused" \in lost
  BY SaveSteps DEF Typed, catalog
<1>2. Normal'
  BY <1>1 DEF FilesInv, Normal
<1>3. ASSUME NEW from, NEW next, SaveStep(from, next)
      PROVE  ctl.pc = from /\ ctl'.pc = next
  BY <1>3 DEF SaveStep, Typed, TypeOK
<1> USE DEF FilesInv, SavedSecrets, SavedCatalog, Acks, LoadsNow, LoadsAcked
<1>4. CASE OpenSecrets
  <2>1. /\ ctl.pc = "openSecrets" /\ ctl'.pc = "writeSecrets"
        /\ catalogFile' = catalogFile /\ lost' = lost /\ LoadedRows' = LoadedRows
    BY <1>3, <1>4 DEF OpenSecrets, LoadedRows
  <2> QED BY <1>1, <1>2, <2>1
<1>5. CASE WriteSecrets
  <2>1. /\ ctl.pc = "writeSecrets" /\ ctl'.pc = "openCatalog"
        /\ catalogFile' = catalogFile /\ LoadedRows' = LoadedRows
        /\ secretFile' = IF CanProtect THEN secrets ELSE NoSecrets
        /\ lost' = IF CanProtect \/ secrets = NoSecrets
                   THEN lost \ {"secrets"} ELSE lost \cup {"secrets"}
    BY <1>3, <1>5 DEF WriteSecrets, LoadedRows
  <2>2. "secrets" \notin lost' => secretFile' = secrets
    BY <2>1
  <2>3. "catalog" \notin lost' => "catalog" \notin lost
    BY <2>1
  <2> QED BY <1>1, <1>2, <2>1, <2>2, <2>3
<1>6. CASE OpenCatalog
  <2>1. /\ ctl.pc = "openCatalog" /\ ctl'.pc = "writeCatalog"
        /\ secretFile' = secretFile /\ lost' = lost
    BY <1>3, <1>6 DEF OpenCatalog
  <2> QED BY <1>1, <1>2, <2>1
<1>7. CASE WriteCatalog
  <2>1. /\ ctl.pc = "writeCatalog" /\ ctl'.pc = "compare"
        /\ secretFile' = secretFile /\ lost' = lost \ {"catalog"}
        /\ catalogFile' = [active |-> active, rows |-> rows]
    BY <1>3, <1>7 DEF WriteCatalog
  <2>2. "refused" \notin lost => LoadedRows' = rows
    <3>1. LoadedRows' = [p \in Providers |-> LoadedRow(p, rows[p])]
      BY <2>1 DEF LoadedRows, LoadedRow
    <3>2. rows = [p \in Providers |-> rows[p]]
      BY DEF Typed, TypeOK
    <3> QED BY <3>1, <3>2 DEF Normal
  <2> QED BY <1>1, <1>2, <2>1, <2>2
<1>8. CASE SaveFails
  <2>1. UNCHANGED <<catalogFile, secretFile>> /\ LoadedRows' = LoadedRows
    BY <1>8 DEF SaveFails, files, LoadedRows
  <2>2. CASE /\ SaveStep("openSecrets", "openCatalog") \/ SaveStep("writeSecrets", "openCatalog")
             /\ lost' = lost \cup {"secrets"}
    <3>1. ctl.pc \in {"openSecrets", "writeSecrets"} /\ ctl'.pc = "openCatalog"
      BY <1>3, <2>2
    <3> QED BY <1>1, <1>2, <2>1, <2>2, <3>1
  <2>3. CASE /\ SaveStep("openCatalog", "compare") \/ SaveStep("writeCatalog", "compare")
             /\ lost' = lost \cup {"catalog"}
    <3>1. ctl.pc \in {"openCatalog", "writeCatalog"} /\ ctl'.pc = "compare"
      BY <1>3, <2>3
    <3> QED BY <1>1, <1>2, <2>1, <2>3, <3>1
  <2> QED BY <1>8, <2>2, <2>3 DEF SaveFails
<1> QED BY <1>4, <1>5, <1>6, <1>7, <1>8 DEF Save

\* A configuration answers the request, and the files are up to the catalog by then.
LEMMA ConfigureFiles == ASSUME Typed, FilesInv, Configure PROVE FilesInv'
<1>1. /\ UNCHANGED <<active, rows, secrets, catalogFile, secretFile, lost>>
      /\ ctl.pc \in Configuring \cup {"compare"} /\ ctl'.pc \in Configuring \cup {"idle"}
      /\ LoadedRows' = LoadedRows
  BY ConfigureSteps DEF Typed, catalog, files, LoadedRows
<1>2. ctl'.pc = "idle" => acked' = CatalogNow
  BY DEF Configure, IgnoreChoice, CompareChoice, StopOld, ReplaceClient, SetName, SetLink,
         SetModel, RebuildSelection, ConfigureStep, Answered, Typed, TypeOK
<1>3. /\ ctl.pc \notin {"openSecrets", "writeSecrets", "openCatalog", "writeCatalog"}
      /\ ctl'.pc \notin {"openSecrets", "writeSecrets", "openCatalog", "writeCatalog"}
  BY <1>1 DEF Configuring
<1>4. Normal' /\ SavedSecrets' /\ SavedCatalog'
  BY <1>1, <1>3 DEF FilesInv, Normal, SavedSecrets, SavedCatalog, LoadsNow
<1>5. Acks'
  BY <1>1, <1>2, <1>3 DEF Acks, CatalogNow
<1> QED BY <1>4, <1>5 DEF FilesInv

\* A restart has what the files load as.
LEMMA RestartFiles ==
  ASSUME Typed, CrashAndRestart
  PROVE  /\ FilesInv'
         /\ CatalogNow' = [active |-> catalogFile.active, rows |-> LoadedRows,
                           secrets |-> secretFile]
<1> DEFINE act == catalogFile.active
           rs == LoadedRows
           ss == secretFile
<1>1. act \in Providers /\ rs \in [Providers -> Row]
      /\ ss \in [Providers -> Secrets \cup {NoSecret}]
      /\ \A p \in Providers : LoadedRow(p, rs[p]) = rs[p]
  BY LoadsTyped DEF Typed
<1>2. Booted(act, rs, ss) /\ UNCHANGED <<catalogFile, secretFile>>
  BY DEF CrashAndRestart, files
<1>3. catalogFile'.active = act /\ LoadedRows' = rs /\ secretFile' = ss
  BY <1>2 DEF LoadedRows
<1> HIDE DEF act, rs, ss
<1>4. /\ active' = act /\ rows' = rs /\ secrets' = ss
      /\ ctl' \in [pc : {"idle"}, old : {0}, choice : Choice]
      /\ acked' = [active |-> act, rows |-> rs, secrets |-> ss]
  BY <1>1, <1>2, BootedTyped
<1>5. ctl'.pc = "idle"
  BY <1>4
<1>6. Normal' /\ SavedSecrets' /\ SavedCatalog' /\ Acks'
  BY <1>1, <1>3, <1>4, <1>5 DEF Normal, SavedSecrets, SavedCatalog, Acks, LoadsNow
<1>7. CatalogNow' = [active |-> act, rows |-> rs, secrets |-> ss]
  BY <1>4 DEF CatalogNow
<1> QED BY <1>6, <1>7 DEF FilesInv, act, rs, ss

LEMMA FilesStep == ASSUME Typed, FilesInv, [Next]_vars PROVE FilesInv'
<1> USE DEF FilesInv, Normal, SavedSecrets, SavedCatalog, Acks, LoadsNow, LoadsAcked
<1>1. CASE UNCHANGED vars
  BY <1>1 DEF vars, LoadedRows
<1>2. ASSUME NEW t \in Turns, Select(t) \/ Turn(t) PROVE FilesInv'
  <2>1. UNCHANGED <<active, rows, secrets, catalogFile, secretFile, ctl, acked, lost>>
    BY <1>2, TurnSteps DEF Typed, catalog, files
  <2> QED BY <2>1 DEF LoadedRows
<1> HIDE DEF FilesInv
<1> QED BY <1>1, <1>2, AcceptFiles, SaveFiles, ConfigureFiles, RestartFiles DEF Next

-----------------------------------------------------------------------------
(* The theorems                                                             *)

LEMMA Initially == Init => IInv
<1> SUFFICES ASSUME Init PROVE IInv
  OBVIOUS
<1>1. /\ active = FirstProvider /\ rows = DefaultRows /\ secrets = NoSecrets
      /\ catalogFile = Unreadable /\ secretFile = NoSecrets
      /\ ctl = [pc |-> "idle", old |-> 0, choice |-> DefaultChoice]
      /\ clients = <<DefaultChoice.setting>> /\ live = {} /\ current = 1
      /\ setting = DefaultChoice.setting /\ model = DefaultModel
      /\ candidate = [provider |-> DefaultProvider, model |-> DefaultModel]
      /\ requests = 0 /\ calls = 0 /\ crashes = 0 /\ applied = DefaultChoice
      /\ acked = [active |-> FirstProvider, rows |-> DefaultRows, secrets |-> NoSecrets]
      /\ lost = {} /\ raced = FALSE /\ fresh = {} /\ settled = {} /\ revived = {}
  BY DEF Init
<1>2. DefaultChoice.setting \in Setting /\ DefaultChoice \in Choice /\ DefaultModel \in Models
      /\ DefaultChoice.setting.provider = DefaultProvider /\ DefaultChoice.model = DefaultModel
  BY DefaultsTyped, ConstantsAssumption DEF DefaultChoice, Choice
<1>3. clients \in Seq(Setting) /\ Len(clients) = 1 /\ clients[1] = setting
  BY <1>1, <1>2
<1>4. ctl \in [pc : CtlPlaces, old : 0..Len(clients), choice : Choice] /\ ctl.pc = "idle"
  BY <1>1, <1>2, <1>3 DEF CtlPlaces
<1>5. turn \in [Turns -> TurnRecord] /\ \A t \in Turns : turn[t].pc = "idle"
  <2>1. /\ turn = [t \in Turns |-> [pc |-> "idle", provider |-> DefaultProvider,
                                    model |-> DefaultModel, client |-> 0]]
        /\ 0 \in 0..Len(clients) /\ "idle" \in TurnPlaces
    BY <1>3 DEF Init, TurnPlaces
  <2> QED BY <2>1, ConstantsAssumption DEF TurnRecord
<1>6. rows \in [Providers -> Row] /\ active \in Providers
      /\ secrets \in [Providers -> Secrets \cup {NoSecret}]
      /\ catalogFile \in [active : Providers, rows : [Providers -> Row]]
      /\ candidate \in [provider : Providers, model : Models]
      /\ acked \in Catalog
  BY <1>1, DefaultsTyped, ConstantsAssumption DEF Unreadable, Catalog
<1>7. TypeOK
  <2>1. requests \in 0..MaxRequests /\ crashes \in 0..MaxCrashes /\ calls \in Nat
    BY <1>1, ConstantsAssumption
  <2>2. current \in ClientIds /\ live \subseteq ClientIds /\ revived \subseteq ClientIds
    BY <1>1, <1>3 DEF ClientIds
  <2>3. secretFile \in [Providers -> Secrets \cup {NoSecret}]
    BY <1>1, DefaultsTyped
  <2>4. setting \in Setting /\ model \in Models /\ applied \in Choice
    BY <1>1, <1>2
  <2>5. /\ lost \subseteq {"catalog", "secrets", "refused"} /\ raced \in BOOLEAN
        /\ fresh \subseteq Turns /\ settled \subseteq Turns
    BY <1>1
  <2> QED BY <1>3, <1>4, <1>5, <1>6, <2>1, <2>2, <2>3, <2>4, <2>5
      DEF TypeOK, CtlPlaces, TurnRecord, TurnPlaces
<1>8. Typed
  BY <1>4, <1>5, <1>7 DEF Typed, ChoiceTaken, ClientNamed, Configuring
<1>9. ~Usable(Now)
  <2>1. Now.model = rows[active].model
    BY DEF Now, ChoiceOf
  <2>2. rows[active].model = NoModel
    BY <1>1, ConstantsAssumption DEF DefaultRows, DefaultRow
  <2> QED BY <2>1, <2>2 DEF Usable
<1>10. ExecutorInv
  BY <1>1, <1>2, <1>3, <1>4, <1>5, <1>9
  DEF ExecutorInv, Unraced, Apart, InForce, SelectsChoice, Workers, FreshCalls, NoneFresh,
      Applied, NewCandidate, Configuring, Before, Selecting
<1>11. LoadedRows = rows /\ \A p \in Providers : LoadedRow(p, rows[p]) = rows[p]
  <2>1. \A p \in Providers : LoadedRow(p, DefaultRow(p)) = DefaultRow(p)
    BY DEF LoadedRow, DefaultRow
  <2> QED BY <1>1, <2>1 DEF LoadedRows, Unreadable, DefaultRows
<1>12. FilesInv
  BY <1>1, <1>4, <1>11 DEF FilesInv, Normal, SavedSecrets, SavedCatalog, Acks, LoadsNow,
                           Unreadable
<1> QED BY <1>8, <1>10, <1>12 DEF IInv

LEMMA Inductive == IInv /\ [Next]_vars => IInv'
BY TypedStep, ExecutorStep, FilesStep DEF IInv

LEMMA Invariance == Spec => []IInv
BY Initially, Inductive, PTL DEF Spec

\* Every variable of the catalog, the files, the executor and the turns is in its type;
\* no choice without a model reaches the executor.
THEOREM TypeCorrect == Spec => []TypeOK
<1>1. IInv => TypeOK
  BY DEF IInv, Typed
<1> QED BY <1>1, Invariance, PTL

\* When no request is being served, the executor holds the active row of the catalog
\* with its secret, unless a choice was applied while a turn was selecting, the row
\* has no model, or a request was refused halfway (_changed).
THEOREM ExecutorFollows == Spec => []ExecutorFollowsCatalog
<1>1. IInv => ExecutorFollowsCatalog
  BY DEF IInv, ExecutorInv, Unraced, InForce, Applied, Now, Usable, Before,
         ExecutorFollowsCatalog
<1> QED BY <1>1, Invariance, PTL

\* A worker that runs belongs to the current client, or was started by a turn that had
\* hold of a client already shut down, unless a choice was applied while a turn was
\* selecting (configure_provider).
THEOREM ReplacedStop == Spec => []ReplacedWorkersStop
<1>1. IInv => ReplacedWorkersStop
  BY DEF IInv, ExecutorInv, Unraced, Workers, ReplacedWorkersStop
<1> QED BY <1>1, Invariance, PTL

\* A request made up after the last choice is sent with the provider, URL, mode, secret
\* and model of that choice, as long as none was applied while a turn was selecting
\* (configure_provider, submit_turn).
THEOREM CallsUse == Spec => CallsUseChoice
<1>1. IInv /\ [Next]_vars =>
        [\A t \in Turns : Calling(t) /\ t \in fresh /\ ~raced => Uses(t, applied)]_vars
  <2> SUFFICES ASSUME IInv, NEW t \in Turns, Calling(t), t \in fresh, ~raced
               PROVE  Uses(t, applied)
    OBVIOUS
  <2> QED BY DEF IInv, ExecutorInv, Unraced, FreshCalls, Calling, Uses
<1> QED BY <1>1, Invariance, PTL DEF Spec, CallsUseChoice

\* A restart finds the catalog and the secrets of the last answered request, or of the
\* one that was being saved, unless a save failed, the platform cannot encrypt, or the
\* crash fell between the opening of a file and its writing (_save_to_disk).
THEOREM RestartKeeps == Spec => RestartKeepsChoice
<1>1. IInv /\ [Next]_vars =>
        [crashes' # crashes /\ lost = {} /\ ctl.pc \notin {"writeSecrets", "writeCatalog"}
           => CatalogNow' \in {acked, CatalogNow}]_vars
  <2> SUFFICES ASSUME IInv, [Next]_vars, crashes' # crashes, lost = {},
                      ctl.pc \notin {"writeSecrets", "writeCatalog"}
               PROVE  CatalogNow' \in {acked, CatalogNow}
    OBVIOUS
  <2>1. CrashAndRestart
    <3>1. ~Accept
      BY AcceptSteps DEF IInv, Typed, Request
    <3>2. ~Save /\ ~Configure
      BY SaveSteps, ConfigureSteps DEF IInv, Typed
    <3>3. \A t \in Turns : ~(Select(t) \/ Turn(t))
      BY TurnSteps DEF IInv, Typed
    <3> QED BY <3>1, <3>2, <3>3 DEF Next, vars
  <2>2. CatalogNow' = [active |-> catalogFile.active, rows |-> LoadedRows,
                       secrets |-> secretFile]
    BY <2>1, RestartFiles DEF IInv
  <2>3. acked = [active |-> acked.active, rows |-> acked.rows, secrets |-> acked.secrets]
    BY DEF IInv, Typed, TypeOK, Catalog
  <2>4. SavedSecrets /\ SavedCatalog /\ Acks
    BY DEF IInv, FilesInv
  <2>5. CASE ctl.pc = "openSecrets"
    <3>1. secretFile = acked.secrets /\ LoadsAcked
      BY <2>4, <2>5 DEF SavedSecrets, SavedCatalog, Acks, LoadsNow, LoadsAcked
    <3> QED BY <2>2, <2>3, <3>1 DEF LoadsAcked
  <2>6. CASE ctl.pc # "openSecrets"
    <3>1. secretFile = secrets /\ (LoadsNow \/ (LoadsAcked /\ acked.secrets = secrets))
      BY <2>4, <2>6 DEF SavedSecrets, SavedCatalog
    <3>2. CASE LoadsNow
      BY <2>2, <3>1, <3>2 DEF LoadsNow, CatalogNow
    <3>3. CASE LoadsAcked /\ acked.secrets = secrets
      BY <2>2, <2>3, <3>1, <3>3 DEF LoadsAcked
    <3> QED BY <3>1, <3>2, <3>3
  <2> QED BY <2>5, <2>6
<1> QED BY <1>1, Invariance, PTL DEF Spec, RestartKeepsChoice
=============================================================================
