--------------------------- MODULE ProviderSwitch ---------------------------
(***************************************************************************)
(* The user's choice of a model provider, from the control plane to the     *)
(* calls of a turn.  The control plane keeps a catalog and secrets, saves   *)
(* both, and hands the active row to the turn executor, which replaces its  *)
(* worker client.  Its requests are served one at a time by the control     *)
(* thread, whose steps interleave with those of turn threads: a turn reads  *)
(* the selection, may replace the client itself, and then calls it.  No     *)
(* lock covers the executor's fields; each worker client has its own.       *)
(*                                                                         *)
(* A worker client is abstracted to what RpcService says of it: calls and   *)
(* shutdowns exclude each other, a call starts the worker if there is none, *)
(* and a shutdown leaves none.                                             *)
(***************************************************************************)
EXTENDS Naturals, Sequences, FiniteSets

CONSTANTS
  Providers, Models, Urls, Secrets,
  NoModel, NoUrl, NoSecret,
  Gateway,          \* "litellm", whose mode follows its URL
  FirstProvider,    \* the active provider of a new catalog, "lmstudio_responses"
  DefaultProvider,  \* config.provider, and config.foundation_model
  DefaultModel,
  Turns,            \* turn threads
  CanProtect,       \* the platform can encrypt a secret (Windows)
  MaxRequests,      \* bound on the control-plane requests
  MaxCalls,         \* bound: no turn begins a call when so many were made
  MaxCrashes

ASSUME ConstantsAssumption ==
  /\ FirstProvider \in Providers /\ DefaultProvider \in Providers
  /\ DefaultModel \in Models
  /\ NoModel \notin Models /\ NoUrl \notin Urls /\ NoSecret \notin Secrets
  /\ CanProtect \in BOOLEAN
  /\ MaxRequests \in Nat /\ MaxCalls \in Nat /\ MaxCrashes \in Nat

VARIABLES
  active, rows, secrets,     \* InMemoryProviderControl
  catalogFile, secretFile,   \* what loading each file would give
  ctl,                       \* where the control thread is, and what it carries
  clients,                   \* every worker client made, by its number
  live,                      \* the clients whose worker may be running
  current,                   \* self._provider
  setting,                   \* _provider_name, _base_url, _provider_mode, _provider_secret
  model,                     \* self._model
  candidate,                 \* the one candidate of self._provider_selection
  turn,                      \* each turn thread: its place and its locals
  requests, calls, crashes,
  applied,  \* history: the choice the last configure_provider was given
  acked,    \* history: the catalog the last answered request left
  lost,     \* history: how what is saved differs from the catalog
  raced,    \* history: a choice was applied while a turn was selecting
  fresh,    \* history: turns whose next call was made up after the last choice
  settled,  \* history: turns that selected after the last choice, alone
  revived   \* history: clients called after they were shut down

catalog == <<active, rows, secrets>>
files == <<catalogFile, secretFile>>
executor == <<clients, live, current, setting, model, candidate>>
history == <<applied, acked, lost, raced, fresh, settled, revived>>
vars == <<active, rows, secrets, catalogFile, secretFile, ctl, clients, live,
          current, setting, model, candidate, turn, requests, calls, crashes,
          applied, acked, lost, raced, fresh, settled, revived>>

Modes == {"openai_compatible", "litellm_sdk", "litellm_proxy"}
NoMode == "none"

Row == [model : Models \cup {NoModel}, url : Urls \cup {NoUrl}, mode : Modes]
Setting == [provider : Providers, url : Urls \cup {NoUrl},
            mode : Modes \cup {NoMode}, secret : Secrets \cup {NoSecret}]
Choice == [setting : Setting, model : Models \cup {NoModel}]
Catalog == [active : Providers, rows : [Providers -> Row],
            secrets : [Providers -> Secrets \cup {NoSecret}]]

NoSecrets == [p \in Providers |-> NoSecret]
ClientIds == 1..Len(clients)

Selecting == {"compare", "stop", "client", "name", "model"}
Configuring == {"stop", "client", "name", "link", "model", "select"}

TypeOK ==
  /\ active \in Providers
  /\ rows \in [Providers -> Row]
  /\ secrets \in [Providers -> Secrets \cup {NoSecret}]
  /\ catalogFile \in [active : Providers, rows : [Providers -> Row]]
  /\ secretFile \in [Providers -> Secrets \cup {NoSecret}]
  /\ ctl \in [pc : {"idle", "openSecrets", "writeSecrets", "openCatalog",
                    "writeCatalog", "compare"} \cup Configuring,
              old : 0..Len(clients), choice : Choice]
  /\ clients \in Seq(Setting)
  /\ live \subseteq ClientIds
  /\ current \in ClientIds
  /\ setting \in Setting
  /\ model \in Models
  /\ candidate \in [provider : Providers, model : Models]
  /\ turn \in [Turns -> [pc : {"idle", "build", "send", "wait", "call"} \cup Selecting,
                         provider : Providers, model : Models,
                         client : 0..Len(clients)]]
  /\ requests \in 0..MaxRequests
  /\ calls \in Nat
  /\ crashes \in 0..MaxCrashes
  /\ applied \in Choice
  /\ acked \in Catalog
  /\ lost \subseteq {"catalog", "secrets", "refused"} /\ raced \in BOOLEAN
  /\ fresh \subseteq Turns /\ settled \subseteq Turns
  /\ revived \subseteq ClientIds

-----------------------------------------------------------------------------
(* The catalog                                                             *)

DefaultRow(p) ==
  [model |-> NoModel, url |-> NoUrl,
   mode |-> IF p = Gateway THEN "litellm_sdk" ELSE "openai_compatible"]
DefaultRows == [p \in Providers |-> DefaultRow(p)]

\* A file that is missing, empty or cut off loads as a new catalog.
Unreadable == [active |-> FirstProvider, rows |-> DefaultRows]

CatalogNow == [active |-> active, rows |-> rows, secrets |-> secrets]

\* The mode that set_connection gives a row for a URL and a mode, or no mode.
ConnectionMode(p, url, mode) ==
  IF p = Gateway /\ url # NoUrl /\ mode \in {NoMode, "litellm_sdk"}
  THEN "litellm_proxy"
  ELSE IF mode = NoMode THEN rows[p].mode ELSE mode

\* Wrong: the mode is not restored.
LoadedWithoutMode(p, row) == [row EXCEPT !.mode = DefaultRow(p).mode]

\* What the load makes of a saved row.
LoadedRow(p, row) ==
  IF p = Gateway /\ row.url # NoUrl /\ row.mode = "litellm_sdk"
  THEN [row EXCEPT !.mode = "litellm_proxy"]
  ELSE row

LoadedRows == [p \in Providers |-> LoadedRow(p, catalogFile.rows[p])]

\* What _apply_provider_control hands to configure_provider.
ChoiceOf(act, rs, ss) ==
  [setting |-> [provider |-> act, url |-> rs[act].url, mode |-> rs[act].mode,
                secret |-> ss[act]],
   model |-> rs[act].model]

DefaultChoice ==
  [setting |-> [provider |-> DefaultProvider, url |-> NoUrl, mode |-> NoMode,
                secret |-> NoSecret],
   model |-> DefaultModel]

\* configure_provider ignores a choice without a model.
StartChoice(act, rs, ss) ==
  IF rs[act].model = NoModel THEN DefaultChoice ELSE ChoiceOf(act, rs, ss)

\* A process that starts: the executor, then the catalog and its choice.
Booted(act, rs, ss) ==
  LET choice == StartChoice(act, rs, ss) IN
  /\ active' = act /\ rows' = rs /\ secrets' = ss
  /\ ctl' = [pc |-> "idle", old |-> 0, choice |-> choice]
  /\ clients' = <<choice.setting>>
  /\ live' = {}
  /\ current' = 1
  /\ setting' = choice.setting
  /\ model' = choice.model
  /\ candidate' = [provider |-> choice.setting.provider, model |-> choice.model]
  /\ turn' = [t \in Turns |-> [pc |-> "idle", provider |-> DefaultProvider,
                               model |-> DefaultModel, client |-> 0]]
  /\ applied' = choice
  /\ acked' = [active |-> act, rows |-> rs, secrets |-> ss]
  /\ lost' = {} /\ raced' = FALSE /\ fresh' = {} /\ settled' = {} /\ revived' = {}

Init ==
  /\ active = FirstProvider
  /\ rows = DefaultRows
  /\ secrets = NoSecrets
  /\ catalogFile = Unreadable
  /\ secretFile = NoSecrets
  /\ ctl = [pc |-> "idle", old |-> 0, choice |-> DefaultChoice]
  /\ clients = <<DefaultChoice.setting>>
  /\ live = {}
  /\ current = 1
  /\ setting = DefaultChoice.setting
  /\ model = DefaultModel
  /\ candidate = [provider |-> DefaultProvider, model |-> DefaultModel]
  /\ turn = [t \in Turns |-> [pc |-> "idle", provider |-> DefaultProvider,
                              model |-> DefaultModel, client |-> 0]]
  /\ requests = 0 /\ calls = 0 /\ crashes = 0
  /\ applied = DefaultChoice
  /\ acked = [active |-> FirstProvider, rows |-> DefaultRows, secrets |-> NoSecrets]
  /\ lost = {} /\ raced = FALSE /\ fresh = {} /\ settled = {} /\ revived = {}

-----------------------------------------------------------------------------
(* Requests of the control plane: each changes the catalog and goes on to   *)
(* _changed, one that changes a secret by way of the secrets file           *)

Request(next) ==
  /\ ctl.pc = "idle"
  /\ requests < MaxRequests
  /\ requests' = requests + 1
  /\ ctl' = [ctl EXCEPT !.pc = next]
  /\ UNCHANGED <<files, executor, turn, calls, crashes, applied, acked, raced,
                 fresh, settled, revived>>

SetActiveProvider(p) ==
  /\ Request("openCatalog")
  /\ active' = p
  /\ UNCHANGED <<rows, secrets, lost>>

SetActiveModel(p, m) ==
  /\ Request("openCatalog")
  /\ rows' = [rows EXCEPT ![p].model = m]
  /\ UNCHANGED <<active, secrets, lost>>

\* Discovery finds models; the active one changes only if it is not among them
\* and the models known before, that is, if there is none.
RefreshModels(p, m) ==
  /\ Request("openCatalog")
  /\ rows' = [rows EXCEPT ![p].model = IF @ = NoModel THEN m ELSE @]
  /\ UNCHANGED <<active, secrets, lost>>

SetConnection(p, url, mode) ==
  /\ Request("openCatalog")
  /\ rows' = [rows EXCEPT ![p].url = url,
                          ![p].mode = ConnectionMode(p, url, mode)]
  /\ UNCHANGED <<active, secrets, lost>>

\* A mode the code does not know is refused after the URL has been assigned:
\* the answer is an error, nothing is saved, and the URL stays.
RefuseConnection(p, url) ==
  /\ Request("idle")
  /\ rows' = [rows EXCEPT ![p].url = url]
  /\ lost' = lost \cup {"refused"}
  /\ UNCHANGED <<active, secrets>>

\* The fields of a row that no other part of this module reads: the models of
\* the automation and of a comparison, the reasoning effort.
SetOther ==
  /\ Request("openCatalog")
  /\ UNCHANGED <<active, rows, secrets, lost>>

SetSecret(p, s) ==
  /\ Request("openSecrets")
  /\ secrets' = [secrets EXCEPT ![p] = s]
  /\ UNCHANGED <<active, rows, lost>>

RemoveSecret(p) ==
  /\ Request("openSecrets")
  /\ secrets' = [secrets EXCEPT ![p] = NoSecret]
  /\ UNCHANGED <<active, rows, lost>>

-----------------------------------------------------------------------------
(* The files: open for writing empties a file, an OSError is swallowed      *)

SaveStep(from, next) ==
  /\ ctl.pc = from
  /\ ctl' = [ctl EXCEPT !.pc = next]
  /\ UNCHANGED <<catalog, executor, turn, requests, calls, crashes, applied,
                 acked, raced, fresh, settled, revived>>

OpenSecrets ==
  /\ SaveStep("openSecrets", "writeSecrets")
  /\ secretFile' = NoSecrets
  /\ UNCHANGED <<catalogFile, lost>>

\* Only what the platform can encrypt is written.
WriteSecrets ==
  /\ SaveStep("writeSecrets", "openCatalog")
  /\ secretFile' = IF CanProtect THEN secrets ELSE NoSecrets
  /\ lost' = IF CanProtect \/ secrets = NoSecrets
             THEN lost \ {"secrets"} ELSE lost \cup {"secrets"}
  /\ UNCHANGED catalogFile

OpenCatalog ==
  /\ SaveStep("openCatalog", "writeCatalog")
  /\ catalogFile' = Unreadable
  /\ UNCHANGED <<secretFile, lost>>

WriteCatalog ==
  /\ SaveStep("writeCatalog", "compare")
  /\ catalogFile' = [active |-> active, rows |-> rows]
  /\ lost' = lost \ {"catalog"}
  /\ UNCHANGED secretFile

\* The file cannot be opened, or the write fails after it was emptied.
SaveFails ==
  /\ \/ /\ SaveStep("openSecrets", "openCatalog") \/ SaveStep("writeSecrets", "openCatalog")
        /\ lost' = lost \cup {"secrets"}
     \/ /\ SaveStep("openCatalog", "compare") \/ SaveStep("writeCatalog", "compare")
        /\ lost' = lost \cup {"catalog"}
  /\ UNCHANGED files

-----------------------------------------------------------------------------
(* configure_provider, called by _changed on the control thread             *)

\* The request is answered.
Answered(choice) ==
  /\ ctl' = [pc |-> "idle", old |-> 0, choice |-> choice]
  /\ acked' = CatalogNow

ConfigureStep(from) ==
  /\ ctl.pc = from
  /\ UNCHANGED <<catalog, files, turn, requests, calls, crashes, lost>>

\* Wrong: an empty model is passed on.
UsableAlways(choice) == TRUE

\* A choice without a model is ignored.
Usable(choice) == choice.model # NoModel

\* Wrong: the early return answers only if nothing was ever saved.
IgnoreChoiceUnsaved ==
  /\ ConfigureStep("compare")
  /\ catalogFile = Unreadable /\ ~Usable(ChoiceOf(active, rows, secrets))
  /\ Answered(ctl.choice)
  /\ UNCHANGED <<executor, applied, raced, fresh, settled, revived>>

IgnoreChoice ==
  /\ ConfigureStep("compare")
  /\ ~Usable(ChoiceOf(active, rows, secrets))
  /\ Answered(ctl.choice)
  /\ UNCHANGED <<executor, applied, raced, fresh, settled, revived>>

\* Wrong: a mode that changes alone makes no new client.
DiffersButMode(choice) == [choice.setting EXCEPT !.mode = setting.mode] # setting

Differs(choice) == choice.setting # setting

CompareChoice ==
  LET choice == ChoiceOf(active, rows, secrets) IN
  /\ ConfigureStep("compare")
  /\ Usable(choice)
  /\ ctl' = IF Differs(choice)
            THEN [pc |-> "stop", old |-> current, choice |-> choice]
            ELSE [pc |-> "model", old |-> 0, choice |-> choice]
  /\ raced' = (raced \/ \E t \in Turns : turn[t].pc \in Selecting)
  /\ fresh' = {} /\ settled' = {}
  /\ UNCHANGED <<executor, applied, acked, revived>>

\* A shutdown waits for the lock of the client, which a call holds.
Unlocked(c) == \A t \in Turns : ~(turn[t].pc = "call" /\ turn[t].client = c)

\* Wrong: the client is dropped and its worker left.
AfterDrop(c) == live

AfterStop(c) == live \ {c}

StopOld ==
  /\ ConfigureStep("stop")
  /\ Unlocked(ctl.old)
  /\ live' = AfterStop(ctl.old)
  /\ ctl' = [ctl EXCEPT !.pc = "client"]
  /\ UNCHANGED <<clients, current, setting, model, candidate, applied, acked,
                 raced, fresh, settled, revived>>

ReplaceClient ==
  /\ ConfigureStep("client")
  /\ clients' = Append(clients, ctl.choice.setting)
  /\ current' = Len(clients')
  /\ ctl' = [ctl EXCEPT !.pc = "name"]
  /\ UNCHANGED <<live, setting, model, candidate, applied, acked, raced, fresh,
                 settled, revived>>

SetName ==
  /\ ConfigureStep("name")
  /\ setting' = [setting EXCEPT !.provider = ctl.choice.setting.provider]
  /\ ctl' = [ctl EXCEPT !.pc = "link"]
  /\ UNCHANGED <<clients, live, current, model, candidate, applied, acked, raced,
                 fresh, settled, revived>>

SetLink ==
  /\ ConfigureStep("link")
  /\ setting' = [ctl.choice.setting EXCEPT !.provider = setting.provider]
  /\ ctl' = [ctl EXCEPT !.pc = "model"]
  /\ UNCHANGED <<clients, live, current, model, candidate, applied, acked, raced,
                 fresh, settled, revived>>

SetModel ==
  /\ ConfigureStep("model")
  /\ model' = ctl.choice.model
  /\ ctl' = [ctl EXCEPT !.pc = "select"]
  /\ UNCHANGED <<clients, live, current, setting, candidate, applied, acked,
                 raced, fresh, settled, revived>>

\* Wrong: the selection keeps the candidate it was built with.
OldCandidate(choice) == candidate

\* The selection runtime is rebuilt with the choice as its only candidate.
NewCandidate(choice) ==
  [provider |-> choice.setting.provider, model |-> choice.model]

RebuildSelection ==
  /\ ConfigureStep("select")
  /\ candidate' = NewCandidate(ctl.choice)
  /\ applied' = ctl.choice
  /\ Answered(ctl.choice)
  /\ UNCHANGED <<clients, live, current, setting, model, raced, fresh, settled, revived>>

-----------------------------------------------------------------------------
(* A turn                                                                  *)

TurnStep(t, from) ==
  /\ turn[t].pc = from
  /\ UNCHANGED <<catalog, files, ctl, requests, crashes, applied, acked, lost>>

Go(t, next) == turn' = [turn EXCEPT ![t].pc = next]

\* _run_provider_selection reads the candidate.
Select(t) ==
  /\ TurnStep(t, "idle")
  /\ calls < MaxCalls
  /\ turn' = [turn EXCEPT ![t].pc = "compare", ![t].provider = candidate.provider,
                          ![t].model = candidate.model]
  /\ raced' = (raced \/ ctl.pc \in Configuring)
  /\ settled' = IF ctl.pc \notin Configuring /\ \A u \in Turns : turn[u].pc = "idle"
                THEN {t} ELSE {}
  /\ UNCHANGED <<executor, calls, fresh, revived>>

Compare(t) ==
  /\ TurnStep(t, "compare")
  /\ turn' = IF turn[t].provider = setting.provider
             THEN [turn EXCEPT ![t].pc = "model"]
             ELSE [turn EXCEPT ![t].pc = "stop", ![t].client = current]
  /\ UNCHANGED <<executor, calls, raced, fresh, settled, revived>>

StopSelected(t) ==
  /\ TurnStep(t, "stop")
  /\ Unlocked(turn[t].client)
  /\ live' = AfterStop(turn[t].client)
  /\ Go(t, "client")
  /\ UNCHANGED <<clients, current, setting, model, candidate, calls, raced, fresh,
                 settled, revived>>

\* The client that a turn makes has the URL and the secret of the last choice,
\* and no mode.
ReplaceSelected(t) ==
  /\ TurnStep(t, "client")
  /\ clients' = Append(clients, [setting EXCEPT !.provider = turn[t].provider,
                                                !.mode = NoMode])
  /\ current' = Len(clients')
  /\ Go(t, "name")
  /\ UNCHANGED <<live, setting, model, candidate, calls, raced, fresh, settled, revived>>

NameSelected(t) ==
  /\ TurnStep(t, "name")
  /\ setting' = [setting EXCEPT !.provider = turn[t].provider]
  /\ Go(t, "model")
  /\ UNCHANGED <<clients, live, current, model, candidate, calls, raced, fresh,
                 settled, revived>>

ModelSelected(t) ==
  /\ TurnStep(t, "model")
  /\ model' = turn[t].model
  /\ Go(t, "build")
  /\ UNCHANGED <<clients, live, current, setting, candidate, calls, raced, fresh,
                 settled, revived>>

\* A provider request is made up with the model ...
Build(t) ==
  /\ TurnStep(t, "build")
  /\ turn' = [turn EXCEPT ![t].pc = "send", ![t].model = model]
  /\ fresh' = IF ctl.pc \in Configuring THEN fresh \ {t} ELSE fresh \cup {t}
  /\ UNCHANGED <<executor, calls, raced, settled, revived>>

\* ... and sent to the client of the moment.
Send(t) ==
  /\ TurnStep(t, "send")
  /\ turn' = [turn EXCEPT ![t].pc = "wait", ![t].client = current]
  /\ UNCHANGED <<executor, calls, raced, fresh, settled, revived>>

\* Somebody is about to put another client in the place of c.
Replacing(c) ==
  \/ ctl.pc = "client" /\ ctl.old = c
  \/ \E t \in Turns : turn[t].pc = "client" /\ turn[t].client = c

\* The call holds the lock of its client, and starts the worker if there is none.
Call(t) ==
  LET c == turn[t].client IN
  /\ TurnStep(t, "wait")
  /\ Unlocked(c)
  /\ calls' = calls + 1
  /\ live' = live \cup {c}
  /\ Go(t, "call")
  /\ revived' = IF c # current \/ Replacing(c) THEN revived \cup {c} ELSE revived
  /\ UNCHANGED <<clients, current, setting, model, candidate, raced, fresh,
                 settled>>

\* The call returns or raises; the turn makes another one or ends.
CallEnds(t) ==
  /\ TurnStep(t, "call")
  /\ \/ Go(t, "build") /\ calls < MaxCalls
     \/ Go(t, "idle")
  /\ UNCHANGED <<executor, calls, raced, fresh, settled, revived>>

-----------------------------------------------------------------------------
(* The process crashes, or is stopped, and starts again                     *)

CrashAndRestart ==
  /\ crashes < MaxCrashes
  /\ crashes' = crashes + 1
  /\ Booted(catalogFile.active, LoadedRows, secretFile)
  /\ UNCHANGED <<files, requests, calls>>

-----------------------------------------------------------------------------

Accept ==
  \/ \E p \in Providers : \/ SetActiveProvider(p)
                          \/ RemoveSecret(p)
                          \/ \E m \in Models : SetActiveModel(p, m) \/ RefreshModels(p, m)
                          \/ \E url \in Urls \cup {NoUrl} :
                               \/ RefuseConnection(p, url)
                               \/ \E mode \in Modes \cup {NoMode} : SetConnection(p, url, mode)
                          \/ \E s \in Secrets : SetSecret(p, s)
  \/ SetOther

Save == OpenSecrets \/ WriteSecrets \/ OpenCatalog \/ WriteCatalog \/ SaveFails

Configure == IgnoreChoice \/ CompareChoice \/ StopOld \/ ReplaceClient \/ SetName
             \/ SetLink \/ SetModel \/ RebuildSelection

Turn(t) == Compare(t) \/ StopSelected(t) \/ ReplaceSelected(t) \/ NameSelected(t)
           \/ ModelSelected(t) \/ Build(t) \/ Send(t) \/ Call(t) \/ CallEnds(t)

Next ==
  \/ Accept \/ Save \/ Configure
  \/ \E t \in Turns : Select(t) \/ Turn(t)
  \/ CrashAndRestart

Spec == Init /\ [][Next]_vars

\* Threads run, and a call ends: the worker client waits with a timeout.
Fairness ==
  /\ WF_vars(Save \/ Configure)
  /\ \A t \in Turns : WF_vars(Turn(t))

FairSpec == Spec /\ Fairness

-----------------------------------------------------------------------------
(* Properties                                                              *)

Calling(t) == turn[t].pc = "wait" /\ turn'[t].pc = "call"

Uses(t, choice) ==
  clients[turn[t].client] = choice.setting /\ turn[t].model = choice.model

\* As long as no choice was applied while a turn was selecting its provider, a
\* request made up after the last choice is sent with the provider, URL, mode,
\* secret and model of that choice, whatever sequence of control-plane requests,
\* turns and restarts led there (configure_provider, submit_turn).
CallsUseChoice ==
  [][\A t \in Turns : Calling(t) /\ t \in fresh /\ ~raced => Uses(t, applied)]_vars

\* The same without the first condition, for a turn that selects after the choice
\* is in force and runs alone: what the comment in configure_provider says.
ChoiceSticks ==
  [][\A t \in Turns : Calling(t) /\ t \in fresh \cap settled => Uses(t, applied)]_vars

\* When no request is being served, the executor holds the active row of the
\* catalog with its secret, unless a choice was applied while a turn was selecting,
\* the row has no model, or a request was refused halfway (_changed).
ExecutorFollowsCatalog ==
  LET choice == ChoiceOf(active, rows, secrets) IN
  ctl.pc = "idle" /\ ~raced /\ choice.model # NoModel /\ "refused" \notin lost
    => /\ setting = choice.setting /\ model = choice.model
       /\ clients[current] = setting

\* With the first exception, a worker that runs belongs to the current client, or
\* was started by a turn that had hold of a client already shut down.
ReplacedWorkersStop == ~raced => live \subseteq {current} \cup revived

\* A restart finds the catalog and the secrets of the last answered request, or
\* of the one that was being saved, unless a save failed, the platform cannot
\* encrypt, or the crash fell between the opening of a file and its writing.
RestartKeepsChoice ==
  [][crashes' # crashes /\ lost = {} /\ ctl.pc \notin {"writeSecrets", "writeCatalog"}
       => CatalogNow' \in {acked, CatalogNow}]_vars

\* Nobody waits for ever: a control-plane request is answered, though it may wait
\* for the call of a turn, and a turn ends, though it may wait for the call of
\* another, or for a shutdown (configure_provider, the locks of the clients).
NobodyHangs ==
  /\ ctl.pc # "idle" ~> ctl.pc = "idle"
  /\ \A t \in Turns : turn[t].pc # "idle" ~> turn[t].pc = "idle"
=============================================================================
