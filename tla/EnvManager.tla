----------------------------- MODULE EnvManager -----------------------------
(***************************************************************************)
(* Ephemeral environments of apps/env-manager: POST /ephemeral creates a   *)
(* row and provisions in the background (lib/lifecycle.ts), a failure      *)
(* rolls back, DELETE and the cleanup cron destroy.  Each action is one    *)
(* awaited call, to the database or to a provider, and the code up to the  *)
(* next one.                                                               *)
(*                                                                         *)
(* Fly and Vercel are external.  A call that fails may have been carried   *)
(* out or not; deleting what does not exist fails and changes nothing.  So *)
(* do database calls: a write that rejects may have been made.  A Fly app  *)
(* stands for its machines too.  Logs, URLs, secrets, public IPs, the seed *)
(* SQL and the frontend deployment are abstracted away: none of them can   *)
(* fail the provisioning.                                                  *)
(***************************************************************************)
EXTENDS Naturals

CONSTANTS
  Envs,       \* environments that may be requested
  Scope,      \* of each: the Vercel scope of its variable (its branch, or all previews)
  Requests,   \* DELETE requests and rows picked by the cleanup cron, each used once
  Leftovers,  \* what Fly may still hold, of earlier environments of the same names
  MaxFaults   \* bound: how many calls to Fly, Vercel, GitHub and the database fail for
              \* reasons of theirs

ASSUME EnvAssumption ==
  /\ Leftovers \subseteq [Envs -> SUBSET {"app", "db"}]
  /\ MaxFaults \in Nat
  /\ "none" \notin Envs

Scopes == {Scope[e] : e \in Envs}
FlyKinds == {"app", "db"}

VARIABLES
  status,     \* Environment.status; "none" before the row is created, "gone" after
  rowVar,     \* Environment.vercelEnvVarId, 0 for null
  step,       \* where provisionEphemeral is
  made,       \* created.flyApp and created.flyDb
  madeVar,    \* created.vercelEnvVarId
  conn,       \* pgConnStr is known
  nested,     \* failWith was called inside a try whose catch calls it again: "no", "always",
              \* or if the error could not be written ("unwritten")
  found,      \* the variable upsertEnvVar found after a conflict
  fly,        \* what exists at Fly, of each environment's app and Postgres
  vercel,     \* NEXT_PUBLIC_BACKEND_URL in each scope: its id and the environment it names
  lastId,     \* ids given to variables so far
  destroyer,  \* each request: its step, environment and snapshot of vercelEnvVarId
  faults,     \* calls that failed so far, of MaxFaults
  doubtful,   \* history: resources some failed call was about, or left by others
  raced       \* history: environments whose destruction began while they were provisioned

provisioner == <<step, made, madeVar, conn, nested, found>>
providers   == <<fly, vercel, lastId>>
trouble     == <<faults, doubtful>>
vars == <<status, rowVar, provisioner, providers, destroyer, trouble, raced>>

\* "cut": by a restart, or by a failed database call that nothing catches.
Ended == {"none", "done", "threw", "rethrown", "cut"}
NoVar == [id |-> 0, env |-> "none"]

------------------------------------------------------------------------------
(* Calls to the providers. *)

\* A call fails, for a reason in what exists (why) or for one of the provider's own.
Rejected(why) ==
  \/ why /\ UNCHANGED faults
  \/ faults < MaxFaults /\ faults' = faults + 1

Succeeds == UNCHANGED trouble
Fails(why) == Rejected(why) /\ UNCHANGED doubtful
FailsAbout(e, x, why) == Rejected(why) /\ doubtful' = doubtful \cup {<<e, x>>}

\* fly.deleteApp, after its machines; deletePostgresCluster is the same call.
DeleteFly(e, x) ==
  \/ fly' = [fly EXCEPT ![e] = @ \ {x}] /\ Succeeds
  \/ UNCHANGED fly /\ FailsAbout(e, x, FALSE)

\* vercel.deleteEnvVar, whichever environment the variable names by now.
DeleteVar(e, id) ==
  \/ /\ vercel' = [s \in Scopes |-> IF vercel[s].id = id THEN NoVar ELSE vercel[s]]
     /\ Succeeds
  \/ UNCHANGED vercel /\ FailsAbout(e, "var", FALSE)

------------------------------------------------------------------------------
Init ==
  /\ status = [e \in Envs |-> "none"]
  /\ rowVar = [e \in Envs |-> 0]
  /\ step = [e \in Envs |-> "none"]
  /\ made = [e \in Envs |-> {}]
  /\ madeVar = [e \in Envs |-> 0]
  /\ conn = [e \in Envs |-> FALSE]
  /\ nested = [e \in Envs |-> "no"]
  /\ found = [e \in Envs |-> 0]
  /\ fly \in Leftovers
  /\ vercel = [s \in Scopes |-> NoVar]
  /\ lastId = 0
  /\ destroyer = [r \in Requests |-> [step |-> "idle", env |-> "none", var |-> 0]]
  /\ faults = 0
  /\ doubtful = {p \in Envs \X FlyKinds : p[2] \in fly[p[1]]}
  /\ raced = {}

At(e, s) == step[e] = s
Go(e, s) == step' = [step EXCEPT ![e] = s]
RowGone(e) == status[e] = "gone"

\* failWith: roll back, write the error to the row, throw.
Fail(e) == Go(e, "rollVar")

\* Mutant of Register: a resource is not registered for the rollback.
RegisterForgotten(e, x) == made

Register(e, x) == [made EXCEPT ![e] = @ \cup {x}]

\* POST /api/environments/ephemeral, under a name no row has.
Post(e) ==
  /\ status[e] = "none"
  /\ status' = [status EXCEPT ![e] = "PROVISIONING"]
  /\ Go(e, "branch")
  /\ UNCHANGED <<rowVar, made, madeVar, conn, nested, found, providers, destroyer, trouble, raced>>

\* The row may have been created all the same: nobody provisions it.
PostFails(e) ==
  /\ status[e] = "none"
  /\ status' = [status EXCEPT ![e] = "PROVISIONING"]
  /\ Go(e, "cut")
  /\ Fails(FALSE)
  /\ UNCHANGED <<rowVar, made, madeVar, conn, nested, found, providers, destroyer, raced>>

\* Steps that change nothing but where the provisioner is.
onlyStep == <<status, rowVar, made, madeVar, conn, nested, found, providers, destroyer,
              raced>>

\* Outside any try: the first read of the row, what is read and written of the template, and
\* the last update.  (One that was made all the same is Finish.)
ReadOrWriteThrows(e) ==
  /\ step[e] \in {"branch", "template", "finish"}
  /\ Fails(FALSE)
  /\ Go(e, "cut")
  /\ UNCHANGED onlyStep

\* The GitHub lookup, and the update of the row's gitSha.
LookUpBranch(e) ==
  /\ At(e, "branch")
  /\ \/ ~RowGone(e) /\ Succeeds /\ Go(e, "template")
     \/ Fails(RowGone(e)) /\ Fail(e)
  /\ UNCHANGED onlyStep

\* Outside any try: for a row that is gone, writing dbTemplateId rejects without failWith.
ChooseTemplate(e) ==
  /\ At(e, "template")
  /\ \/ Go(e, "dbLookup")
     \/ RowGone(e) /\ Go(e, "threw")
  /\ UNCHANGED <<onlyStep, trouble>>

\* getApp answers null for any error.  What is found is taken over, for the rollback too.
LookUp(e, x, next, create) ==
  \/ /\ x \in fly[e]
     /\ made' = Register(e, x)
     /\ doubtful' = doubtful \ {<<e, x>>}
     /\ Go(e, next)
     /\ UNCHANGED faults
  \/ /\ Fails(x \notin fly[e])
     /\ Go(e, create)
     /\ UNCHANGED made

\* A failed call may have created what it was asked for; nobody registers it.
Create(e, x, next) ==
  \/ /\ x \notin fly[e]
     /\ fly' = [fly EXCEPT ![e] = @ \cup {x}]
     /\ made' = Register(e, x)
     /\ Go(e, next)
     /\ Succeeds
  \/ /\ FailsAbout(e, x, x \in fly[e])
     /\ \/ UNCHANGED fly
        \/ fly' = [fly EXCEPT ![e] = @ \cup {x}]
     /\ Fail(e)
     /\ UNCHANGED made

LookUpDb(e) ==
  /\ At(e, "dbLookup")
  /\ LookUp(e, "db", "appLookup", "dbCreate")
  /\ UNCHANGED <<status, rowVar, madeVar, conn, nested, found, providers, destroyer, raced>>

\* createPostgresCluster or forkPostgresCluster; both give a connection string.
CreateDb(e) ==
  /\ At(e, "dbCreate")
  /\ Create(e, "db", "appLookup")
  /\ conn' = [conn EXCEPT ![e] = TRUE]
  /\ UNCHANGED <<status, rowVar, madeVar, nested, found, vercel, lastId, destroyer, raced>>

\* The template has no database to fork from: failWith throws into its own try's catch.
TemplateHasNoSource(e) ==
  /\ At(e, "dbCreate")
  /\ nested' = [nested EXCEPT ![e] = "always"]
  /\ Fail(e)
  /\ UNCHANGED <<status, rowVar, made, madeVar, conn, found, providers, destroyer, trouble, raced>>

\* A database call about the template fails: before the fork, or after it.
TemplateFails(e) ==
  /\ At(e, "dbCreate")
  /\ \/ UNCHANGED <<fly, made>>
     \/ /\ "db" \notin fly[e]
        /\ fly' = [fly EXCEPT ![e] = @ \cup {"db"}]
        /\ made' = Register(e, "db")
  /\ Fails(FALSE)
  /\ Fail(e)
  /\ UNCHANGED <<status, rowVar, madeVar, conn, nested, found, vercel, lastId, destroyer, raced>>

AfterApp(e) == IF conn[e] THEN "machine" ELSE "attach"

LookUpApp(e) ==
  /\ At(e, "appLookup")
  /\ LookUp(e, "app", AfterApp(e), "appCreate")
  /\ UNCHANGED <<status, rowVar, madeVar, conn, nested, found, providers, destroyer, raced>>

CreateApp(e) ==
  /\ At(e, "appCreate")
  /\ Create(e, "app", AfterApp(e))
  /\ UNCHANGED <<status, rowVar, madeVar, conn, nested, found, vercel, lastId, destroyer,
                 raced>>

\* Only a Postgres that was taken over is attached.  The failWith for an output without
\* DATABASE_URL is caught again, and let through by its text; so is, without failWith, an
\* error of flyctl that names DATABASE_URL.
AttachDb(e) ==
  /\ At(e, "attach")
  /\ \/ FlyKinds \subseteq fly[e] /\ Go(e, "machine") /\ UNCHANGED nested
     \/ Fail(e) /\ (UNCHANGED nested \/ nested' = [nested EXCEPT ![e] = "unwritten"])
     \/ Go(e, "rethrown") /\ UNCHANGED nested
  /\ UNCHANGED <<status, rowVar, made, madeVar, conn, found, providers, destroyer, trouble, raced>>

CreateMachine(e) ==
  /\ At(e, "machine")
  /\ \/ "app" \in fly[e] /\ Succeeds /\ Go(e, "health")
     \/ Fails("app" \notin fly[e]) /\ Fail(e)
  /\ UNCHANGED onlyStep

\* Mutant of WaitForHealthy: an app that is not healthy in time throws without failWith.
WaitForHealthyThrows(e) ==
  /\ At(e, "health")
  /\ \/ "app" \in fly[e] /\ Succeeds /\ Go(e, "var")
     \/ Fails("app" \notin fly[e]) /\ Go(e, "threw")
  /\ UNCHANGED onlyStep

WaitForHealthy(e) ==
  /\ At(e, "health")
  /\ \/ "app" \in fly[e] /\ Succeeds /\ Go(e, "var")
     \/ Fails("app" \notin fly[e]) /\ Fail(e)
  /\ UNCHANGED onlyStep

\* upsertEnvVar creates the variable, or learns that the scope has one (ENV_CONFLICT).
CreateVar(e) ==
  /\ At(e, "var")
  /\ LET new == [id |-> lastId + 1, env |-> e]
     IN  \/ /\ vercel[Scope[e]] = NoVar
            /\ vercel' = [vercel EXCEPT ![Scope[e]] = new]
            /\ lastId' = new.id
            /\ madeVar' = [madeVar EXCEPT ![e] = new.id]
            /\ Go(e, "finish")
            /\ Succeeds
         \/ /\ vercel[Scope[e]] # NoVar
            /\ Go(e, "varFind")
            /\ UNCHANGED <<vercel, lastId, madeVar, trouble>>
         \/ /\ FailsAbout(e, "var", FALSE)
            /\ \/ UNCHANGED <<vercel, lastId>>
               \/ /\ vercel[Scope[e]] = NoVar
                  /\ vercel' = [vercel EXCEPT ![Scope[e]] = new]
                  /\ lastId' = new.id
            /\ Fail(e)
            /\ UNCHANGED madeVar
  /\ UNCHANGED <<status, rowVar, made, conn, nested, found, fly, destroyer, raced>>

FindVar(e) ==
  /\ At(e, "varFind")
  /\ \/ /\ vercel[Scope[e]] # NoVar
        /\ found' = [found EXCEPT ![e] = vercel[Scope[e]].id]
        /\ Go(e, "varUpdate")
        /\ Succeeds
     \/ /\ Fails(vercel[Scope[e]] = NoVar)
        /\ Fail(e)
        /\ UNCHANGED found
  /\ UNCHANGED <<status, rowVar, made, madeVar, conn, nested, providers, destroyer, raced>>

\* The variable of the scope is pointed at e, whoever created it.
UpdateVar(e) ==
  /\ At(e, "varUpdate")
  /\ LET there == vercel[Scope[e]].id = found[e]
         points == [vercel EXCEPT ![Scope[e]].env = e]
     IN  \/ /\ there
            /\ vercel' = points
            /\ madeVar' = [madeVar EXCEPT ![e] = found[e]]
            /\ Go(e, "finish")
            /\ Succeeds
         \/ /\ FailsAbout(e, "var", ~there)
            /\ \/ UNCHANGED vercel
               \/ there /\ vercel' = points
            /\ Fail(e)
            /\ UNCHANGED madeVar
  /\ UNCHANGED <<status, rowVar, made, conn, nested, found, fly, lastId, destroyer, raced>>

\* The last update, after the deployment; it rejects, and nothing catches it, for a row
\* that is gone.
Finish(e) ==
  /\ At(e, "finish")
  /\ IF RowGone(e)
     THEN Go(e, "threw") /\ UNCHANGED <<status, rowVar>>
     ELSE /\ status' = [status EXCEPT ![e] = "RUNNING"]
          /\ rowVar' = [rowVar EXCEPT ![e] = madeVar[e]]
          /\ Go(e, "done")
  /\ UNCHANGED <<made, madeVar, conn, nested, found, providers, destroyer, trouble,
                 raced>>

------------------------------------------------------------------------------
(* rollback and failWith. *)

RollBackVar(e) ==
  /\ At(e, "rollVar")
  /\ IF madeVar[e] = 0 THEN UNCHANGED <<vercel, trouble>> ELSE DeleteVar(e, madeVar[e])
  /\ Go(e, "rollApp")
  /\ UNCHANGED <<status, rowVar, made, madeVar, conn, nested, found, fly, lastId, destroyer,
                 raced>>

RollBackFly(e, x, here, next) ==
  /\ At(e, here)
  /\ IF x \in made[e] THEN DeleteFly(e, x) ELSE UNCHANGED <<fly, trouble>>
  /\ Go(e, next)
  /\ UNCHANGED <<status, rowVar, made, madeVar, conn, nested, found, vercel, lastId, destroyer,
                 raced>>

RollBackApp(e) == RollBackFly(e, "app", "rollApp", "rollDb")

RollBackDb(e) == RollBackFly(e, "db", "rollDb", "markError")

\* Mutant of AfterFailWith: failWith returns, and the provisioning goes on.
AfterFailWithGoesOn == "finish"

AfterFailWith == "threw"

\* Mutant of RowAfterFailure: the error is written by an upsert, which brings back the row.
RowAfterFailureUpserted(e) == "ERROR"

RowAfterFailure(e) == IF RowGone(e) THEN "gone" ELSE "ERROR"

MarkError(e) ==
  /\ At(e, "markError")
  /\ status' = [status EXCEPT ![e] = RowAfterFailure(e)]
  /\ IF nested[e] = "always" \/ (nested[e] = "unwritten" /\ RowGone(e))
     THEN Fail(e) ELSE Go(e, AfterFailWith)
  /\ nested' = [nested EXCEPT ![e] = "no"]
  /\ UNCHANGED <<rowVar, made, madeVar, conn, found, providers, destroyer, trouble,
                 raced>>

\* The update rejects, whether it was made or not.
MarkErrorFails(e) ==
  /\ At(e, "markError")
  /\ Fails(FALSE)
  /\ UNCHANGED status \/ status' = [status EXCEPT ![e] = RowAfterFailure(e)]
  /\ IF nested[e] = "no" THEN Go(e, "cut") ELSE Fail(e)
  /\ nested' = [nested EXCEPT ![e] = "no"]
  /\ UNCHANGED <<rowVar, made, madeVar, conn, found, providers, destroyer, raced>>

Provision(e) ==
  \/ ReadOrWriteThrows(e) \/ LookUpBranch(e) \/ ChooseTemplate(e)
  \/ LookUpDb(e) \/ CreateDb(e) \/ TemplateHasNoSource(e) \/ TemplateFails(e)
  \/ LookUpApp(e) \/ CreateApp(e) \/ AttachDb(e) \/ CreateMachine(e) \/ WaitForHealthy(e)
  \/ CreateVar(e) \/ FindVar(e) \/ UpdateVar(e) \/ Finish(e)
  \/ RollBackVar(e) \/ RollBackApp(e) \/ RollBackDb(e) \/ MarkError(e) \/ MarkErrorFails(e)

------------------------------------------------------------------------------
(* destroyEnvironment and its two callers. *)

DGo(r, s) == destroyer' = [destroyer EXCEPT ![r].step = s]
DEnv(r) == destroyer[r].env

Pick(r, e) ==
  /\ destroyer[r].step = "idle"
  /\ destroyer' = [destroyer EXCEPT ![r].step = "mark", ![r].env = e]
  /\ UNCHANGED <<status, rowVar, provisioner, providers, trouble, raced>>

\* DELETE /api/environments/:id, in whatever status the row is.
Delete(r, e) == status[e] \notin {"none", "gone"} /\ Pick(r, e)

\* The cleanup cron: the row has expired and is RUNNING.
Expire(r, e) == status[e] = "RUNNING" /\ Pick(r, e)

MarkDestroying(r) ==
  /\ destroyer[r].step = "mark"
  /\ IF RowGone(DEnv(r))
     THEN DGo(r, "end") /\ UNCHANGED status
     ELSE DGo(r, "load") /\ status' = [status EXCEPT ![DEnv(r)] = "DESTROYING"]
  /\ UNCHANGED <<rowVar, provisioner, providers, trouble, raced>>

LoadRow(r) ==
  /\ destroyer[r].step = "load"
  /\ IF RowGone(DEnv(r))
     THEN DGo(r, "end") /\ UNCHANGED raced
     ELSE /\ destroyer' = [destroyer EXCEPT ![r].step = "app", ![r].var = rowVar[DEnv(r)]]
          /\ raced' = raced \cup (IF step[DEnv(r)] \in Ended THEN {} ELSE {DEnv(r)})
  /\ UNCHANGED <<status, rowVar, provisioner, providers, trouble>>

\* Mutant of AfterApps: the Postgres cluster is left out.
AfterAppsSkips == "var"

AfterApps == "db"

DestroyFly(r, x, here, next) ==
  /\ destroyer[r].step = here
  /\ DeleteFly(DEnv(r), x)
  /\ DGo(r, next)
  /\ UNCHANGED <<status, rowVar, provisioner, vercel, lastId, raced>>

DestroyApp(r) == DestroyFly(r, "app", "app", AfterApps)

DestroyDb(r) == DestroyFly(r, "db", "db", "var")

DestroyVar(r) ==
  /\ destroyer[r].step = "var"
  /\ IF destroyer[r].var = 0 THEN UNCHANGED <<vercel, trouble>>
     ELSE DeleteVar(DEnv(r), destroyer[r].var)
  /\ DGo(r, "row")
  /\ UNCHANGED <<status, rowVar, provisioner, fly, lastId, raced>>

\* The row is deleted whatever failed before.
DeleteRow(r) ==
  /\ destroyer[r].step = "row"
  /\ status' = [status EXCEPT ![DEnv(r)] = "gone"]
  /\ DGo(r, "end")
  /\ UNCHANGED <<rowVar, provisioner, providers, trouble, raced>>

\* A database call fails: the update, which may have been made, the read, or the delete (one
\* that was made all the same is DeleteRow).  Nobody tries again.
DestroyFails(r) ==
  /\ destroyer[r].step \in {"mark", "load", "row"}
  /\ Fails(FALSE)
  /\ \/ UNCHANGED status
     \/ /\ destroyer[r].step = "mark" /\ ~RowGone(DEnv(r))
        /\ status' = [status EXCEPT ![DEnv(r)] = "DESTROYING"]
  /\ DGo(r, "cut")
  /\ UNCHANGED <<rowVar, provisioner, providers, raced>>

Destroy(r) ==
  \/ MarkDestroying(r) \/ LoadRow(r) \/ DestroyApp(r) \/ DestroyDb(r) \/ DestroyVar(r) \/ DeleteRow(r)
  \/ DestroyFails(r)

\* Nothing on start-up looks for what was under way.
Restart ==
  /\ step' = [e \in Envs |-> IF step[e] \in Ended THEN step[e] ELSE "cut"]
  /\ destroyer' = [r \in Requests |->
       IF destroyer[r].step \in {"idle", "end"} THEN destroyer[r]
       ELSE [destroyer[r] EXCEPT !.step = "cut"]]
  /\ UNCHANGED <<status, rowVar, made, madeVar, conn, nested, found, providers, trouble, raced>>

Next ==
  \/ \E e \in Envs : Post(e) \/ PostFails(e) \/ Provision(e)
  \/ \E r \in Requests : Destroy(r) \/ (\E e \in Envs : Delete(r, e) \/ Expire(r, e))
  \/ Restart

Spec == Init /\ [][Next]_vars

------------------------------------------------------------------------------
(* Properties. *)

Ids == 0..lastId

\* Every variable has the type the code gives it.
TypeOK ==
  /\ status \in [Envs -> {"none", "PROVISIONING", "RUNNING", "ERROR", "DESTROYING", "gone"}]
  /\ lastId \in Nat
  /\ rowVar \in [Envs -> Ids]
  /\ step \in [Envs -> Ended \cup
       {"branch", "template", "dbLookup", "dbCreate", "appLookup", "appCreate", "attach",
        "machine", "health", "var", "varFind", "varUpdate", "finish",
        "rollVar", "rollApp", "rollDb", "markError"}]
  /\ made \in [Envs -> SUBSET FlyKinds]
  /\ madeVar \in [Envs -> Ids]
  /\ conn \in [Envs -> BOOLEAN]
  /\ nested \in [Envs -> {"no", "always", "unwritten"}]
  /\ found \in [Envs -> Ids]
  /\ fly \in [Envs -> SUBSET FlyKinds]
  /\ vercel \in [Scopes -> [id : Ids, env : Envs \cup {"none"}]]
  /\ destroyer \in
       [Requests -> [step : {"idle", "mark", "load", "app", "db", "var", "row", "end", "cut"},
                     env : Envs \cup {"none"}, var : Ids]]
  /\ faults \in 0..MaxFaults
  /\ doubtful \subseteq Envs \X (FlyKinds \cup {"var"})
  /\ raced \subseteq Envs

\* What is left of an environment that no failed call was about.
LeftAtFly(e) == {x \in fly[e] : <<e, x>> \notin doubtful}
LeftAtVercel(e) == {s \in Scopes : vercel[s].env = e /\ <<e, "var">> \notin doubtful}

\* A row in ERROR has been rolled back: whatever step failed, and whatever was destroyed in
\* the meantime, nothing of the environment exists but what a failed call left behind.
ErrorLeavesNothing ==
  \A e \in Envs : status[e] = "ERROR" => LeftAtFly(e) = {} /\ LeftAtVercel(e) = {}

Alone(e) == \A f \in Envs \ {e} : Scope[f] = Scope[e] => status[f] = "none"

\* A row that is RUNNING, and that nobody asked to destroy, has its app and its database,
\* and the variable the row names points at it unless another environment of its branch
\* was requested: rollbacks and destructions of other environments do not reach it.
RunningIsServed ==
  \A e \in Envs :
    status[e] = "RUNNING" /\ (\A r \in Requests : DEnv(r) # e) =>
      /\ fly[e] = FlyKinds
      /\ Alone(e) => rowVar[e] # 0 /\ vercel[Scope[e]] = [id |-> rowVar[e], env |-> e]

\* When the row is gone, nothing of the environment exists but what a failed call left
\* behind, provided the provisioner had ended when the destruction read the row: however
\* many requests destroy it at a time, and also when the rollback came first or the
\* provisioning was cut off (which may lose the id of the variable).
DestroyLeavesNothing ==
  \A e \in Envs : status[e] = "gone" /\ e \notin raced =>
    /\ LeftAtFly(e) = {}
    /\ step[e] # "cut" => LeftAtVercel(e) = {}

\* A row in PROVISIONING or DESTROYING has somebody at work who will take it out of that
\* status.  The exceptions: a restart, or a failed database call that nothing catches, cut
\* off the provisioning or a destruction of this row, or the error of AttachDb that skips
\* failWith ended the provisioning.
SomebodyIsAtWork ==
  \A e \in Envs :
    /\ status[e] = "PROVISIONING" => step[e] \notin Ended \/ step[e] \in {"rethrown", "cut"}
    /\ status[e] = "DESTROYING" =>
         \E r \in Requests : DEnv(r) = e /\ destroyer[r].step \notin {"idle", "mark", "end"}

\* How the provisioning of an environment stands, as EnvLifecycle describes it.
WorkOf(e) ==
  IF step[e] \in {"none", "done", "cut"} THEN step[e]
  ELSE IF step[e] \in {"rollVar", "rollApp", "rollDb", "markError"} THEN "failing"
  ELSE IF step[e] \in {"threw", "rethrown"} THEN "failed"
  ELSE "open"

Asked(e) == \E r \in Requests : DEnv(r) = e

Lifecycle(e) == INSTANCE EnvLifecycle WITH
  Kinds  <- FlyKinds,
  status <- status[e],
  work   <- WorkOf(e),
  held   <- LeftAtFly(e),
  asked  <- Asked(e),
  raced  <- e \in raced

\* \A e \in Envs : Lifecycle(e)!Spec, with one action for all: every environment goes
\* through an EnvLifecycle whatever the others, the destructions and the providers do.
ImplementsLifecycle ==
  /\ \A e \in Envs : Lifecycle(e)!Init
  /\ [][\A e \in Envs : Lifecycle(e)!Step]_vars

\* Not true of the code: when provisioning fails, everything it registered is torn down.
FailureTearsDown ==
  \A e \in Envs : step[e] \in {"threw", "rethrown"} => made[e] \cap LeftAtFly(e) = {}
=============================================================================
