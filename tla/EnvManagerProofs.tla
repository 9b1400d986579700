-------------------------- MODULE EnvManagerProofs --------------------------
(***************************************************************************)
(* Safety of EnvManager for any number of environments, branches and       *)
(* destructions, and any number of failing calls.                          *)
(***************************************************************************)
EXTENDS EnvManager, TLAPS

------------------------------------------------------------------------------
(* The inductive invariant. *)

\* Nothing of e is left that no failed call was about: of one kind at Fly, and at Vercel.
Clean(e, x) == x \in fly[e] => <<e, x>> \in doubtful
VarClean(e) == \A s \in Scopes : vercel[s].env = e => <<e, "var">> \in doubtful

RollSteps == {"rollVar", "rollApp", "rollDb", "markError"}
HasAppSteps == {"attach", "machine", "health", "var", "varFind", "varUpdate", "finish", "done"}
HasDbSteps == HasAppSteps \cup {"appLookup", "appCreate"}
BeforeVarSteps ==
  {"none", "branch", "template", "dbLookup", "dbCreate"} \cup (HasDbSteps \ {"finish", "done"})

\* The row and the steps of the provisioner.
RowInv(e) ==
  /\ status[e] = "none" <=> step[e] = "none"
  /\ status[e] = "ERROR" => step[e] \in RollSteps \cup {"threw", "cut"}
  /\ status[e] = "RUNNING" => step[e] = "done"
  /\ rowVar[e] = IF step[e] = "done" THEN madeVar[e] ELSE 0

\* What is at Fly is registered, and rolled back in the order of rollback.
FlyInv(e) ==
  /\ \A x \in FlyKinds : Clean(e, x) \/ x \in made[e]
  /\ step[e] \in {"rollDb", "markError"} => Clean(e, "app")
  /\ step[e] = "markError" => Clean(e, "db")
  /\ status[e] = "ERROR" => Clean(e, "app") /\ Clean(e, "db")

\* The variable is made by the last step that can fail.
VarInv(e) ==
  /\ step[e] \in BeforeVarSteps \cup RollSteps \cup {"rethrown"} => VarClean(e)
  /\ step[e] \in BeforeVarSteps \cup RollSteps => madeVar[e] = 0
  /\ step[e] = "threw" => VarClean(e) \/ e \in raced
  /\ step[e] \in {"finish", "done"} =>
       VarClean(e) \/ \A s \in Scopes : vercel[s].env = e => vercel[s].id = madeVar[e]
  /\ status[e] = "ERROR" => VarClean(e)

\* An id is of one scope.
IdInv ==
  /\ \A s \in Scopes : /\ vercel[s].id = 0 <=> vercel[s].env = "none"
                       /\ \A e \in Envs : vercel[s].env = e => s = Scope[e]
                       /\ \A t \in Scopes : s # t /\ vercel[s].id = vercel[t].id => vercel[s].id = 0
                       /\ \A e \in Envs : s # Scope[e] /\ vercel[s].id # 0 =>
                            vercel[s].id # madeVar[e] /\ vercel[s].id # found[e]
  /\ \A e \in Envs : step[e] = "varUpdate" => found[e] # 0

\* A destruction that read the row after the provisioner had ended takes down one after the
\* other what is left.
DestroyInv(r) ==
  LET e == DEnv(r)
      s == destroyer[r].step
  IN  /\ s = "idle" => e = "none"
      /\ s \notin {"idle", "end"} => e \in Envs /\ status[e] # "none"
      /\ destroyer[r].var # 0 => e \in Envs /\ step[e] = "done" /\ destroyer[r].var = madeVar[e]
      /\ s \in {"app", "db", "var", "row"} /\ e \notin raced =>
           step[e] \in Ended /\ destroyer[r].var = rowVar[e]
      /\ s \in {"db", "var", "row"} /\ e \notin raced => Clean(e, "app")
      /\ s \in {"var", "row"} /\ e \notin raced => Clean(e, "db")
      /\ s = "row" /\ e \notin raced => step[e] = "cut" \/ VarClean(e)

GoneInv(e) ==
  status[e] = "gone" /\ e \notin raced =>
    /\ step[e] \in Ended
    /\ Clean(e, "app") /\ Clean(e, "db")
    /\ step[e] = "cut" \/ VarClean(e)

Untouched(e) == \A r \in Requests : DEnv(r) # e

\* What a provisioner has made is there while nobody destroys it.
HasFly(e) == /\ step[e] \in HasDbSteps => "db" \in fly[e]
             /\ step[e] \in HasAppSteps => "app" \in fly[e]
HasVar(e) == step[e] \in {"finish", "done"} /\ Alone(e) =>
               madeVar[e] # 0 /\ vercel[Scope[e]] = [id |-> madeVar[e], env |-> e]

ServedInv(e) == Untouched(e) => HasFly(e) /\ HasVar(e)

Inv ==
  /\ TypeOK
  /\ IdInv
  /\ \A e \in Envs : RowInv(e) /\ FlyInv(e) /\ VarInv(e) /\ GoneInv(e) /\ ServedInv(e)
  /\ \A r \in Requests : DestroyInv(r)

------------------------------------------------------------------------------
(* Types. *)

StepNames == Ended \cup
  {"branch", "template", "dbLookup", "dbCreate", "appLookup", "appCreate", "attach",
   "machine", "health", "var", "varFind", "varUpdate", "finish",
   "rollVar", "rollApp", "rollDb", "markError"}
Resources == Envs \X (FlyKinds \cup {"var"})
Nestings == {"no", "always", "unwritten"}

\* The request, whether the caller learns that the row was created or not.
Posts(e) == Post(e) \/ PostFails(e)

TroubleOK == faults \in 0..MaxFaults /\ doubtful \subseteq Resources

LEMMA StepNamesFacts ==
  /\ {"branch", "template", "dbLookup", "dbCreate", "appLookup", "appCreate", "attach",
      "machine", "health", "var", "varFind", "varUpdate", "finish", "done", "threw",
      "rethrown", "cut", "none"} \subseteq StepNames
  /\ RollSteps \subseteq StepNames /\ Ended \subseteq StepNames
  /\ "app" \in FlyKinds /\ "db" \in FlyKinds
BY DEF StepNames, RollSteps, Ended, FlyKinds

LEMMA TroubleSucceeds == TroubleOK /\ Succeeds => TroubleOK'
BY DEF TroubleOK, Succeeds, trouble

LEMMA TroubleFails == ASSUME TroubleOK, NEW why, Fails(why) PROVE TroubleOK'
BY EnvAssumption DEF TroubleOK, Fails, Rejected, EnvAssumption

LEMMA TroubleFailsAbout ==
  ASSUME TroubleOK, NEW why, NEW e \in Envs, NEW x \in FlyKinds \cup {"var"}, FailsAbout(e, x, why)
  PROVE  TroubleOK' /\ doubtful' = doubtful \cup {<<e, x>>}
BY EnvAssumption DEF TroubleOK, FailsAbout, Rejected, EnvAssumption, Resources

LEMMA DeleteFlyEffect ==
  ASSUME fly \in [Envs -> SUBSET FlyKinds], TroubleOK, NEW e \in Envs, NEW x \in FlyKinds,
         DeleteFly(e, x)
  PROVE  /\ fly' \in [Envs -> SUBSET FlyKinds] /\ TroubleOK'
         /\ Clean(e, x)' /\ doubtful \subseteq doubtful'
         /\ \A f \in Envs : fly'[f] \subseteq fly[f] /\ (f # e => fly'[f] = fly[f])
         /\ \A y \in fly[e] : y # x => y \in fly'[e]
<1>1. CASE fly' = [fly EXCEPT ![e] = @ \ {x}] /\ Succeeds
  BY <1>1, TroubleSucceeds DEF Clean, Succeeds, trouble
<1>2. CASE UNCHANGED fly /\ FailsAbout(e, x, FALSE)
  BY <1>2, TroubleFailsAbout DEF Clean
<1> QED
  BY <1>1, <1>2 DEF DeleteFly

LEMMA DeleteVarEffect ==
  ASSUME TypeOK, NEW e \in Envs, NEW id \in Ids, DeleteVar(e, id)
  PROVE  /\ vercel' \in [Scopes -> [id : Ids, env : Envs \cup {"none"}]] /\ TroubleOK'
         /\ doubtful \subseteq doubtful'
         /\ \A s \in Scopes : vercel'[s] = vercel[s] \/ (vercel'[s] = NoVar /\ vercel[s].id = id)
         /\ <<e, "var">> \in doubtful' \/ \A s \in Scopes : vercel[s].id = id => vercel'[s] = NoVar
<1>t. TroubleOK /\ vercel \in [Scopes -> [id : Ids, env : Envs \cup {"none"}]]
  BY DEF TypeOK, TroubleOK, Resources
<1>n. NoVar \in [id : Ids, env : Envs \cup {"none"}]
  BY DEF NoVar, Ids, TypeOK
<1>1. CASE vercel' = [s \in Scopes |-> IF vercel[s].id = id THEN NoVar ELSE vercel[s]] /\ Succeeds
  BY <1>1, <1>t, <1>n, TroubleSucceeds DEF Succeeds, trouble
<1>2. CASE UNCHANGED vercel /\ FailsAbout(e, "var", FALSE)
  BY <1>2, <1>t, TroubleFailsAbout
<1> QED
  BY <1>1, <1>2 DEF DeleteVar

LEMMA TypeInit == Init => TypeOK
<1> SUFFICES ASSUME Init PROVE TypeOK
  OBVIOUS
<1>1. /\ lastId = 0 /\ lastId \in Nat /\ 0 \in Ids /\ faults \in 0..MaxFaults
  BY EnvAssumption DEF Init, Ids, EnvAssumption
<1>2. fly \in [Envs -> SUBSET FlyKinds]
  BY EnvAssumption DEF Init, EnvAssumption, FlyKinds
<1>3. /\ status \in [Envs -> {"none", "PROVISIONING", "RUNNING", "ERROR", "DESTROYING", "gone"}]
      /\ rowVar \in [Envs -> Ids] /\ madeVar \in [Envs -> Ids] /\ found \in [Envs -> Ids]
      /\ made \in [Envs -> SUBSET FlyKinds]
      /\ conn \in [Envs -> BOOLEAN] /\ nested \in [Envs -> Nestings]
  BY <1>1 DEF Init, Nestings
<1>4. step \in [Envs -> StepNames]
  BY DEF Init, StepNames, Ended
<1>5. vercel \in [Scopes -> [id : Ids, env : Envs \cup {"none"}]]
  BY <1>1 DEF Init, NoVar
<1>6. destroyer \in [Requests -> [step : {"idle", "mark", "load", "app", "db", "var", "row", "end", "cut"},
                                 env : Envs \cup {"none"}, var : Ids]]
  BY <1>1 DEF Init
<1>7. raced \subseteq Envs
  BY DEF Init
<1>8. doubtful \subseteq Resources
  BY DEF Init, Resources
<1> QED
  BY <1>1, <1>2, <1>3, <1>4, <1>5, <1>6, <1>7, <1>8 DEF TypeOK, Nestings, StepNames, Resources

LEMMA TypeStep == TypeOK /\ (\A r \in Requests : DestroyInv(r)) /\ [Next]_vars => TypeOK'
<1> SUFFICES ASSUME TypeOK, \A r \in Requests : DestroyInv(r), [Next]_vars PROVE TypeOK'
  OBVIOUS
<1> DEFINE Statuses == {"none", "PROVISIONING", "RUNNING", "ERROR", "DESTROYING", "gone"}
           DSteps == {"idle", "mark", "load", "app", "db", "var", "row", "end", "cut"}
           Dest == [step : DSteps, env : Envs \cup {"none"}, var : Ids]
<1>t. /\ status \in [Envs -> Statuses]
      /\ lastId \in Nat /\ Ids \subseteq Nat /\ 0 \in Ids
      /\ rowVar \in [Envs -> Ids] /\ madeVar \in [Envs -> Ids] /\ found \in [Envs -> Ids]
      /\ step \in [Envs -> StepNames]
      /\ made \in [Envs -> SUBSET FlyKinds] /\ fly \in [Envs -> SUBSET FlyKinds]
      /\ conn \in [Envs -> BOOLEAN] /\ nested \in [Envs -> Nestings]
      /\ vercel \in [Scopes -> [id : Ids, env : Envs \cup {"none"}]]
      /\ destroyer \in [Requests -> Dest]
      /\ TroubleOK /\ raced \subseteq Envs
  BY DEF TypeOK, Nestings, Ids, StepNames, Resources, TroubleOK
\* A step of the provisioner.
<1>g. ASSUME NEW e \in Envs, NEW s, Go(e, s), s \in StepNames PROVE step' \in [Envs -> StepNames]
  BY <1>g, <1>t DEF Go
<1>f. ASSUME NEW e \in Envs, Fail(e) PROVE step' \in [Envs -> StepNames]
  BY <1>f, <1>g, StepNamesFacts DEF Fail, RollSteps
<1>k. ASSUME step' \in [Envs -> StepNames], TroubleOK',
             UNCHANGED <<status, rowVar, madeVar, conn, nested, found, vercel, lastId, destroyer,
                         raced>>,
             made' \in [Envs -> SUBSET FlyKinds], fly' \in [Envs -> SUBSET FlyKinds]
      PROVE  TypeOK'
  BY <1>k, <1>t DEF TypeOK, Nestings, Ids, StepNames, Resources, TroubleOK
<1>1. ASSUME NEW e \in Envs, Posts(e) PROVE TypeOK'
  <2>1. step' \in [Envs -> StepNames]
    BY <1>1, <1>g, StepNamesFacts DEF Posts, Post, PostFails
  <2>2. status' \in [Envs -> Statuses]
    BY <1>1, <1>t DEF Posts, Post, PostFails
  <2>3. TroubleOK'
    BY <1>1, <1>t, TroubleFails DEF Posts, Post, PostFails, trouble, TroubleOK
  <2> QED
    BY <1>1, <1>t, <2>1, <2>2, <2>3 DEF Posts, Post, PostFails, providers, trouble, TypeOK,
       Nestings, Ids, StepNames, Resources, TroubleOK
<1>2. ASSUME NEW e \in Envs,
             ReadOrWriteThrows(e) \/ LookUpBranch(e) \/ CreateMachine(e) \/ WaitForHealthy(e)
      PROVE  TypeOK'
  <2>1. step' \in [Envs -> StepNames]
    BY <1>2, <1>g, <1>f, StepNamesFacts DEF ReadOrWriteThrows, LookUpBranch, CreateMachine,
       WaitForHealthy
  <2>2. TroubleOK'
    BY <1>2, <1>t, TroubleSucceeds, TroubleFails DEF ReadOrWriteThrows, LookUpBranch, CreateMachine,
       WaitForHealthy
  <2>3. UNCHANGED <<onlyStep>>
    BY <1>2 DEF ReadOrWriteThrows, LookUpBranch, CreateMachine,
       WaitForHealthy
  <2> QED
    BY <1>k, <1>t, <2>1, <2>2, <2>3 DEF onlyStep, providers
<1>3. ASSUME NEW e \in Envs, ChooseTemplate(e) PROVE TypeOK'
  <2>1. step' \in [Envs -> StepNames]
    BY <1>3, <1>g, <1>f, StepNamesFacts DEF ChooseTemplate
  <2>2. UNCHANGED <<onlyStep, trouble>>
    BY <1>3 DEF ChooseTemplate
  <2> QED
    BY <1>k, <1>t, <2>1, <2>2 DEF onlyStep, providers, trouble, TroubleOK
<1>4. ASSUME NEW e \in Envs, NEW x \in FlyKinds, NEW next \in StepNames, NEW create \in StepNames,
             LookUp(e, x, next, create)
      PROVE  step' \in [Envs -> StepNames] /\ TroubleOK' /\ made' \in [Envs -> SUBSET FlyKinds]
  <2>1. step' \in [Envs -> StepNames]
    BY <1>4, <1>g DEF LookUp
  <2>2. CASE x \in fly[e] /\ made' = Register(e, x) /\ doubtful' = doubtful \ {<<e, x>>}
             /\ UNCHANGED faults
    BY <1>t, <2>1, <2>2 DEF Register, TroubleOK
  <2>3. CASE Fails(x \notin fly[e]) /\ UNCHANGED made
    BY <1>t, <2>1, <2>3, TroubleFails
  <2> QED
    BY <1>4, <2>2, <2>3 DEF LookUp
<1>5. ASSUME NEW e \in Envs, NEW x \in FlyKinds, NEW next \in StepNames, Create(e, x, next)
      PROVE  /\ step' \in [Envs -> StepNames] /\ TroubleOK'
             /\ made' \in [Envs -> SUBSET FlyKinds] /\ fly' \in [Envs -> SUBSET FlyKinds]
  <2>1. step' \in [Envs -> StepNames]
    BY <1>5, <1>g, <1>f DEF Create
  <2>2. fly' = fly \/ fly' = [fly EXCEPT ![e] = @ \cup {x}]
    BY <1>5 DEF Create
  <2>3. made' = made \/ made' = [made EXCEPT ![e] = @ \cup {x}]
    BY <1>5 DEF Create, Register
  <2>4. TroubleOK'
    BY <1>5, <1>t, TroubleSucceeds, TroubleFailsAbout DEF Create
  <2>5. fly' \in [Envs -> SUBSET FlyKinds]
    BY <1>t, <2>2
  <2>6. made' \in [Envs -> SUBSET FlyKinds]
    BY <1>t, <2>3
  <2> QED
    BY <2>1, <2>4, <2>5, <2>6
<1>6. ASSUME NEW e \in Envs, LookUpDb(e) \/ LookUpApp(e) PROVE TypeOK'
  <2>1. step' \in [Envs -> StepNames] /\ TroubleOK' /\ made' \in [Envs -> SUBSET FlyKinds]
    BY <1>4, <1>6, StepNamesFacts DEF LookUpDb, LookUpApp, AfterApp
  <2> QED
    BY <1>6, <1>k, <1>t, <2>1 DEF LookUpDb, LookUpApp, providers
<1>7. ASSUME NEW e \in Envs, CreateDb(e) \/ CreateApp(e) PROVE TypeOK'
  <2>1. /\ step' \in [Envs -> StepNames] /\ TroubleOK'
        /\ made' \in [Envs -> SUBSET FlyKinds] /\ fly' \in [Envs -> SUBSET FlyKinds]
    BY <1>5, <1>7, StepNamesFacts DEF CreateDb, CreateApp, AfterApp
  <2>2. conn' \in [Envs -> BOOLEAN]
    BY <1>7, <1>t DEF CreateDb, CreateApp
  <2> QED
    BY <1>7, <1>t, <2>1, <2>2
       DEF CreateDb, CreateApp, TypeOK, Nestings, Ids, StepNames, Resources, TroubleOK
<1>8. ASSUME NEW e \in Envs, TemplateHasNoSource(e) \/ AttachDb(e) PROVE TypeOK'
  <2>1. step' \in [Envs -> StepNames] /\ nested' \in [Envs -> Nestings]
    BY <1>8, <1>g, <1>f, <1>t, StepNamesFacts DEF TemplateHasNoSource, AttachDb, Nestings
  <2> QED
    BY <1>8, <1>t, <2>1 DEF TemplateHasNoSource, AttachDb, providers, trouble, TypeOK, Nestings,
       Ids, StepNames, Resources, TroubleOK
<1>9. ASSUME NEW e \in Envs, CreateVar(e) PROVE TypeOK'
  <2> DEFINE new == [id |-> lastId + 1, env |-> e]
  <2>s. Scope[e] \in Scopes
    BY DEF Scopes
  <2>1. step' \in [Envs -> StepNames]
    BY <1>9, <1>g, <1>f, StepNamesFacts DEF CreateVar
  <2>2. TroubleOK'
    BY <1>9, <1>t, TroubleSucceeds, TroubleFailsAbout DEF CreateVar, trouble, TroubleOK
  <2>3. \/ /\ vercel' = [vercel EXCEPT ![Scope[e]] = new] /\ lastId' = lastId + 1
           /\ madeVar' = [madeVar EXCEPT ![e] = lastId + 1] \/ madeVar' = madeVar
        \/ UNCHANGED <<vercel, lastId, madeVar>>
    BY <1>9 DEF CreateVar
  <2>4. lastId' \in Nat /\ Ids \subseteq Ids' /\ (lastId' = lastId + 1 => lastId + 1 \in Ids')
    BY <1>t, <2>3 DEF Ids
  <2>5. madeVar' \in [Envs -> Ids']
    BY <1>t, <2>3, <2>4
  <2>6. vercel' \in [Scopes -> [id : Ids', env : Envs \cup {"none"}]]
    <3>1. CASE vercel' = [vercel EXCEPT ![Scope[e]] = new] /\ lastId' = lastId + 1
      <4>1. new \in [id : Ids', env : Envs \cup {"none"}]
        BY <2>4, <3>1
      <4>2. \A s \in Scopes : vercel[s] \in [id : Ids', env : Envs \cup {"none"}]
        BY <1>t, <2>4
      <4> HIDE DEF new
      <4> QED
        BY <1>t, <3>1, <4>1, <4>2
    <3>2. CASE UNCHANGED <<vercel, lastId>>
      BY <1>t, <3>2 DEF Ids
    <3> QED
      BY <2>3, <3>1, <3>2
  <2>7. destroyer' \in [Requests -> [step : DSteps, env : Envs \cup {"none"}, var : Ids']]
    BY <1>9, <1>t, <2>4 DEF CreateVar
  <2>8. rowVar' \in [Envs -> Ids'] /\ found' \in [Envs -> Ids']
    BY <1>9, <1>t, <2>4 DEF CreateVar
  <2> QED
    BY <1>9, <1>t, <2>1, <2>2, <2>4, <2>5, <2>6, <2>7, <2>8
       DEF CreateVar, TypeOK, Nestings, StepNames, Resources, TroubleOK
<1>10. ASSUME NEW e \in Envs, FindVar(e) PROVE TypeOK'
  <2>s. Scope[e] \in Scopes
    BY DEF Scopes
  <2>1. step' \in [Envs -> StepNames]
    BY <1>10, <1>g, <1>f, StepNamesFacts DEF FindVar
  <2>2. TroubleOK'
    BY <1>10, <1>t, TroubleSucceeds, TroubleFails DEF FindVar
  <2>3. found' \in [Envs -> Ids]
    <3>1. PICK i \in Ids : i = vercel[Scope[e]].id
      BY <1>t, <2>s
    <3> QED
      BY <1>10, <1>t, <3>1 DEF FindVar
  <2> QED
    BY <1>10, <1>t, <2>1, <2>2, <2>3
       DEF FindVar, providers, TypeOK, Nestings, Ids, StepNames, Resources, TroubleOK
<1>11. ASSUME NEW e \in Envs, UpdateVar(e) PROVE TypeOK'
  <2>s. Scope[e] \in Scopes
    BY DEF Scopes
  <2>1. step' \in [Envs -> StepNames]
    BY <1>11, <1>g, <1>f, StepNamesFacts DEF UpdateVar
  <2>2. TroubleOK'
    BY <1>11, <1>t, TroubleSucceeds, TroubleFailsAbout DEF UpdateVar
  <2>3. madeVar' \in [Envs -> Ids]
    BY <1>11, <1>t DEF UpdateVar
  <2>4. vercel' \in [Scopes -> [id : Ids, env : Envs \cup {"none"}]]
    <3>1. PICK v : v = [vercel[Scope[e]] EXCEPT !.env = e]
      OBVIOUS
    <3>2. v \in [id : Ids, env : Envs \cup {"none"}]
      BY <1>t, <2>s, <3>1
    <3>3. vercel' = vercel \/ vercel' = [vercel EXCEPT ![Scope[e]] = v]
      BY <1>11, <3>1 DEF UpdateVar
    <3> QED
      BY <1>t, <3>2, <3>3
  <2> QED
    BY <1>11, <1>t, <2>1, <2>2, <2>3, <2>4
       DEF UpdateVar, TypeOK, Nestings, Ids, StepNames, Resources, TroubleOK
<1>12. ASSUME NEW e \in Envs, Finish(e) PROVE TypeOK'
  <2>1. step' \in [Envs -> StepNames]
    BY <1>12, <1>g, StepNamesFacts DEF Finish
  <2>2. status' \in [Envs -> Statuses] /\ rowVar' \in [Envs -> Ids]
    BY <1>12, <1>t DEF Finish
  <2> QED
    BY <1>12, <1>t, <2>1, <2>2 DEF Finish, providers, trouble, TypeOK, Nestings, Ids, StepNames,
       Resources,
       TroubleOK
<1>13. ASSUME NEW e \in Envs, RollBackVar(e) PROVE TypeOK'
  <2>1. step' \in [Envs -> StepNames]
    BY <1>13, <1>g, StepNamesFacts DEF RollBackVar, RollSteps
  <2>2. TroubleOK' /\ vercel' \in [Scopes -> [id : Ids, env : Envs \cup {"none"}]]
    BY <1>13, <1>t, DeleteVarEffect DEF RollBackVar, trouble, TroubleOK
  <2> QED
    BY <1>13, <1>t, <2>1, <2>2 DEF RollBackVar, TypeOK, Nestings, Ids, StepNames, Resources,
       TroubleOK
<1>14. ASSUME NEW e \in Envs, RollBackApp(e) \/ RollBackDb(e) PROVE TypeOK'
  <2>1. step' \in [Envs -> StepNames]
    BY <1>14, <1>g, StepNamesFacts DEF RollBackApp, RollBackDb, RollBackFly, RollSteps
  <2>2. TroubleOK' /\ fly' \in [Envs -> SUBSET FlyKinds]
    BY <1>14, <1>t, DeleteFlyEffect, StepNamesFacts
       DEF RollBackApp, RollBackDb, RollBackFly, trouble, TroubleOK
  <2> QED
    BY <1>14, <1>t, <1>k, <2>1, <2>2 DEF RollBackApp, RollBackDb, RollBackFly
<1>15. ASSUME NEW e \in Envs, MarkError(e) \/ MarkErrorFails(e) PROVE TypeOK'
  <2>1. step' \in [Envs -> StepNames]
    BY <1>15, <1>g, <1>f, StepNamesFacts DEF MarkError, MarkErrorFails, AfterFailWith
  <2>2. status' \in [Envs -> Statuses] /\ nested' \in [Envs -> Nestings]
    BY <1>15, <1>t DEF MarkError, MarkErrorFails, RowAfterFailure, Nestings
  <2>3. TroubleOK'
    BY <1>15, <1>t, TroubleFails DEF MarkError, MarkErrorFails, trouble, TroubleOK
  <2>4. UNCHANGED <<rowVar, made, madeVar, conn, found, providers, destroyer, raced>>
    BY <1>15 DEF MarkError, MarkErrorFails
  <2> QED
    BY <1>t, <2>1, <2>2, <2>3, <2>4 DEF providers, TypeOK, Statuses, Nestings, Ids, StepNames,
       Resources, TroubleOK
<1>d. ASSUME NEW r \in Requests, destroyer[r].step \notin {"idle", "end"} PROVE DEnv(r) \in Envs
  BY <1>d DEF DestroyInv
<1>s. ASSUME NEW r \in Requests, NEW s \in DSteps, DGo(r, s) PROVE destroyer' \in [Requests -> Dest]
  <2>1. PICK d : d = [destroyer[r] EXCEPT !.step = s]
    OBVIOUS
  <2>2. d \in Dest
    BY <1>t, <2>1
  <2>3. destroyer' = [destroyer EXCEPT ![r] = d]
    BY <1>s, <2>1 DEF DGo
  <2> QED
    BY <1>t, <2>2, <2>3
<1>16. ASSUME NEW r \in Requests, NEW e \in Envs, Pick(r, e) PROVE TypeOK'
  <2>1. PICK d : d = [[destroyer[r] EXCEPT !.step = "mark"] EXCEPT !.env = e]
    OBVIOUS
  <2>2. d \in Dest
    <3>1. PICK c : c = [destroyer[r] EXCEPT !.step = "mark"]
      OBVIOUS
    <3>2. c \in Dest
      BY <1>t, <3>1
    <3>3. d = [c EXCEPT !.env = e]
      BY <2>1, <3>1
    <3> QED
      BY <3>2, <3>3
  <2>3. destroyer' = [destroyer EXCEPT ![r] = d]
    BY <1>16, <1>t, <2>1 DEF Pick
  <2>4. destroyer' \in [Requests -> Dest]
    BY <1>t, <2>2, <2>3
  <2> QED
    BY <1>16, <1>t, <2>4 DEF Pick, provisioner, providers, trouble, TypeOK, Nestings, Ids,
       StepNames, Resources,
       TroubleOK
<1>17. ASSUME NEW r \in Requests, MarkDestroying(r) PROVE TypeOK'
  <2>1. destroyer' \in [Requests -> Dest] /\ status' \in [Envs -> Statuses]
    BY <1>17, <1>s, <1>t DEF MarkDestroying
  <2> QED
    BY <1>17, <1>t, <2>1 DEF MarkDestroying, provisioner, providers, trouble, TypeOK, Nestings, Ids,
       StepNames,
       Resources, TroubleOK
<1>18. ASSUME NEW r \in Requests, LoadRow(r) PROVE TypeOK'
  <2>e. DEnv(r) \in Envs
    BY <1>18, <1>d DEF LoadRow
  <2>1. destroyer' \in [Requests -> Dest]
    <3>1. CASE RowGone(DEnv(r))
      BY <1>18, <1>s, <3>1 DEF LoadRow
    <3>2. CASE ~RowGone(DEnv(r))
      <4>1. PICK i \in Ids : i = rowVar[DEnv(r)]
        BY <1>t, <2>e
      <4>2. PICK c : c = [destroyer[r] EXCEPT !.step = "app"]
        OBVIOUS
      <4>3. c \in Dest
        BY <1>t, <4>2
      <4>4. [c EXCEPT !.var = i] \in Dest
        BY <4>1, <4>3
      <4>5. destroyer' = [destroyer EXCEPT ![r] = [c EXCEPT !.var = i]]
        BY <1>18, <1>t, <3>2, <4>1, <4>2 DEF LoadRow
      <4> QED
        BY <1>t, <4>4, <4>5
    <3> QED
      BY <3>1, <3>2
  <2>2. raced' \subseteq Envs
    BY <1>18, <1>t, <2>e DEF LoadRow
  <2> QED
    BY <1>18, <1>t, <2>1, <2>2 DEF LoadRow, provisioner, providers, trouble, TypeOK, Nestings, Ids,
       StepNames,
       Resources, TroubleOK
<1>19. ASSUME NEW r \in Requests, DestroyApp(r) \/ DestroyDb(r) PROVE TypeOK'
  <2>e. DEnv(r) \in Envs
    BY <1>19, <1>d DEF DestroyApp, DestroyDb, DestroyFly
  <2>1. destroyer' \in [Requests -> Dest]
    BY <1>19, <1>s DEF DestroyApp, DestroyDb, DestroyFly, AfterApps
  <2>2. TroubleOK' /\ fly' \in [Envs -> SUBSET FlyKinds]
    BY <1>19, <1>t, <2>e, DeleteFlyEffect, StepNamesFacts DEF DestroyApp, DestroyDb, DestroyFly
  <2> QED
    BY <1>19, <1>t, <2>1, <2>2 DEF DestroyApp, DestroyDb, DestroyFly, provisioner, TypeOK, Nestings,
       Ids,
       StepNames, Resources, TroubleOK
<1>20. ASSUME NEW r \in Requests, DestroyVar(r) PROVE TypeOK'
  <2>e. DEnv(r) \in Envs
    BY <1>20, <1>d DEF DestroyVar
  <2>1. destroyer' \in [Requests -> Dest]
    BY <1>20, <1>s DEF DestroyVar
  <2>2. TroubleOK' /\ vercel' \in [Scopes -> [id : Ids, env : Envs \cup {"none"}]]
    BY <1>20, <1>t, <2>e, DeleteVarEffect DEF DestroyVar, trouble, TroubleOK
  <2> QED
    BY <1>20, <1>t, <2>1, <2>2 DEF DestroyVar, provisioner, TypeOK, Nestings, Ids, StepNames,
       Resources,
       TroubleOK
<1>21. ASSUME NEW r \in Requests, DeleteRow(r) PROVE TypeOK'
  <2>1. destroyer' \in [Requests -> Dest] /\ status' \in [Envs -> Statuses]
    BY <1>21, <1>s, <1>t DEF DeleteRow
  <2> QED
    BY <1>21, <1>t, <2>1 DEF DeleteRow, provisioner, providers, trouble, TypeOK, Nestings, Ids,
       StepNames,
       Resources, TroubleOK
<1>24. ASSUME NEW e \in Envs, TemplateFails(e) PROVE TypeOK'
  <2>1. step' \in [Envs -> StepNames] /\ TroubleOK'
    BY <1>24, <1>f, <1>t, TroubleFails DEF TemplateFails
  <2>2. fly' = fly \/ fly' = [fly EXCEPT ![e] = @ \cup {"db"}]
    BY <1>24 DEF TemplateFails
  <2>3. made' = made \/ made' = [made EXCEPT ![e] = @ \cup {"db"}]
    BY <1>24 DEF TemplateFails, Register
  <2>4. fly' \in [Envs -> SUBSET FlyKinds] /\ made' \in [Envs -> SUBSET FlyKinds]
    BY <1>t, <2>2, <2>3, StepNamesFacts
  <2> QED
    BY <1>24, <1>k, <2>1, <2>4 DEF TemplateFails
<1>25. ASSUME NEW r \in Requests, DestroyFails(r) PROVE TypeOK'
  <2>1. destroyer' \in [Requests -> Dest] /\ status' \in [Envs -> Statuses]
    BY <1>25, <1>s, <1>t DEF DestroyFails
  <2>2. TroubleOK'
    BY <1>25, <1>t, TroubleFails DEF DestroyFails
  <2> QED
    BY <1>25, <1>t, <2>1, <2>2 DEF DestroyFails, provisioner, providers, TypeOK, Nestings, Ids,
       StepNames, Resources, TroubleOK
<1>22. CASE Restart
  <2>1. step' \in [Envs -> StepNames]
    BY <1>22, <1>t, StepNamesFacts DEF Restart
  <2>2. destroyer' \in [Requests -> Dest]
    <3>1. \A r \in Requests : [destroyer[r] EXCEPT !.step = "cut"] \in Dest
      BY <1>t
    <3>2. PICK g : g = [r \in Requests |-> [destroyer[r] EXCEPT !.step = "cut"]]
      OBVIOUS
    <3>3. destroyer' = [r \in Requests |-> IF destroyer[r].step \in {"idle", "end"} THEN destroyer[r]
                                           ELSE g[r]]
      BY <1>22, <3>2 DEF Restart
    <3>4. \A r \in Requests : g[r] \in Dest
      BY <3>1, <3>2
    <3> QED
      BY <1>t, <3>3, <3>4
  <2> QED
    BY <1>22, <1>t, <2>1, <2>2 DEF Restart, providers, trouble, TypeOK, Nestings, Ids, StepNames,
       Resources,
       TroubleOK
<1>23. CASE UNCHANGED vars
  BY <1>23, <1>t DEF vars, provisioner, providers, trouble, TypeOK, Nestings, Ids, StepNames,
     Resources,
     TroubleOK
<1> QED
  BY <1>1, <1>2, <1>3, <1>6, <1>7, <1>8, <1>9, <1>10, <1>11, <1>12, <1>13, <1>14, <1>15, <1>16, <1>17,
     <1>18, <1>19, <1>20, <1>21, <1>22, <1>23, <1>24, <1>25 DEF Posts, Next, Provision, Destroy,
        Delete, Expire

------------------------------------------------------------------------------
(* What a step leaves alone. *)

\* Nothing of e is added, and its provisioner does not move.
Quiet(e) ==
  /\ step'[e] = step[e] /\ made'[e] = made[e] /\ madeVar'[e] = madeVar[e]
  /\ rowVar'[e] = rowVar[e] /\ found'[e] = found[e]
  /\ fly'[e] \subseteq fly[e]
  /\ \A x \in FlyKinds \cup {"var"} : <<e, x>> \in doubtful => <<e, x>> \in doubtful'
  /\ \A s \in Scopes : vercel'[s].env = e => vercel'[s] = vercel[s]
  /\ e \in raced => e \in raced'

\* What a provisioning step of e does to the resources.
VarsOnlyOf(e) ==
  \A s \in Scopes : \/ vercel'[s] = vercel[s]
                    \/ vercel'[s] = NoVar /\ vercel[s].id = madeVar[e]
                    \/ s = Scope[e] /\ vercel'[s].env = e
DoubtsOnlyOf(e) ==
  \A p \in Resources : p[1] # e => (p \in doubtful <=> p \in doubtful')

LEMMA FailureDoubts ==
  ASSUME NEW e, NEW why, NEW x,
         Succeeds \/ Fails(why) \/ FailsAbout(e, x, why) \/ UNCHANGED trouble
  PROVE  DoubtsOnlyOf(e) /\ doubtful \subseteq doubtful'
BY DEF Succeeds, Fails, FailsAbout, trouble, DoubtsOnlyOf, Resources

LEMMA DeleteFlyDoubts ==
  ASSUME TypeOK, NEW e \in Envs, NEW x \in FlyKinds, DeleteFly(e, x)
  PROVE  DoubtsOnlyOf(e) /\ doubtful \subseteq doubtful' /\ (\A f \in Envs : f # e => fly'[f] = fly[f]) /\ fly'[e] \subseteq fly[e]
<1>1. CASE fly' = [fly EXCEPT ![e] = @ \ {x}] /\ Succeeds
  <2>1. DoubtsOnlyOf(e) /\ doubtful \subseteq doubtful'
    BY <1>1, FailureDoubts
  <2> QED
    BY <1>1, <2>1 DEF TypeOK
<1>2. CASE UNCHANGED fly /\ FailsAbout(e, x, FALSE)
  BY <1>2, FailureDoubts 
<1> QED
  BY <1>1, <1>2 DEF DeleteFly

LEMMA DeleteVarDoubts ==
  ASSUME NEW e, NEW id, DeleteVar(e, id)
  PROVE  DoubtsOnlyOf(e) /\ doubtful \subseteq doubtful'
BY FailureDoubts DEF DeleteVar

LEMMA LookUpLocal ==
  ASSUME TypeOK, NEW e \in Envs, NEW f \in Envs, f # e, NEW x \in FlyKinds,
         NEW next, NEW create, LookUp(e, x, next, create)
  PROVE  DoubtsOnlyOf(e) /\ step'[f] = step[f] /\ made'[f] = made[f]
<1>1. step'[f] = step[f] /\ made'[f] = made[f]
  BY DEF LookUp, Go, Register, TypeOK
<1>2. DoubtsOnlyOf(e)
  <2>1. CASE doubtful' = doubtful \ {<<e, x>>}
    BY <2>1 DEF DoubtsOnlyOf, Resources
  <2>2. CASE Fails(x \notin fly[e])
    BY <2>2, FailureDoubts
  <2> QED
    BY <2>1, <2>2 DEF LookUp
<1> QED
  BY <1>1, <1>2

LEMMA CreateLocal ==
  ASSUME TypeOK, NEW e \in Envs, NEW f \in Envs, f # e, NEW x \in FlyKinds, NEW next,
         Create(e, x, next)
  PROVE  /\ DoubtsOnlyOf(e) /\ doubtful \subseteq doubtful'
         /\ step'[f] = step[f] /\ made'[f] = made[f] /\ fly'[f] = fly[f]
<1>1. DoubtsOnlyOf(e) /\ doubtful \subseteq doubtful'
  BY FailureDoubts DEF Create
<1>2. step'[f] = step[f]
  BY DEF Create, Go, Fail, TypeOK
<1>3. made'[f] = made[f]
  BY DEF Create, Register, TypeOK
<1>4. fly'[f] = fly[f]
  BY DEF Create, TypeOK
<1> QED
  BY <1>1, <1>2, <1>3, <1>4

LEMMA ProvisionLocal ==
  ASSUME TypeOK, NEW e \in Envs, NEW f \in Envs, f # e, Posts(e) \/ Provision(e)
  PROVE  /\ status'[f] = status[f] /\ rowVar'[f] = rowVar[f] /\ step'[f] = step[f] /\ made'[f] = made[f]
         /\ madeVar'[f] = madeVar[f] /\ found'[f] = found[f] /\ fly'[f] = fly[f]
         /\ VarsOnlyOf(e) /\ DoubtsOnlyOf(e)
         /\ UNCHANGED <<destroyer, raced>>
<1> DEFINE Local == /\ status'[f] = status[f] /\ rowVar'[f] = rowVar[f] /\ step'[f] = step[f] /\ made'[f] = made[f]
                    /\ madeVar'[f] = madeVar[f] /\ found'[f] = found[f] /\ fly'[f] = fly[f]
                    /\ VarsOnlyOf(e) /\ DoubtsOnlyOf(e)
                    /\ UNCHANGED <<destroyer, raced>>
<1>g. ASSUME NEW s, Go(e, s) PROVE step'[f] = step[f]
  BY <1>g DEF Go, TypeOK
<1>f. Fail(e) => step'[f] = step[f]
  BY <1>g DEF Fail
<1>v. UNCHANGED vercel => VarsOnlyOf(e)
  BY DEF VarsOnlyOf
<1>1. ASSUME Posts(e) PROVE Local
  <2>1. status'[f] = status[f] /\ step'[f] = step[f]
    BY <1>1, <1>g DEF Posts, Post, PostFails, TypeOK
  <2>2. DoubtsOnlyOf(e)
    BY <1>1, FailureDoubts DEF Posts, Post, PostFails
  <2> QED
    BY <1>1, <1>v, <2>1, <2>2 DEF Posts, Post, PostFails, providers
<1>2. ASSUME ReadOrWriteThrows(e) \/ LookUpBranch(e) \/ CreateMachine(e) \/ WaitForHealthy(e) PROVE Local
  <2>1. step'[f] = step[f] /\ UNCHANGED onlyStep
    BY <1>2, <1>g, <1>f DEF ReadOrWriteThrows, LookUpBranch, CreateMachine, WaitForHealthy
  <2>2. DoubtsOnlyOf(e)
    BY <1>2, FailureDoubts DEF ReadOrWriteThrows, LookUpBranch, CreateMachine, WaitForHealthy
  <2> QED
    BY <1>v, <2>1, <2>2 DEF onlyStep, providers
<1>3. ASSUME ChooseTemplate(e) PROVE Local
  <2>1. step'[f] = step[f] /\ UNCHANGED <<onlyStep, trouble>>
    BY <1>3, <1>g, <1>f DEF ChooseTemplate
  <2> QED
    BY <1>v, <2>1, FailureDoubts DEF onlyStep, providers
<1>4. ASSUME LookUpDb(e) \/ LookUpApp(e) PROVE Local
  <2>1. DoubtsOnlyOf(e) /\ step'[f] = step[f] /\ made'[f] = made[f]
    BY <1>4, LookUpLocal, StepNamesFacts DEF LookUpDb, LookUpApp
  <2> QED
    BY <1>4, <1>v, <2>1 DEF LookUpDb, LookUpApp, providers
<1>5. ASSUME CreateDb(e) \/ CreateApp(e) PROVE Local
  <2>1. DoubtsOnlyOf(e) /\ step'[f] = step[f] /\ made'[f] = made[f] /\ fly'[f] = fly[f]
    BY <1>5, CreateLocal, StepNamesFacts DEF CreateDb, CreateApp
  <2> QED
    BY <1>5, <1>v, <2>1 DEF CreateDb, CreateApp
<1>6. ASSUME TemplateHasNoSource(e) \/ AttachDb(e) PROVE Local
  <2>1. step'[f] = step[f]
    BY <1>6, <1>g, <1>f DEF TemplateHasNoSource, AttachDb
  <2>2. DoubtsOnlyOf(e)
    BY <1>6, FailureDoubts DEF TemplateHasNoSource, AttachDb
  <2> QED
    BY <1>6, <1>v, <2>1, <2>2 DEF TemplateHasNoSource, AttachDb, providers
<1>7. ASSUME CreateVar(e) PROVE Local
  <2>1. step'[f] = step[f]
    BY <1>7, <1>g, <1>f DEF CreateVar
  <2>2. DoubtsOnlyOf(e)
    BY <1>7, FailureDoubts DEF CreateVar
  <2>3. madeVar'[f] = madeVar[f]
    BY <1>7 DEF CreateVar, TypeOK
  <2>4. VarsOnlyOf(e)
    <3> DEFINE new == [id |-> lastId + 1, env |-> e]
    <3>1. vercel' = vercel \/ vercel' = [vercel EXCEPT ![Scope[e]] = new]
      BY <1>7 DEF CreateVar
    <3> QED
      BY <3>1 DEF VarsOnlyOf, TypeOK
  <2> QED
    BY <1>7, <2>1, <2>2, <2>3, <2>4 DEF CreateVar
<1>8. ASSUME FindVar(e) PROVE Local
  <2>1. step'[f] = step[f]
    BY <1>8, <1>g, <1>f DEF FindVar
  <2>2. DoubtsOnlyOf(e)
    BY <1>8, FailureDoubts DEF FindVar
  <2>3. found'[f] = found[f]
    BY <1>8 DEF FindVar, TypeOK
  <2> QED
    BY <1>8, <1>v, <2>1, <2>2, <2>3 DEF FindVar, providers
<1>9. ASSUME UpdateVar(e) PROVE Local
  <2>1. step'[f] = step[f]
    BY <1>9, <1>g, <1>f DEF UpdateVar
  <2>2. DoubtsOnlyOf(e)
    BY <1>9, FailureDoubts DEF UpdateVar
  <2>3. madeVar'[f] = madeVar[f]
    BY <1>9 DEF UpdateVar, TypeOK
  <2>4. VarsOnlyOf(e)
    <3>1. PICK v : v = [vercel[Scope[e]] EXCEPT !.env = e]
      OBVIOUS
    <3>2. v.env = e
      BY <3>1 DEF TypeOK, Scopes
    <3>3. vercel' = vercel \/ vercel' = [vercel EXCEPT ![Scope[e]] = v]
      BY <1>9, <3>1 DEF UpdateVar
    <3> QED
      BY <3>2, <3>3 DEF VarsOnlyOf, TypeOK
  <2> QED
    BY <1>9, <2>1, <2>2, <2>3, <2>4 DEF UpdateVar
<1>10. ASSUME Finish(e) PROVE Local
  <2>1. step'[f] = step[f]
    BY <1>10, <1>g DEF Finish
  <2>2. status'[f] = status[f] /\ rowVar'[f] = rowVar[f]
    BY <1>10 DEF Finish, TypeOK
  <2> QED
    BY <1>10, <1>v, <2>1, <2>2, FailureDoubts DEF Finish, providers
<1>11. ASSUME RollBackVar(e) PROVE Local
  <2>1. step'[f] = step[f]
    BY <1>11, <1>g DEF RollBackVar
  <2>2. DoubtsOnlyOf(e)
    BY <1>11, FailureDoubts, DeleteVarDoubts DEF RollBackVar
  <2>3. VarsOnlyOf(e)
    BY <1>11, <1>v DEF RollBackVar, DeleteVar, VarsOnlyOf
  <2> QED
    BY <1>11, <2>1, <2>2, <2>3 DEF RollBackVar
<1>12. ASSUME RollBackApp(e) \/ RollBackDb(e) PROVE Local
  <2>1. step'[f] = step[f]
    BY <1>12, <1>g DEF RollBackApp, RollBackDb, RollBackFly
  <2>2. DoubtsOnlyOf(e) /\ fly'[f] = fly[f]
    BY <1>12, FailureDoubts, DeleteFlyDoubts, StepNamesFacts DEF RollBackApp, RollBackDb,
       RollBackFly
  <2> QED
    BY <1>12, <1>v, <2>1, <2>2 DEF RollBackApp, RollBackDb, RollBackFly
<1>13. ASSUME MarkError(e) \/ MarkErrorFails(e) PROVE Local
  <2>1. step'[f] = step[f]
    BY <1>13, <1>g, <1>f DEF MarkError, MarkErrorFails
  <2>2. status'[f] = status[f]
    BY <1>13 DEF MarkError, MarkErrorFails, TypeOK
  <2>3. DoubtsOnlyOf(e)
    BY <1>13, FailureDoubts DEF MarkError, MarkErrorFails
  <2> QED
    BY <1>13, <1>v, <2>1, <2>2, <2>3 DEF MarkError, MarkErrorFails, providers
<1>14. ASSUME TemplateFails(e) PROVE Local
  <2>1. step'[f] = step[f]
    BY <1>14, <1>f DEF TemplateFails
  <2>2. made'[f] = made[f] /\ fly'[f] = fly[f]
    BY <1>14 DEF TemplateFails, Register, TypeOK
  <2>3. DoubtsOnlyOf(e)
    BY <1>14, FailureDoubts DEF TemplateFails
  <2> QED
    BY <1>14, <1>v, <2>1, <2>2, <2>3 DEF TemplateFails
<1> QED
  BY <1>1, <1>2, <1>3, <1>4, <1>5, <1>6, <1>7, <1>8, <1>9, <1>10, <1>11, <1>12, <1>13, <1>14
     DEF Provision

LEMMA QuietElsewhere ==
  ASSUME TypeOK, NEW e \in Envs, NEW f \in Envs, f # e, Posts(e) \/ Provision(e)
  PROVE  Quiet(f) /\ status'[f] = status[f] /\ fly'[f] = fly[f]
<1>1. /\ VarsOnlyOf(e) /\ DoubtsOnlyOf(e) /\ raced' = raced
      /\ status'[f] = status[f] /\ fly'[f] = fly[f]
      /\ step'[f] = step[f] /\ made'[f] = made[f] /\ madeVar'[f] = madeVar[f]
      /\ rowVar'[f] = rowVar[f] /\ found'[f] = found[f]
  BY ProvisionLocal
<1>2. \A x \in FlyKinds \cup {"var"} : <<f, x>> \in doubtful => <<f, x>> \in doubtful'
  BY <1>1 DEF DoubtsOnlyOf, Resources
<1>3. \A s \in Scopes : vercel'[s].env = f => vercel'[s] = vercel[s]
  BY <1>1, EnvAssumption DEF VarsOnlyOf, NoVar, EnvAssumption
<1> QED
  BY <1>1, <1>2, <1>3 DEF Quiet

\* A step of a destruction.
DestroyStep(r) == Destroy(r) \/ \E e \in Envs : Delete(r, e) \/ Expire(r, e)

LEMMA DestroyQuiet ==
  ASSUME TypeOK, NEW r \in Requests, DestroyInv(r), DestroyStep(r), NEW f \in Envs
  PROVE  Quiet(f) /\ (status'[f] = status[f] \/ (f = DEnv(r) /\ status'[f] \in {"DESTROYING", "gone"}))
<1> DEFINE S == status'[f] = status[f] \/ (f = DEnv(r) /\ status'[f] \in {"DESTROYING", "gone"})
<1>k. ASSUME UNCHANGED provisioner, UNCHANGED rowVar, fly'[f] \subseteq fly[f], doubtful \subseteq doubtful',
             \A s \in Scopes : vercel'[s].env = f => vercel'[s] = vercel[s],
             raced \subseteq raced'
      PROVE  Quiet(f)
  BY <1>k DEF Quiet, provisioner
<1>1. ASSUME NEW e \in Envs, Pick(r, e) PROVE Quiet(f) /\ S
  BY <1>1, <1>k DEF Pick, providers, trouble
<1>2. ASSUME MarkDestroying(r) PROVE Quiet(f) /\ S
  <2>1. Quiet(f)
    BY <1>2, <1>k DEF MarkDestroying, providers, trouble
  <2> QED
    BY <1>2, <2>1 DEF MarkDestroying, TypeOK
<1>3. ASSUME LoadRow(r) PROVE Quiet(f) /\ S
  BY <1>3, <1>k DEF LoadRow, providers, trouble
<1>4. ASSUME DestroyApp(r) \/ DestroyDb(r) PROVE Quiet(f) /\ S
  <2>1. DEnv(r) \in Envs
    BY <1>4 DEF DestroyInv, DestroyApp, DestroyDb, DestroyFly
  <2>2. \E x \in FlyKinds : DeleteFly(DEnv(r), x)
    BY <1>4, StepNamesFacts DEF DestroyApp, DestroyDb, DestroyFly
  <2>3. doubtful \subseteq doubtful' /\ fly'[f] \subseteq fly[f]
    BY <2>1, <2>2, DeleteFlyDoubts
  <2> QED
    BY <1>4, <1>k, <2>3 DEF DestroyApp, DestroyDb, DestroyFly
<1>5. ASSUME DestroyVar(r) PROVE Quiet(f) /\ S
  <2>1. doubtful \subseteq doubtful'
    BY <1>5, DeleteVarDoubts DEF DestroyVar, trouble
  <2>2. \A s \in Scopes : vercel'[s].env = f => vercel'[s] = vercel[s]
    <3>1. \A s \in Scopes : vercel'[s] = vercel[s] \/ vercel'[s] = NoVar
      BY <1>5 DEF DestroyVar, DeleteVar
    <3>2. NoVar.env # f
      BY EnvAssumption DEF NoVar, EnvAssumption
    <3> QED
      BY <3>1, <3>2
  <2> QED
    BY <1>5, <1>k, <2>1, <2>2 DEF DestroyVar
<1>6. ASSUME DeleteRow(r) PROVE Quiet(f) /\ S
  <2>1. Quiet(f)
    BY <1>6, <1>k DEF DeleteRow, providers, trouble
  <2> QED
    BY <1>6, <2>1 DEF DeleteRow, TypeOK
<1>7. ASSUME DestroyFails(r) PROVE Quiet(f) /\ S
  <2>1. doubtful' = doubtful
    BY <1>7 DEF DestroyFails, Fails
  <2>2. Quiet(f)
    BY <1>7, <1>k, <2>1 DEF DestroyFails, providers
  <2> QED
    BY <1>7, <2>2 DEF DestroyFails, TypeOK
<1> QED
  BY <1>1, <1>2, <1>3, <1>4, <1>5, <1>6, <1>7 DEF DestroyStep, Destroy, Delete, Expire

\* What holds of an environment goes on to hold while nothing of it is added.
LEMMA QuietKeepsClean ==
  ASSUME NEW e \in Envs, Quiet(e)
  PROVE  /\ \A x \in FlyKinds : Clean(e, x) => Clean(e, x)'
         /\ VarClean(e) => VarClean(e)'
BY DEF Quiet, Clean, VarClean

LEMMA QuietKeeps ==
  ASSUME NEW e \in Envs, Quiet(e), RowInv(e), FlyInv(e), VarInv(e),
         \/ status'[e] = status[e]
         \/ status[e] # "none" /\ status'[e] \in {"DESTROYING", "gone"}
  PROVE  RowInv(e)' /\ FlyInv(e)' /\ VarInv(e)'
<1>1. RowInv(e)'
  BY DEF Quiet, RowInv
<1>2. FlyInv(e)'
  BY QuietKeepsClean, StepNamesFacts DEF Quiet, FlyInv
<1>3. VarInv(e)'
  BY QuietKeepsClean DEF Quiet, VarInv
<1> QED
  BY <1>1, <1>2, <1>3

------------------------------------------------------------------------------
(* The steps of a provisioner, on its own environment. *)

LEMMA Working == ASSUME NEW e, Provision(e) PROVE step[e] \notin Ended
BY DEF Provision, LookUpBranch, ReadOrWriteThrows, ChooseTemplate, LookUpDb, CreateDb,
   TemplateHasNoSource, TemplateFails, LookUpApp, CreateApp, AttachDb, CreateMachine,
   WaitForHealthy, CreateVar, FindVar, UpdateVar, Finish, RollBackVar, RollBackApp, RollBackDb,
   RollBackFly, MarkError, MarkErrorFails, At, Ended

\* The steps up to the variable, in order; a failure before it goes to the rollback.
LEMMA BeforeVar ==
  ASSUME TypeOK, NEW e \in Envs, RowInv(e),
         Posts(e) \/ LookUpBranch(e) \/ ChooseTemplate(e) \/ LookUpDb(e) \/ CreateDb(e)
         \/ TemplateHasNoSource(e) \/ TemplateFails(e) \/ LookUpApp(e) \/ CreateApp(e)
         \/ AttachDb(e) \/ CreateMachine(e)
         \/ WaitForHealthy(e) \/ FindVar(e)
  PROVE  /\ step[e] \in BeforeVarSteps /\ step[e] \notin RollSteps
         /\ step'[e] \in (BeforeVarSteps \cup {"rollVar", "threw", "rethrown", "cut"}) \ {"none"}
         /\ vercel' = vercel /\ madeVar' = madeVar /\ rowVar' = rowVar
         /\ status'[e] = IF status[e] = "none" THEN "PROVISIONING" ELSE status[e]
         /\ status[e] = "none" \/ step[e] # "none"
<1> DEFINE Next1 == (BeforeVarSteps \cup {"rollVar", "threw", "rethrown", "cut"}) \ {"none"}
           Here == step[e] \in BeforeVarSteps /\ step[e] \notin RollSteps
           Same == vercel' = vercel /\ madeVar' = madeVar /\ rowVar' = rowVar
<1>g. ASSUME NEW s, Go(e, s) PROVE step'[e] = s
  BY <1>g DEF Go, TypeOK
<1>f. Fail(e) => step'[e] = "rollVar"
  BY <1>g DEF Fail
<1>1. CASE Posts(e)
  <2>1. step'[e] \in {"branch", "cut"}
    BY <1>1, <1>g DEF Posts, Post, PostFails
  <2>2. status[e] = "none" /\ status'[e] = "PROVISIONING" /\ Same
    BY <1>1 DEF Posts, Post, PostFails, providers, TypeOK
  <2>3. step[e] \in BeforeVarSteps /\ step[e] \notin RollSteps
    BY <2>2 DEF RowInv, BeforeVarSteps, RollSteps
  <2> QED
    BY <2>1, <2>2, <2>3 DEF BeforeVarSteps
<1>2. CASE ~Posts(e)
  <2>1. Here /\ step[e] # "none"
    BY <1>2 DEF LookUpBranch, ChooseTemplate, LookUpDb, CreateDb, TemplateHasNoSource,
       TemplateFails, LookUpApp, CreateApp, AttachDb, CreateMachine, WaitForHealthy, FindVar, At,
       BeforeVarSteps, HasDbSteps, HasAppSteps, RollSteps
  <2>n. {"branch", "template", "dbLookup", "dbCreate", "appLookup", "appCreate", "attach", "machine",
         "health", "var", "varUpdate", "rollVar", "threw", "rethrown"} \subseteq Next1
    BY DEF BeforeVarSteps, HasDbSteps, HasAppSteps
  <2>l. ASSUME NEW x, NEW next, NEW create, LookUp(e, x, next, create) PROVE step'[e] \in {next, create}
    BY <2>l, <1>g DEF LookUp
  <2>c. ASSUME NEW x, NEW next, Create(e, x, next) PROVE step'[e] \in {next, "rollVar"}
    BY <2>c, <1>g, <1>f DEF Create
  <2>a. AfterApp(e) \in {"machine", "attach"}
    BY DEF AfterApp
  <2>4. ASSUME LookUpDb(e) \/ LookUpApp(e) PROVE step'[e] \in Next1
    BY <2>4, <2>n, <2>l, <2>a DEF LookUpDb, LookUpApp
  <2>5. ASSUME CreateDb(e) \/ CreateApp(e) PROVE step'[e] \in Next1
    BY <2>5, <2>n, <2>c, <2>a DEF CreateDb, CreateApp
  <2>6. ASSUME LookUpBranch(e) \/ ChooseTemplate(e) \/ TemplateHasNoSource(e) \/ TemplateFails(e) \/ AttachDb(e)
        PROVE  step'[e] \in Next1
    BY <2>6, <2>n, <1>g, <1>f DEF LookUpBranch, ChooseTemplate, TemplateHasNoSource, TemplateFails,
       AttachDb
  <2>7. ASSUME CreateMachine(e) \/ WaitForHealthy(e) \/ FindVar(e) PROVE step'[e] \in Next1
    BY <2>7, <2>n, <1>g, <1>f DEF CreateMachine, WaitForHealthy, FindVar
  <2>2. step'[e] \in Next1
    BY <1>2, <2>4, <2>5, <2>6, <2>7
  <2>3. Same /\ status' = status
    BY <1>2 DEF LookUpBranch, ChooseTemplate, LookUpDb, CreateDb, TemplateHasNoSource,
       TemplateFails, LookUpApp, CreateApp, AttachDb, CreateMachine, WaitForHealthy, FindVar,
       onlyStep, providers
  <2> QED
    BY <2>1, <2>2, <2>3 DEF RowInv
<1> QED
  BY <1>1, <1>2

\* The other steps of the provisioner: the variable, the last update and the rollback.
LEMMA AfterVar ==
  ASSUME TypeOK, NEW e \in Envs
  PROVE  /\ CreateVar(e) => step[e] = "var" /\ step'[e] \in {"finish", "varFind", "rollVar"}
         /\ UpdateVar(e) => step[e] = "varUpdate" /\ step'[e] \in {"finish", "rollVar"}
         /\ Finish(e) => step[e] = "finish" /\ step'[e] \in {"done", "threw"}
         /\ RollBackVar(e) => step[e] = "rollVar" /\ step'[e] = "rollApp"
         /\ RollBackApp(e) => step[e] = "rollApp" /\ step'[e] = "rollDb"
         /\ RollBackDb(e) => step[e] = "rollDb" /\ step'[e] = "markError"
         /\ MarkError(e) => step[e] = "markError" /\ step'[e] \in {"rollVar", "threw"}
         /\ MarkErrorFails(e) => step[e] = "markError" /\ step'[e] \in {"rollVar", "cut"}
         /\ ReadOrWriteThrows(e) => /\ step[e] \in {"branch", "template", "finish"}
                                    /\ step'[e] = "cut"
<1>g. ASSUME NEW t, Go(e, t) PROVE step'[e] = t
  BY <1>g DEF Go, TypeOK
<1>f. Fail(e) => step'[e] = "rollVar"
  BY <1>g DEF Fail
<1>1. CreateVar(e) => step[e] = "var" /\ step'[e] \in {"finish", "varFind", "rollVar"}
  <2>1. CreateVar(e) => At(e, "var") /\ (Go(e, "finish") \/ Go(e, "varFind") \/ Fail(e))
    BY DEF CreateVar
  <2> QED
    BY <1>g, <1>f, <2>1 DEF At
<1>2. UpdateVar(e) => step[e] = "varUpdate" /\ step'[e] \in {"finish", "rollVar"}
  BY <1>g, <1>f DEF UpdateVar, At
<1>3. Finish(e) => step[e] = "finish" /\ step'[e] \in {"done", "threw"}
  BY <1>g DEF Finish, At
<1>4. RollBackVar(e) => step[e] = "rollVar" /\ step'[e] = "rollApp"
  BY <1>g DEF RollBackVar, At
<1>5. RollBackApp(e) => step[e] = "rollApp" /\ step'[e] = "rollDb"
  BY <1>g DEF RollBackApp, RollBackFly, At
<1>6. RollBackDb(e) => step[e] = "rollDb" /\ step'[e] = "markError"
  BY <1>g DEF RollBackDb, RollBackFly, At
<1>7. MarkError(e) => step[e] = "markError" /\ step'[e] \in {"rollVar", "threw"}
  BY <1>g, <1>f DEF MarkError, AfterFailWith, At
<1>8. MarkErrorFails(e) => step[e] = "markError" /\ step'[e] \in {"rollVar", "cut"}
  BY <1>g, <1>f DEF MarkErrorFails, At
<1>9. ReadOrWriteThrows(e) => step[e] \in {"branch", "template", "finish"} /\ step'[e] = "cut"
  BY <1>g DEF ReadOrWriteThrows
<1> QED
  BY <1>1, <1>2, <1>3, <1>4, <1>5, <1>6, <1>7, <1>8, <1>9

LEMMA RowStep ==
  ASSUME TypeOK, NEW e \in Envs, RowInv(e), Posts(e) \/ Provision(e)
  PROVE  RowInv(e)'
<1>1. CASE Posts(e) \/ LookUpBranch(e) \/ ChooseTemplate(e) \/ LookUpDb(e) \/ CreateDb(e)
         \/ TemplateHasNoSource(e) \/ TemplateFails(e) \/ LookUpApp(e) \/ CreateApp(e)
         \/ AttachDb(e) \/ CreateMachine(e)
         \/ WaitForHealthy(e) \/ FindVar(e)
  <2>1. /\ step[e] \in BeforeVarSteps /\ step[e] \notin RollSteps
        /\ step'[e] \in (BeforeVarSteps \cup {"rollVar", "threw", "rethrown", "cut"}) \ {"none"}
        /\ madeVar' = madeVar /\ rowVar' = rowVar
        /\ status'[e] = IF status[e] = "none" THEN "PROVISIONING" ELSE status[e]
        /\ status[e] = "none" \/ step[e] # "none"
    BY <1>1, BeforeVar
  <2>2. /\ step'[e] \notin {"none", "done"} /\ step[e] \notin {"done", "threw", "cut"} \cup RollSteps
    BY <2>1 DEF BeforeVarSteps, HasDbSteps, HasAppSteps
  <2> QED
    BY <2>1, <2>2 DEF RowInv
<1>2. CASE CreateVar(e) \/ UpdateVar(e)
  <2>1. step[e] \in {"var", "varUpdate"} /\ step'[e] \in {"finish", "varFind", "rollVar"}
    BY <1>2, AfterVar
  <2>2. status' = status /\ rowVar' = rowVar
    BY <1>2 DEF CreateVar, UpdateVar
  <2> QED
    BY <2>1, <2>2 DEF RowInv, RollSteps
<1>3. CASE Finish(e)
  <2>1. step[e] = "finish" /\ step'[e] \in {"done", "threw"}
    BY <1>3, AfterVar
  <2>2. \/ status' = status /\ rowVar' = rowVar /\ step'[e] = "threw" /\ status[e] = "gone"
        \/ status'[e] = "RUNNING" /\ rowVar'[e] = madeVar'[e] /\ step'[e] = "done"
    BY <1>3 DEF Finish, TypeOK, Go, RowGone
  <2> QED
    BY <2>1, <2>2 DEF RowInv, RollSteps
<1>4. CASE RollBackVar(e) \/ RollBackApp(e) \/ RollBackDb(e)
  <2>1. step[e] \in RollSteps /\ step'[e] \in RollSteps
    BY <1>4, AfterVar DEF RollSteps
  <2>2. status' = status /\ rowVar' = rowVar
    BY <1>4 DEF RollBackVar, RollBackApp, RollBackDb, RollBackFly
  <2> QED
    BY <2>1, <2>2 DEF RowInv, RollSteps
<1>5. CASE MarkError(e) \/ MarkErrorFails(e)
  <2>1. step[e] = "markError" /\ step'[e] \in {"rollVar", "threw", "cut"}
    BY <1>5, AfterVar
  <2>2. status'[e] \in {status[e], "gone", "ERROR"} /\ rowVar' = rowVar
    BY <1>5 DEF MarkError, MarkErrorFails, RowAfterFailure, TypeOK
  <2> QED
    BY <2>1, <2>2 DEF RowInv, RollSteps
<1>6. CASE ReadOrWriteThrows(e)
  <2>1. step[e] \in {"branch", "template", "finish"} /\ step'[e] = "cut"
    BY <1>6, AfterVar
  <2>2. status' = status /\ rowVar' = rowVar
    BY <1>6 DEF ReadOrWriteThrows, onlyStep
  <2> QED
    BY <2>1, <2>2 DEF RowInv, RollSteps
<1> QED
  BY <1>1, <1>2, <1>3, <1>4, <1>5, <1>6 DEF Provision

LEMMA FlyStep ==
  ASSUME TypeOK, NEW e \in Envs, RowInv(e), FlyInv(e), Posts(e) \/ Provision(e)
  PROVE  FlyInv(e)'
<1> DEFINE Reg == \A x \in FlyKinds : Clean(e, x) \/ x \in made[e]
           NotBack == step'[e] \notin {"rollDb", "markError"}
           NoError == status'[e] # "ERROR"
<1>r. Reg
  BY DEF FlyInv
<1>k. ASSUME UNCHANGED <<fly, made>>, doubtful \subseteq doubtful'
      PROVE  Reg' /\ \A x \in FlyKinds : Clean(e, x) => Clean(e, x)'
  BY <1>k, <1>r DEF Clean
<1>q. ASSUME Reg', NotBack, NoError PROVE FlyInv(e)'
  BY <1>q DEF FlyInv
<1>b. ASSUME Posts(e) \/ LookUpBranch(e) \/ ChooseTemplate(e) \/ LookUpDb(e) \/ CreateDb(e)
             \/ TemplateHasNoSource(e) \/ TemplateFails(e) \/ LookUpApp(e) \/ CreateApp(e) \/ AttachDb(e)
             \/ CreateMachine(e) \/ WaitForHealthy(e) \/ FindVar(e)
      PROVE  NotBack /\ NoError
  <2>1. /\ step[e] \in BeforeVarSteps /\ step[e] \notin RollSteps
        /\ step'[e] \in (BeforeVarSteps \cup {"rollVar", "threw", "rethrown", "cut"}) \ {"none"}
        /\ status'[e] = IF status[e] = "none" THEN "PROVISIONING" ELSE status[e]
    BY <1>b, BeforeVar
  <2> QED
    BY <2>1 DEF RowInv, BeforeVarSteps, HasDbSteps, HasAppSteps
<1>1. CASE Posts(e) \/ LookUpBranch(e) \/ ChooseTemplate(e) \/ TemplateHasNoSource(e) \/ AttachDb(e)
           \/ CreateMachine(e) \/ WaitForHealthy(e) \/ FindVar(e)
  <2>1. UNCHANGED <<fly, made>>
    BY <1>1 DEF Posts, Post, PostFails, LookUpBranch, ChooseTemplate, TemplateHasNoSource, AttachDb,
       CreateMachine, WaitForHealthy, FindVar, onlyStep, providers
  <2>2. doubtful \subseteq doubtful'
    BY <1>1, FailureDoubts DEF Posts, Post, PostFails, LookUpBranch, ChooseTemplate,
       TemplateHasNoSource, AttachDb, CreateMachine, WaitForHealthy, FindVar, Succeeds, Fails,
       trouble
  <2> QED
    BY <1>1, <1>b, <1>k, <1>q, <2>1, <2>2
<1>2. CASE LookUpDb(e) \/ LookUpApp(e)
  <2>1. fly' = fly
    BY <1>2 DEF LookUpDb, LookUpApp, providers
  <2>2. PICK x \in FlyKinds, next \in StepNames, create \in StepNames : LookUp(e, x, next, create)
    BY <1>2, StepNamesFacts DEF LookUpDb, LookUpApp, AfterApp
  <2>3. CASE made' = Register(e, x) /\ doubtful' = doubtful \ {<<e, x>>}
    <3>1. made'[e] = made[e] \cup {x}
      BY <2>3 DEF Register, TypeOK
    <3>2. Reg'
      BY <1>r, <2>1, <2>3, <3>1 DEF Clean
    <3> QED
      BY <1>2, <1>b, <1>q, <3>2
  <2>4. CASE Fails(x \notin fly[e]) /\ UNCHANGED made
    BY <1>2, <1>b, <1>k, <1>q, <2>1, <2>4 DEF Fails
  <2> QED
    BY <2>2, <2>3, <2>4 DEF LookUp
<1>3. CASE CreateDb(e) \/ CreateApp(e)
  <2>1. PICK x \in FlyKinds, next \in StepNames : Create(e, x, next)
    BY <1>3, StepNamesFacts DEF CreateDb, CreateApp, AfterApp
  <2>2. CASE fly' = [fly EXCEPT ![e] = @ \cup {x}] /\ made' = Register(e, x) /\ Succeeds
    <3>1. made'[e] = made[e] \cup {x}
      BY <2>2 DEF Register, TypeOK
    <3>2. fly'[e] = fly[e] \cup {x} /\ doubtful' = doubtful
      BY <2>2 DEF TypeOK, Succeeds, trouble
    <3>3. Reg'
      BY <1>r, <3>1, <3>2 DEF Clean
    <3> QED
      BY <1>3, <1>b, <1>q, <3>3
  <2>3. CASE FailsAbout(e, x, x \in fly[e]) /\ UNCHANGED made
             /\ (UNCHANGED fly \/ fly' = [fly EXCEPT ![e] = @ \cup {x}])
    <3>1. fly'[e] \subseteq fly[e] \cup {x}
      BY <2>3 DEF TypeOK
    <3>2. doubtful' = doubtful \cup {<<e, x>>}
      BY <2>3 DEF FailsAbout
    <3>3. Reg'
      BY <1>r, <2>3, <3>1, <3>2 DEF Clean
    <3> QED
      BY <1>3, <1>b, <1>q, <3>3
  <2> QED
    BY <2>1, <2>2, <2>3 DEF Create
<1>4. CASE CreateVar(e) \/ UpdateVar(e)
  <2>1. UNCHANGED <<fly, made, status>>
    BY <1>4 DEF CreateVar, UpdateVar
  <2>2. doubtful \subseteq doubtful'
    BY <1>4, FailureDoubts DEF CreateVar, UpdateVar, Succeeds, trouble
  <2>3. NotBack /\ NoError
    BY <1>4, <2>1, AfterVar DEF RowInv, RollSteps
  <2> QED
    BY <1>k, <1>q, <2>1, <2>2, <2>3
<1>5. CASE Finish(e)
  <2>1. UNCHANGED <<fly, made, doubtful>> /\ (status' = status \/ status'[e] = "RUNNING")
    BY <1>5 DEF Finish, providers, trouble, TypeOK
  <2>2. NotBack /\ NoError
    BY <1>5, <2>1, AfterVar DEF RowInv, RollSteps
  <2> QED
    BY <1>k, <1>q, <2>1, <2>2
<1>6. CASE RollBackVar(e)
  <2>1. UNCHANGED <<fly, made, status>>
    BY <1>6 DEF RollBackVar
  <2>2. doubtful \subseteq doubtful'
    BY <1>6, DeleteVarDoubts DEF RollBackVar, trouble
  <2>3. NotBack
    BY <1>6, AfterVar
  <2> QED
    BY <1>k, <2>1, <2>2, <2>3, StepNamesFacts DEF FlyInv
<1>7. ASSUME NEW x \in FlyKinds, NEW here, NEW next, RollBackFly(e, x, here, next)
      PROVE  Reg' /\ Clean(e, x)' /\ (\A y \in FlyKinds : Clean(e, y) => Clean(e, y)') /\ status' = status
  <2>1. made' = made /\ status' = status
    BY <1>7 DEF RollBackFly
  <2>2. CASE x \in made[e]
    <3>1. DeleteFly(e, x)
      BY <1>7, <2>2 DEF RollBackFly
    <3>2. TroubleOK /\ fly \in [Envs -> SUBSET FlyKinds]
      BY DEF TypeOK, TroubleOK, Resources
    <3>3. Clean(e, x)' /\ doubtful \subseteq doubtful' /\ fly'[e] \subseteq fly[e]
      BY <3>1, <3>2, DeleteFlyEffect
    <3> QED
      BY <1>r, <2>1, <3>3 DEF Clean
  <2>3. CASE x \notin made[e]
    <3>1. UNCHANGED <<fly, doubtful>>
      BY <1>7, <2>3 DEF RollBackFly, trouble
    <3> QED
      BY <1>r, <2>1, <2>3, <3>1 DEF Clean
  <2> QED
    BY <2>2, <2>3
<1>8. CASE RollBackApp(e)
  <2>1. Reg' /\ Clean(e, "app")' /\ (\A y \in FlyKinds : Clean(e, y) => Clean(e, y)') /\ status' = status
    BY <1>7, <1>8, StepNamesFacts DEF RollBackApp
  <2> QED
    BY <1>8, <2>1, AfterVar, StepNamesFacts DEF FlyInv
<1>9. CASE RollBackDb(e)
  <2>1. Reg' /\ Clean(e, "db")' /\ (\A y \in FlyKinds : Clean(e, y) => Clean(e, y)')
    BY <1>7, <1>9, StepNamesFacts DEF RollBackDb
  <2>2. Clean(e, "app")
    BY <1>9, AfterVar DEF FlyInv
  <2> QED
    BY <2>1, <2>2, StepNamesFacts DEF FlyInv
<1>10. CASE MarkError(e) \/ MarkErrorFails(e)
  <2>1. UNCHANGED <<fly, made, doubtful>>
    BY <1>10 DEF MarkError, MarkErrorFails, Fails, providers, trouble
  <2>2. Clean(e, "app") /\ Clean(e, "db")
    BY <1>10, AfterVar DEF FlyInv
  <2> QED
    BY <1>k, <2>1, <2>2, StepNamesFacts DEF FlyInv
<1>11. CASE ReadOrWriteThrows(e)
  <2>1. UNCHANGED <<fly, made, doubtful, status>>
    BY <1>11 DEF ReadOrWriteThrows, Fails, onlyStep, providers
  <2>2. NotBack /\ NoError
    BY <1>11, <2>1, AfterVar DEF RowInv, RollSteps
  <2> QED
    BY <1>k, <1>q, <2>1, <2>2
<1>12. CASE TemplateFails(e)
  <2>1. doubtful' = doubtful
    BY <1>12 DEF TemplateFails, Fails
  <2>2. \/ fly'[e] = fly[e] /\ made'[e] = made[e]
        \/ fly'[e] = fly[e] \cup {"db"} /\ made'[e] = made[e] \cup {"db"}
    BY <1>12 DEF TemplateFails, Register, TypeOK
  <2>3. Reg'
    BY <1>r, <2>1, <2>2 DEF Clean
  <2> QED
    BY <1>12, <1>b, <1>q, <2>3
<1> QED
  BY <1>1, <1>2, <1>3, <1>4, <1>5, <1>6, <1>8, <1>9, <1>10, <1>11, <1>12 DEF Provision

LEMMA VarStep ==
  ASSUME TypeOK, NEW e \in Envs, RowInv(e), VarInv(e), GoneInv(e), Posts(e) \/ Provision(e)
  PROVE  VarInv(e)'
<1> DEFINE Before == BeforeVarSteps \cup RollSteps \cup {"rethrown"}
<1>n. EnvAssumption /\ NoVar.env # e
  BY EnvAssumption DEF EnvAssumption, NoVar
<1>k. ASSUME vercel' = vercel, <<e, "var">> \in doubtful => <<e, "var">> \in doubtful'
      PROVE  VarClean(e) => VarClean(e)'
  BY <1>k DEF VarClean
<1>q. ASSUME VarClean(e)', madeVar'[e] = 0, step'[e] \notin {"finish", "done"} PROVE VarInv(e)'
  BY <1>q DEF VarInv
<1>1. CASE Posts(e) \/ LookUpBranch(e) \/ ChooseTemplate(e) \/ LookUpDb(e) \/ CreateDb(e)
         \/ TemplateHasNoSource(e) \/ TemplateFails(e) \/ LookUpApp(e) \/ CreateApp(e)
         \/ AttachDb(e) \/ CreateMachine(e)
         \/ WaitForHealthy(e) \/ FindVar(e)
  <2>1. /\ step[e] \in BeforeVarSteps
        /\ step'[e] \in (BeforeVarSteps \cup {"rollVar", "threw", "rethrown", "cut"}) \ {"none"}
        /\ vercel' = vercel /\ madeVar' = madeVar
    BY <1>1, BeforeVar
  <2>2. <<e, "var">> \in doubtful => <<e, "var">> \in doubtful'
    <3>1. CASE LookUpDb(e) \/ LookUpApp(e)
      <4>1. PICK x \in FlyKinds : \/ doubtful' = doubtful \ {<<e, x>>}
                                  \/ Fails(x \notin fly[e])
        BY <3>1, StepNamesFacts DEF LookUpDb, LookUpApp, LookUp
      <4>2. x # "var"
        BY DEF FlyKinds
      <4> QED
        BY <4>1, <4>2 DEF Fails
    <3>2. CASE CreateDb(e) \/ CreateApp(e)
      BY <3>2, FailureDoubts DEF CreateDb, CreateApp, Create, Succeeds, trouble
    <3>3. CASE ~(LookUpDb(e) \/ LookUpApp(e) \/ CreateDb(e) \/ CreateApp(e))
      BY <1>1, <3>3 DEF Posts, Post, PostFails, LookUpBranch, ChooseTemplate, TemplateHasNoSource,
         TemplateFails, AttachDb, CreateMachine, WaitForHealthy, FindVar, Succeeds, Fails, trouble
    <3> QED
      BY <3>1, <3>2, <3>3
  <2>3. VarClean(e) /\ madeVar[e] = 0
    BY <2>1 DEF VarInv
  <2>4. step'[e] \notin {"finish", "done"}
    BY <2>1 DEF BeforeVarSteps
  <2> QED
    BY <1>k, <1>q, <2>1, <2>2, <2>3, <2>4
<1>2. CASE CreateVar(e)
  <2>1. step[e] = "var"
    BY <1>2, AfterVar
  <2>2. VarClean(e) /\ madeVar[e] = 0
    BY <2>1 DEF VarInv, BeforeVarSteps, HasDbSteps, HasAppSteps
  <2>3. CASE FailsAbout(e, "var", FALSE) /\ Fail(e) /\ UNCHANGED madeVar
    <3>1. VarClean(e)'
      BY <2>3 DEF FailsAbout, VarClean
    <3>2. step'[e] = "rollVar"
      BY <2>3 DEF Fail, Go, TypeOK
    <3> QED
      BY <1>q, <2>2, <2>3, <3>1, <3>2
  <2>4. CASE UNCHANGED <<vercel, lastId, madeVar, trouble>> /\ Go(e, "varFind")
    <3>1. step'[e] = "varFind"
      BY <2>4 DEF Go, TypeOK
    <3> QED
      BY <1>k, <1>q, <2>2, <2>4, <3>1 DEF trouble
  <2>5. CASE /\ vercel' = [vercel EXCEPT ![Scope[e]] = [id |-> lastId + 1, env |-> e]]
             /\ madeVar' = [madeVar EXCEPT ![e] = lastId + 1] /\ Go(e, "finish") /\ Succeeds
    <3>1. step'[e] = "finish" /\ madeVar'[e] = lastId + 1 /\ doubtful' = doubtful
      BY <2>5 DEF Go, Succeeds, trouble, TypeOK
    <3>2. \A s \in Scopes : s = Scope[e] \/ vercel'[s] = vercel[s]
      BY <2>5 DEF TypeOK
    <3>3. vercel'[Scope[e]].id = lastId + 1
      BY <2>5 DEF Scopes, TypeOK
    <3>4. VarClean(e)' \/ \A s \in Scopes : vercel'[s].env = e => vercel'[s].id = madeVar'[e]
      BY <2>2, <3>1, <3>2, <3>3 DEF VarClean
    <3>5. status'[e] # "ERROR"
      BY <1>2, <2>1 DEF CreateVar, RowInv, RollSteps
    <3> QED
      BY <3>1, <3>4, <3>5 DEF VarInv, BeforeVarSteps, RollSteps
  <2> QED
    BY <1>2, <2>3, <2>4, <2>5 DEF CreateVar
<1>3. CASE UpdateVar(e)
  <2>1. step[e] = "varUpdate"
    BY <1>3, AfterVar
  <2>2. VarClean(e) /\ madeVar[e] = 0
    BY <2>1 DEF VarInv, BeforeVarSteps, HasDbSteps, HasAppSteps
  <2>3. CASE Fail(e) /\ <<e, "var">> \in doubtful' /\ UNCHANGED madeVar
    <3>1. VarClean(e)'
      BY <2>3 DEF VarClean
    <3>2. step'[e] = "rollVar"
      BY <2>3 DEF Fail, Go, TypeOK
    <3> QED
      BY <1>q, <2>2, <2>3, <3>1, <3>2
  <2>4. CASE /\ vercel[Scope[e]].id = found[e]
             /\ vercel' = [vercel EXCEPT ![Scope[e]].env = e]
             /\ madeVar' = [madeVar EXCEPT ![e] = found[e]] /\ Go(e, "finish") /\ Succeeds
    <3>1. step'[e] = "finish" /\ madeVar'[e] = found[e] /\ doubtful' = doubtful
      BY <2>4 DEF Go, Succeeds, trouble, TypeOK
    <3>2. \A s \in Scopes : s = Scope[e] \/ vercel'[s] = vercel[s]
      BY <2>4 DEF TypeOK
    <3>3. vercel'[Scope[e]].id = found[e]
      <4>1. PICK v : v = [vercel[Scope[e]] EXCEPT !.env = e]
        OBVIOUS
      <4>2. v.id = found[e]
        BY <2>4, <4>1 DEF TypeOK, Scopes
      <4> QED
        BY <2>4, <4>1, <4>2 DEF Scopes, TypeOK
    <3>4. VarClean(e)' \/ \A s \in Scopes : vercel'[s].env = e => vercel'[s].id = madeVar'[e]
      BY <2>2, <3>1, <3>2, <3>3 DEF VarClean
    <3>5. status'[e] # "ERROR"
      BY <1>3, <2>1 DEF UpdateVar, RowInv, RollSteps
    <3> QED
      BY <3>1, <3>4, <3>5 DEF VarInv, BeforeVarSteps, RollSteps
  <2> QED
    BY <1>3, <2>3, <2>4 DEF UpdateVar, FailsAbout
<1>4. CASE Finish(e)
  <2>1. step[e] = "finish" /\ step'[e] \in {"done", "threw"}
    BY <1>4, AfterVar
  <2>2. UNCHANGED <<vercel, doubtful, madeVar, raced>>
    BY <1>4 DEF Finish, providers, trouble
  <2>3. VarClean(e) => VarClean(e)'
    BY <1>k, <2>2
  <2>4. CASE step'[e] = "done"
    <3>1. status'[e] = "RUNNING"
      BY <1>4, <2>4 DEF Finish, Go, TypeOK
    <3> QED
      BY <2>1, <2>2, <2>3, <2>4, <3>1 DEF VarInv, BeforeVarSteps, RollSteps
  <2>5. CASE step'[e] = "threw"
    <3>1. status[e] = "gone" /\ status' = status
      BY <1>4, <2>5 DEF Finish, Go, TypeOK, RowGone
    <3>2. e \in raced
      BY <2>1, <3>1 DEF GoneInv, Ended
    <3> QED
      BY <2>2, <2>5, <3>1, <3>2 DEF VarInv, BeforeVarSteps, HasDbSteps, HasAppSteps, RollSteps
  <2> QED
    BY <2>1, <2>4, <2>5
<1>5. CASE RollBackVar(e) \/ RollBackApp(e) \/ RollBackDb(e)
  <2>1. step[e] \in RollSteps /\ step'[e] \in RollSteps
    BY <1>5, AfterVar DEF RollSteps
  <2>2. VarClean(e) /\ madeVar[e] = 0
    BY <2>1 DEF VarInv
  <2>3. UNCHANGED <<vercel, madeVar>>
    BY <1>5, <2>2 DEF RollBackVar, RollBackApp, RollBackDb, RollBackFly
  <2>4. doubtful \subseteq doubtful'
    BY <1>5, <2>2, DeleteFlyDoubts, StepNamesFacts
       DEF RollBackVar, RollBackApp, RollBackDb, RollBackFly, trouble
  <2> QED
    BY <1>k, <1>q, <2>1, <2>2, <2>3, <2>4 DEF RollSteps
<1>6. CASE MarkError(e) \/ MarkErrorFails(e)
  <2>1. step[e] \in RollSteps /\ step'[e] \in {"rollVar", "threw", "cut"}
    BY <1>6, AfterVar DEF RollSteps
  <2>2. VarClean(e) /\ madeVar[e] = 0
    BY <2>1 DEF VarInv
  <2>3. UNCHANGED <<vercel, madeVar, doubtful>>
    BY <1>6 DEF MarkError, MarkErrorFails, Fails, providers, trouble
  <2> QED
    BY <1>k, <1>q, <2>1, <2>2, <2>3
<1>7. CASE ReadOrWriteThrows(e)
  <2>1. step[e] \in {"branch", "template", "finish"} /\ step'[e] = "cut" /\ status' = status
    BY <1>7, AfterVar DEF ReadOrWriteThrows, onlyStep
  <2>2. status'[e] # "ERROR"
    BY <2>1 DEF RowInv, RollSteps
  <2>3. "cut" \notin BeforeVarSteps \cup RollSteps \cup {"rethrown", "threw", "finish", "done"}
    BY DEF BeforeVarSteps, HasDbSteps, HasAppSteps, RollSteps
  <2> QED
    BY <2>1, <2>2, <2>3 DEF VarInv
<1> QED
  BY <1>1, <1>2, <1>3, <1>4, <1>5, <1>6, <1>7 DEF Provision

\* A row is taken from a provisioner at work only by a destruction that raced with it.
LEMMA GoneStep ==
  ASSUME TypeOK, NEW e \in Envs, RowInv(e), GoneInv(e), Posts(e) \/ Provision(e)
  PROVE  GoneInv(e)'
<1>1. raced' = raced
  BY DEF Posts, Post, PostFails, Provision, LookUpBranch, ReadOrWriteThrows, ChooseTemplate,
     LookUpDb, CreateDb, TemplateHasNoSource, TemplateFails, LookUpApp, CreateApp, AttachDb,
     CreateMachine, WaitForHealthy, CreateVar, FindVar, UpdateVar, Finish, RollBackVar, RollBackApp,
     RollBackDb, RollBackFly, MarkError, MarkErrorFails, onlyStep
<1>2. CASE Posts(e)
  BY <1>2 DEF Posts, Post, PostFails, GoneInv, TypeOK
<1>3. CASE Provision(e)
  <2>1. step[e] \notin Ended
    BY <1>3, Working
  <2>2. status'[e] = "gone" => status[e] = "gone"
    BY <1>3 DEF Provision, LookUpBranch, ReadOrWriteThrows, ChooseTemplate, LookUpDb, CreateDb,
       TemplateHasNoSource, TemplateFails, LookUpApp, CreateApp, AttachDb, CreateMachine,
       WaitForHealthy, CreateVar, FindVar, UpdateVar, Finish, RollBackVar, RollBackApp, RollBackDb,
       RollBackFly, MarkError, MarkErrorFails, onlyStep, RowAfterFailure, RowGone, TypeOK
  <2> QED
    BY <1>1, <2>1, <2>2 DEF GoneInv
<1> QED
  BY <1>2, <1>3

------------------------------------------------------------------------------
(* Ids of variables. *)

\* Variables may go, and provisioners may not learn of any.
FewerVars ==
  /\ \A s \in Scopes : vercel'[s] = vercel[s] \/ vercel'[s] = NoVar
  /\ madeVar' = madeVar /\ found' = found
  /\ \A e \in Envs : step'[e] = "varUpdate" => step[e] = "varUpdate"

LEMMA FewerKeepsIds == ASSUME TypeOK, IdInv, FewerVars PROVE IdInv'
<1>1. \A s \in Scopes : \/ vercel'[s] = vercel[s]
                        \/ vercel'[s].id = 0 /\ vercel'[s].env = "none"
  BY DEF FewerVars, NoVar
<1>2. \A s \in Scopes :
        /\ vercel'[s].id = 0 <=> vercel'[s].env = "none"
        /\ \A e \in Envs : vercel'[s].env = e => s = Scope[e]
        /\ \A e \in Envs : s # Scope[e] /\ vercel'[s].id # 0 =>
             vercel'[s].id # madeVar'[e] /\ vercel'[s].id # found'[e]
  <2> SUFFICES ASSUME NEW s \in Scopes
               PROVE  /\ vercel'[s].id = 0 <=> vercel'[s].env = "none"
                      /\ \A e \in Envs : vercel'[s].env = e => s = Scope[e]
                      /\ \A e \in Envs : s # Scope[e] /\ vercel'[s].id # 0 =>
                           vercel'[s].id # madeVar'[e] /\ vercel'[s].id # found'[e]
    OBVIOUS
  <2>1. CASE vercel'[s] = vercel[s]
    BY <2>1 DEF IdInv, FewerVars
  <2>2. CASE vercel'[s].id = 0 /\ vercel'[s].env = "none"
    BY <2>2, EnvAssumption DEF EnvAssumption
  <2> QED
    BY <1>1, <2>1, <2>2
<1>3. \A s, t \in Scopes : s # t /\ vercel'[s].id = vercel'[t].id => vercel'[s].id = 0
  BY <1>1 DEF IdInv
<1>4. \A e \in Envs : step'[e] = "varUpdate" => found'[e] # 0
  BY DEF IdInv, FewerVars
<1> QED
  BY <1>2, <1>3, <1>4 DEF IdInv

LEMMA IdCreate ==
  ASSUME TypeOK, IdInv, NEW e \in Envs,
         vercel' = [vercel EXCEPT ![Scope[e]] = [id |-> lastId + 1, env |-> e]],
         madeVar' = madeVar \/ madeVar' = [madeVar EXCEPT ![e] = lastId + 1],
         found' = found, \A f \in Envs : step'[f] = "varUpdate" => step[f] = "varUpdate"
  PROVE  IdInv'
<1>t. /\ Scope[e] \in Scopes /\ lastId \in Nat /\ e # "none"
      /\ \A s \in Scopes : vercel[s].id \in 0..lastId
      /\ \A f \in Envs : madeVar[f] \in 0..lastId /\ found[f] \in 0..lastId
  BY EnvAssumption DEF TypeOK, Ids, Scopes, EnvAssumption
<1>1. /\ vercel'[Scope[e]].id = lastId + 1 /\ vercel'[Scope[e]].env = e
      /\ \A s \in Scopes \ {Scope[e]} : vercel'[s] = vercel[s]
      /\ \A f \in Envs : madeVar'[f] = madeVar[f] \/ (f = e /\ madeVar'[f] = lastId + 1)
  BY <1>t DEF TypeOK
<1>2. \A s \in Scopes : /\ vercel'[s].id = 0 <=> vercel'[s].env = "none"
                        /\ \A f \in Envs : vercel'[s].env = f => s = Scope[f]
  BY <1>t, <1>1 DEF IdInv
<1>3. \A s, t \in Scopes : s # t /\ vercel'[s].id = vercel'[t].id => vercel'[s].id = 0
  <2> SUFFICES ASSUME NEW s \in Scopes, NEW t \in Scopes, s # t, vercel'[s].id = vercel'[t].id
               PROVE  vercel'[s].id = 0
    OBVIOUS
  <2>1. s # Scope[e] /\ t # Scope[e]
    BY <1>t, <1>1
  <2> QED
    BY <1>1, <2>1 DEF IdInv
<1>4. ASSUME NEW s \in Scopes, NEW f \in Envs, s # Scope[f], vercel'[s].id # 0
      PROVE  vercel'[s].id # madeVar'[f] /\ vercel'[s].id # found'[f]
  <2>1. CASE s = Scope[e]
    <3>1. f # e /\ madeVar'[f] = madeVar[f] /\ found'[f] = found[f]
      BY <1>1, <1>4, <2>1
    <3>2. vercel'[s].id = lastId + 1 /\ madeVar[f] \in 0..lastId /\ found[f] \in 0..lastId
      BY <1>t, <1>1, <2>1
    <3> QED
      BY <1>t, <3>1, <3>2
  <2>2. CASE s # Scope[e]
    <3>1. vercel'[s] = vercel[s]
      BY <1>1, <2>2
    <3>2. vercel[s].id # madeVar[f] /\ vercel[s].id # found[f]
      BY <1>4, <3>1 DEF IdInv
    <3>3. vercel[s].id # lastId + 1
      BY <1>t
    <3> QED
      BY <1>1, <3>1, <3>2, <3>3
  <2> QED
    BY <2>1, <2>2
<1>5. \A f \in Envs : step'[f] = "varUpdate" => found'[f] # 0
  BY DEF IdInv
<1> QED
  BY <1>2, <1>3, <1>4, <1>5 DEF IdInv

LEMMA IdFind ==
  ASSUME TypeOK, IdInv, NEW e \in Envs, vercel[Scope[e]] # NoVar,
         found' = [found EXCEPT ![e] = vercel[Scope[e]].id], Go(e, "varUpdate"),
         vercel' = vercel, madeVar' = madeVar
  PROVE  IdInv'
<1>s. Scope[e] \in Scopes
  BY DEF Scopes
<1>1. vercel[Scope[e]].id # 0
  <2>1. ASSUME vercel[Scope[e]].id = 0 PROVE FALSE
    <3>1. vercel[Scope[e]].env = "none"
      BY <1>s, <2>1 DEF IdInv
    <3>2. vercel[Scope[e]] = [id |-> 0, env |-> "none"]
      BY <1>s, <2>1, <3>1 DEF TypeOK
    <3> QED
      BY <3>2 DEF NoVar
  <2> QED
    BY <2>1
<1>2. \A f \in Envs : found'[f] = IF f = e THEN vercel[Scope[e]].id ELSE found[f]
  BY DEF TypeOK
<1>3. \A f \in Envs : step'[f] = "varUpdate" => found'[f] # 0
  BY <1>1, <1>2 DEF IdInv, Go, TypeOK
<1>4. ASSUME NEW s \in Scopes, NEW f \in Envs, s # Scope[f], vercel[s].id # 0
      PROVE  vercel[s].id # madeVar[f] /\ vercel[s].id # found'[f]
  <2>1. CASE f = e
    <3>1. vercel[s].id # vercel[Scope[e]].id
      BY <1>4, <1>s, <2>1 DEF IdInv
    <3> QED
      BY <1>2, <1>4, <2>1, <3>1 DEF IdInv
  <2>2. CASE f # e
    BY <1>2, <1>4, <2>2 DEF IdInv
  <2> QED
    BY <2>1, <2>2
<1> QED
  BY <1>3, <1>4 DEF IdInv

LEMMA IdUpdate ==
  ASSUME TypeOK, IdInv, NEW e \in Envs, step[e] = "varUpdate", vercel[Scope[e]].id = found[e],
         vercel' = [vercel EXCEPT ![Scope[e]].env = e],
         madeVar' = madeVar \/ madeVar' = [madeVar EXCEPT ![e] = found[e]],
         found' = found, \A f \in Envs : step'[f] = "varUpdate" => step[f] = "varUpdate"
  PROVE  IdInv'
<1>s. Scope[e] \in Scopes /\ found[e] # 0 /\ e # "none"
  BY EnvAssumption DEF Scopes, IdInv, EnvAssumption
<1>1. /\ vercel'[Scope[e]].id = vercel[Scope[e]].id /\ vercel'[Scope[e]].env = e
      /\ \A s \in Scopes \ {Scope[e]} : vercel'[s] = vercel[s]
  <2>1. PICK v : v = [vercel[Scope[e]] EXCEPT !.env = e]
    OBVIOUS
  <2>2. v.id = vercel[Scope[e]].id /\ v.env = e
    BY <1>s, <2>1 DEF TypeOK
  <2>3. vercel' = [vercel EXCEPT ![Scope[e]] = v]
    BY <2>1
  <2> QED
    BY <1>s, <2>2, <2>3 DEF TypeOK
<1>m. \A f \in Envs : madeVar'[f] = madeVar[f] \/ (f = e /\ madeVar'[f] = found[f])
  BY DEF TypeOK
<1>i. \A s \in Scopes : vercel'[s].id = vercel[s].id
  BY <1>1
<1>2. \A s \in Scopes : /\ vercel'[s].id = 0 <=> vercel'[s].env = "none"
                        /\ \A f \in Envs : vercel'[s].env = f => s = Scope[f]
  <2> SUFFICES ASSUME NEW s \in Scopes
               PROVE  /\ vercel'[s].id = 0 <=> vercel'[s].env = "none"
                      /\ \A f \in Envs : vercel'[s].env = f => s = Scope[f]
    OBVIOUS
  <2>1. CASE s = Scope[e]
    BY <1>s, <1>1, <2>1
  <2>2. CASE s # Scope[e]
    BY <1>1, <2>2 DEF IdInv
  <2> QED
    BY <2>1, <2>2
<1>3. \A s, t \in Scopes : s # t /\ vercel'[s].id = vercel'[t].id => vercel'[s].id = 0
  BY <1>i DEF IdInv
<1>4. ASSUME NEW s \in Scopes, NEW f \in Envs, s # Scope[f], vercel'[s].id # 0
      PROVE  vercel'[s].id # madeVar'[f] /\ vercel'[s].id # found'[f]
  BY <1>4, <1>i, <1>m DEF IdInv
<1>5. \A f \in Envs : step'[f] = "varUpdate" => found'[f] # 0
  BY DEF IdInv
<1> QED
  BY <1>2, <1>3, <1>4, <1>5 DEF IdInv

LEMMA IdStep ==
  ASSUME TypeOK, IdInv, [Next]_vars
  PROVE  IdInv'
<1>d. ASSUME NEW e, NEW id, DeleteVar(e, id) \/ UNCHANGED vercel
      PROVE  \A s \in Scopes : vercel'[s] = vercel[s] \/ vercel'[s] = NoVar
  BY <1>d DEF DeleteVar
<1>s. ASSUME NEW e \in Envs, \A f \in Envs \ {e} : step'[f] = step[f], step'[e] # "varUpdate"
      PROVE  \A f \in Envs : step'[f] = "varUpdate" => step[f] = "varUpdate"
  BY <1>s
<1>e. ASSUME NEW e \in Envs, Posts(e) \/ Provision(e) PROVE \A f \in Envs \ {e} : step'[f] = step[f]
  BY <1>e, ProvisionLocal
<1>1. ASSUME NEW e \in Envs,
             Posts(e) \/ LookUpBranch(e) \/ ChooseTemplate(e) \/ LookUpDb(e) \/ CreateDb(e)
             \/ TemplateHasNoSource(e) \/ TemplateFails(e) \/ LookUpApp(e) \/ CreateApp(e) \/ AttachDb(e)
             \/ CreateMachine(e) \/ WaitForHealthy(e) \/ ReadOrWriteThrows(e)
      PROVE  IdInv'
  <2>1. UNCHANGED <<vercel, madeVar, found>>
    BY <1>1 DEF Posts, Post, PostFails, LookUpBranch, ChooseTemplate, LookUpDb, CreateDb,
       TemplateHasNoSource, TemplateFails, LookUpApp, CreateApp, AttachDb, CreateMachine,
       WaitForHealthy, ReadOrWriteThrows, onlyStep, providers
  <2>g. ASSUME NEW s, Go(e, s) PROVE step'[e] = s
    BY <2>g DEF Go, TypeOK
  <2>f. Fail(e) => step'[e] # "varUpdate"
    BY <2>g DEF Fail
  <2>a. AfterApp(e) # "varUpdate"
    BY DEF AfterApp
  <2>2. step'[e] # "varUpdate"
    <3>l. ASSUME NEW x, NEW next, NEW create, LookUp(e, x, next, create) PROVE step'[e] \in {next, create}
      BY <3>l, <2>g DEF LookUp
    <3>c. ASSUME NEW x, NEW next, Create(e, x, next) PROVE step'[e] = next \/ step'[e] # "varUpdate"
      BY <3>c, <2>g, <2>f DEF Create
    <3>1. ASSUME LookUpDb(e) \/ LookUpApp(e) PROVE step'[e] # "varUpdate"
      BY <3>1, <3>l, <2>a DEF LookUpDb, LookUpApp
    <3>2. ASSUME CreateDb(e) \/ CreateApp(e) PROVE step'[e] # "varUpdate"
      BY <3>2, <3>c, <2>a DEF CreateDb, CreateApp
    <3>3. ASSUME Posts(e) \/ LookUpBranch(e) \/ ChooseTemplate(e) \/ TemplateHasNoSource(e)
                 \/ TemplateFails(e) \/ AttachDb(e) \/ CreateMachine(e) \/ WaitForHealthy(e)
                 \/ ReadOrWriteThrows(e)
          PROVE  step'[e] # "varUpdate"
      BY <3>3, <2>g, <2>f DEF Posts, Post, PostFails, LookUpBranch, ChooseTemplate,
         TemplateHasNoSource, TemplateFails, AttachDb, CreateMachine, WaitForHealthy,
         ReadOrWriteThrows
    <3> QED
      BY <1>1, <3>1, <3>2, <3>3
  <2>3. \A f \in Envs : step'[f] = "varUpdate" => step[f] = "varUpdate"
    BY <1>1, <1>e, <1>s, <2>2 DEF Provision
  <2> QED
    BY <2>1, <2>3, FewerKeepsIds DEF FewerVars
<1>2. ASSUME NEW e \in Envs, CreateVar(e) PROVE IdInv'
  <2>1. \A f \in Envs : step'[f] = "varUpdate" => step[f] = "varUpdate"
    BY <1>2, <1>e, <1>s, AfterVar DEF Provision
  <2>2. found' = found
    BY <1>2 DEF CreateVar
  <2>3. \/ vercel' = vercel /\ madeVar' = madeVar
        \/ /\ vercel' = [vercel EXCEPT ![Scope[e]] = [id |-> lastId + 1, env |-> e]]
           /\ madeVar' = madeVar \/ madeVar' = [madeVar EXCEPT ![e] = lastId + 1]
    BY <1>2 DEF CreateVar
  <2>4. CASE vercel' = vercel /\ madeVar' = madeVar
    BY <2>1, <2>2, <2>4, FewerKeepsIds DEF FewerVars
  <2>5. CASE /\ vercel' = [vercel EXCEPT ![Scope[e]] = [id |-> lastId + 1, env |-> e]]
             /\ madeVar' = madeVar \/ madeVar' = [madeVar EXCEPT ![e] = lastId + 1]
    BY <2>1, <2>2, <2>5, IdCreate
  <2> QED
    BY <2>3, <2>4, <2>5
<1>3. ASSUME NEW e \in Envs, FindVar(e) PROVE IdInv'
  <2>1. CASE vercel[Scope[e]] # NoVar /\ found' = [found EXCEPT ![e] = vercel[Scope[e]].id]
             /\ Go(e, "varUpdate")
    <3>1. vercel' = vercel /\ madeVar' = madeVar
      BY <1>3 DEF FindVar, providers
    <3> QED
      BY <2>1, <3>1, IdFind
  <2>2. CASE Fail(e) /\ UNCHANGED found
    <3>1. step'[e] # "varUpdate"
      BY <2>2 DEF Fail, Go, TypeOK
    <3>2. \A f \in Envs : step'[f] = "varUpdate" => step[f] = "varUpdate"
      BY <1>3, <1>e, <1>s, <3>1 DEF Provision
    <3>3. vercel' = vercel /\ madeVar' = madeVar
      BY <1>3 DEF FindVar, providers
    <3> QED
      BY <2>2, <3>2, <3>3, FewerKeepsIds DEF FewerVars
  <2> QED
    BY <1>3, <2>1, <2>2 DEF FindVar
<1>4. ASSUME NEW e \in Envs, UpdateVar(e) PROVE IdInv'
  <2>1. \A f \in Envs : step'[f] = "varUpdate" => step[f] = "varUpdate"
    BY <1>4, <1>e, <1>s, AfterVar DEF Provision
  <2>2. found' = found /\ step[e] = "varUpdate"
    BY <1>4 DEF UpdateVar, At
  <2>3. \/ vercel' = vercel /\ madeVar' = madeVar
        \/ /\ vercel[Scope[e]].id = found[e] /\ vercel' = [vercel EXCEPT ![Scope[e]].env = e]
           /\ madeVar' = madeVar \/ madeVar' = [madeVar EXCEPT ![e] = found[e]]
    BY <1>4 DEF UpdateVar
  <2>4. CASE vercel' = vercel /\ madeVar' = madeVar
    BY <2>1, <2>2, <2>4, FewerKeepsIds DEF FewerVars
  <2>5. CASE /\ vercel[Scope[e]].id = found[e] /\ vercel' = [vercel EXCEPT ![Scope[e]].env = e]
             /\ madeVar' = madeVar \/ madeVar' = [madeVar EXCEPT ![e] = found[e]]
    BY <2>1, <2>2, <2>5, IdUpdate
  <2> QED
    BY <2>3, <2>4, <2>5
<1>5. ASSUME NEW e \in Envs,
             Finish(e) \/ RollBackVar(e) \/ RollBackApp(e) \/ RollBackDb(e) \/ MarkError(e)
             \/ MarkErrorFails(e)
      PROVE  IdInv'
  <2>1. \A f \in Envs : step'[f] = "varUpdate" => step[f] = "varUpdate"
    BY <1>5, <1>e, <1>s, AfterVar DEF Provision
  <2>2. UNCHANGED <<madeVar, found>> /\ (UNCHANGED vercel \/ DeleteVar(e, madeVar[e]))
    BY <1>5 DEF Finish, RollBackVar, RollBackApp, RollBackDb, RollBackFly, MarkError,
       MarkErrorFails, providers
  <2> QED
    BY <1>d, <2>1, <2>2, FewerKeepsIds DEF FewerVars
<1>6. ASSUME NEW r \in Requests, DestroyStep(r) PROVE IdInv'
  <2>1. UNCHANGED provisioner /\ (UNCHANGED vercel \/ DeleteVar(DEnv(r), destroyer[r].var))
    BY <1>6 DEF DestroyStep, Destroy, Delete, Expire, Pick, MarkDestroying, LoadRow, DestroyApp,
       DestroyDb, DestroyFly, DestroyVar, DeleteRow, DestroyFails, providers
  <2> QED
    BY <1>d, <2>1, FewerKeepsIds DEF FewerVars, provisioner
<1>7. ASSUME Restart PROVE IdInv'
  <2>1. \A f \in Envs : step'[f] = "varUpdate" => step[f] = "varUpdate"
    BY <1>7 DEF Restart, TypeOK
  <2> QED
    BY <1>7, <2>1, FewerKeepsIds DEF Restart, FewerVars, providers
<1>8. ASSUME UNCHANGED vars PROVE IdInv'
  BY <1>8, FewerKeepsIds DEF vars, FewerVars, provisioner, providers
<1> QED
  BY <1>1, <1>2, <1>3, <1>4, <1>5, <1>6, <1>7, <1>8 DEF Posts, Next, Provision, DestroyStep

------------------------------------------------------------------------------
(* Destructions. *)

LEMMA StatusKept ==
  ASSUME TypeOK, NEW e \in Envs, Posts(e) \/ Provision(e), status[e] # "none" PROVE status'[e] # "none"
BY DEF Posts, Post, PostFails, Provision, LookUpBranch, ReadOrWriteThrows, ChooseTemplate, LookUpDb,
   CreateDb, TemplateHasNoSource, TemplateFails, LookUpApp, CreateApp, AttachDb, CreateMachine,
   WaitForHealthy, CreateVar, FindVar, UpdateVar, Finish, RollBackVar, RollBackApp, RollBackDb,
   RollBackFly, MarkError, MarkErrorFails, onlyStep, RowAfterFailure, TypeOK

\* A destruction of another environment, or of none yet, sees nothing of a step.
LEMMA IdleKeepsDestroy ==
  ASSUME NEW r \in Requests, DestroyInv(r), destroyer'[r] = destroyer[r], DEnv(r) \notin Envs
  PROVE  DestroyInv(r)'
BY DEF DestroyInv, DEnv

LEMMA QuietKeepsDestroy ==
  ASSUME NEW r \in Requests, DestroyInv(r), destroyer'[r] = destroyer[r], DEnv(r) \in Envs,
         Quiet(DEnv(r)),
         status'[DEnv(r)] = status[DEnv(r)] \/ status'[DEnv(r)] \in {"DESTROYING", "gone"}
  PROVE  DestroyInv(r)'
<1> DEFINE e == DEnv(r)
<1>1. DEnv(r)' = DEnv(r) /\ destroyer'[r] = destroyer[r]
  BY DEF DEnv
<1>2. /\ \A x \in FlyKinds : Clean(e, x) => Clean(e, x)'
      /\ VarClean(e) => VarClean(e)'
  <2>1. ASSUME NEW f \in Envs, f = DEnv(r)
        PROVE  /\ \A x \in FlyKinds : Clean(f, x) => (x \in fly'[f] => <<f, x>> \in doubtful')
               /\ VarClean(f) => \A s \in Scopes : vercel'[s].env = f => <<f, "var">> \in doubtful'
    BY <2>1, QuietKeepsClean DEF Clean, VarClean
  <2> QED
    BY <2>1, <1>1 DEF Clean, VarClean
<1>3. /\ step'[e] = step[e] /\ madeVar'[e] = madeVar[e] /\ rowVar'[e] = rowVar[e]
      /\ e \in raced => e \in raced'
  BY DEF Quiet
<1> QED
  BY <1>1, <1>2, <1>3, StepNamesFacts DEF DestroyInv

\* A step of destruction r itself.
LEMMA OwnDestroy ==
  ASSUME TypeOK, IdInv, NEW r \in Requests, DestroyInv(r), DestroyStep(r),
         \A e \in Envs : RowInv(e) /\ VarInv(e)
  PROVE  DestroyInv(r)'
<1>q. \A f \in Envs : Quiet(f) /\ (status'[f] = status[f] \/ status'[f] \in {"DESTROYING", "gone"})
  BY DestroyQuiet
<1>s. ASSUME NEW s, DGo(r, s)
      PROVE  /\ destroyer'[r].step = s
             /\ destroyer'[r].env = destroyer[r].env /\ destroyer'[r].var = destroyer[r].var
  <2>1. PICK d : d = [destroyer[r] EXCEPT !.step = s]
    OBVIOUS
  <2>2. d.step = s /\ d.env = destroyer[r].env /\ d.var = destroyer[r].var
    BY <2>1 DEF TypeOK
  <2>3. destroyer' = [destroyer EXCEPT ![r] = d]
    BY <1>s, <2>1 DEF DGo
  <2> QED
    BY <2>2, <2>3 DEF TypeOK
<1>d. DEnv(r)' = destroyer'[r].env /\ DEnv(r) = destroyer[r].env
  BY DEF DEnv
<1>1. ASSUME NEW e \in Envs, Delete(r, e) \/ Expire(r, e) PROVE DestroyInv(r)'
  <2>1. Pick(r, e) /\ status[e] # "none"
    BY <1>1 DEF Delete, Expire
  <2>2. DEnv(r) = "none" /\ destroyer[r].var = 0
    BY <2>1, EnvAssumption DEF Pick, DestroyInv, EnvAssumption
  <2>3. destroyer'[r].step = "mark" /\ destroyer'[r].env = e /\ destroyer'[r].var = 0
    <3>1. PICK c : c = [destroyer[r] EXCEPT !.step = "mark"]
      OBVIOUS
    <3>2. c.step = "mark" /\ c.var = 0 /\ c \in [step : {"mark"}, env : Envs \cup {"none"}, var : Ids]
      BY <2>2, <3>1 DEF TypeOK
    <3>3. PICK d : d = [c EXCEPT !.env = e]
      OBVIOUS
    <3>4. d.step = "mark" /\ d.env = e /\ d.var = 0
      BY <3>2, <3>3
    <3>5. destroyer' = [destroyer EXCEPT ![r] = d]
      BY <2>1, <3>1, <3>3 DEF Pick, TypeOK
    <3> QED
      BY <3>4, <3>5 DEF TypeOK
  <2>4. status'[e] # "none"
    BY <2>1 DEF Pick
  <2> QED
    BY <1>d, <2>3, <2>4 DEF DestroyInv
<1>2. ASSUME Destroy(r) PROVE DestroyInv(r)'
  <2>1. destroyer[r].step \in {"mark", "load", "app", "db", "var", "row"}
    BY <1>2 DEF Destroy, MarkDestroying, LoadRow, DestroyApp, DestroyDb, DestroyFly, DestroyVar,
       DeleteRow, DestroyFails
  <2>2. PICK e \in Envs : e = DEnv(r) /\ status[e] # "none"
    BY <2>1 DEF DestroyInv
  <2>3. /\ destroyer[r].var # 0 => step[e] = "done" /\ destroyer[r].var = madeVar[e]
        /\ destroyer[r].step \in {"app", "db", "var", "row"} /\ e \notin raced =>
             step[e] \in Ended /\ destroyer[r].var = rowVar[e]
        /\ destroyer[r].step \in {"db", "var", "row"} /\ e \notin raced => Clean(e, "app")
        /\ destroyer[r].step \in {"var", "row"} /\ e \notin raced => Clean(e, "db")
    BY <2>2 DEF DestroyInv
  <2>4. /\ step'[e] = step[e] /\ madeVar'[e] = madeVar[e] /\ rowVar'[e] = rowVar[e]
        /\ e \in raced => e \in raced'
        /\ status'[e] # "none"
        /\ \A x \in FlyKinds : Clean(e, x) => Clean(e, x)'
        /\ VarClean(e) => VarClean(e)'
    BY <1>q, <2>2, QuietKeepsClean DEF Quiet
  <2>5. ASSUME DGo(r, "end") \/ DGo(r, "load") \/ DGo(r, "cut"),
               destroyer[r].step \in {"mark", "load", "row"}
        PROVE  DestroyInv(r)'
    <3>1. destroyer'[r].step \in {"end", "load", "cut"} /\ destroyer'[r].env = e
          /\ destroyer'[r].var = destroyer[r].var
      BY <1>d, <1>s, <2>2, <2>5
    <3> QED
      BY <1>d, <2>2, <2>3, <2>4, <3>1 DEF DestroyInv
  <2>6. CASE MarkDestroying(r) \/ DeleteRow(r) \/ DestroyFails(r)
    BY <2>5, <2>6 DEF MarkDestroying, DeleteRow, DestroyFails
  <2>7. CASE LoadRow(r)
    <3>1. CASE RowGone(e)
      BY <2>2, <2>5, <2>7, <3>1 DEF LoadRow
    <3>2. CASE ~RowGone(e)
      <4>1. destroyer'[r].step = "app" /\ destroyer'[r].env = e /\ destroyer'[r].var = rowVar[e]
        <5>1. PICK c : c = [destroyer[r] EXCEPT !.step = "app"]
          OBVIOUS
        <5>2. c.step = "app" /\ c.env = e /\ c \in [step : {"app"}, env : Envs \cup {"none"}, var : Ids]
          BY <1>d, <2>2, <5>1 DEF TypeOK
        <5>3. PICK d : d = [c EXCEPT !.var = rowVar[e]]
          OBVIOUS
        <5>4. d.step = "app" /\ d.env = e /\ d.var = rowVar[e]
          BY <5>2, <5>3
        <5>5. destroyer' = [destroyer EXCEPT ![r] = d]
          BY <2>2, <2>7, <3>2, <5>1, <5>3 DEF LoadRow, TypeOK
        <5> QED
          BY <5>4, <5>5 DEF TypeOK
      <4>2. e \notin raced' => step[e] \in Ended
        BY <2>2, <2>7, <3>2 DEF LoadRow
      <4>3. rowVar[e] # 0 => step[e] = "done" /\ rowVar[e] = madeVar[e]
        BY DEF RowInv
      <4> QED
        BY <1>d, <2>2, <2>4, <4>1, <4>2, <4>3 DEF DestroyInv
    <3> QED
      BY <3>1, <3>2
  <2>t. TroubleOK /\ fly \in [Envs -> SUBSET FlyKinds]
    BY DEF TypeOK, TroubleOK, Resources
  <2>8. CASE DestroyApp(r)
    <3>1. destroyer[r].step = "app" /\ DeleteFly(e, "app") /\ DGo(r, "db")
      BY <2>2, <2>8 DEF DestroyApp, DestroyFly, AfterApps
    <3>2. Clean(e, "app")'
      BY <2>t, <3>1, DeleteFlyEffect, StepNamesFacts
    <3>3. /\ destroyer'[r].step = "db" /\ destroyer'[r].env = e
          /\ destroyer'[r].var = destroyer[r].var
      BY <1>d, <1>s, <2>2, <3>1
    <3> QED
      BY <1>d, <2>2, <2>3, <2>4, <3>1, <3>2, <3>3 DEF DestroyInv
  <2>9. CASE DestroyDb(r)
    <3>1. destroyer[r].step = "db" /\ DeleteFly(e, "db") /\ DGo(r, "var")
      BY <2>2, <2>9 DEF DestroyDb, DestroyFly
    <3>2. Clean(e, "db")'
      BY <2>t, <3>1, DeleteFlyEffect, StepNamesFacts
    <3>3. /\ destroyer'[r].step = "var" /\ destroyer'[r].env = e
          /\ destroyer'[r].var = destroyer[r].var
      BY <1>d, <1>s, <2>2, <3>1
    <3> QED
      BY <1>d, <2>2, <2>3, <2>4, <3>1, <3>2, <3>3, StepNamesFacts DEF DestroyInv
  <2>10. CASE DestroyVar(r)
    <3>1. destroyer[r].step = "var" /\ DGo(r, "row") /\ raced' = raced
      BY <2>10 DEF DestroyVar
    <3>2. /\ destroyer'[r].step = "row" /\ destroyer'[r].env = e
          /\ destroyer'[r].var = destroyer[r].var
      BY <1>d, <1>s, <2>2, <3>1
    <3>3. ASSUME e \notin raced PROVE step[e] = "cut" \/ VarClean(e)'
      <4>1. step[e] \in Ended \ {"none"} /\ destroyer[r].var = rowVar[e]
        BY <2>2, <2>3, <3>1, <3>3 DEF RowInv
      <4>2. CASE step[e] \in {"threw", "rethrown"}
        BY <2>4, <3>3, <4>2 DEF VarInv
      <4>3. CASE step[e] = "done" /\ ~VarClean(e)
        <5>1. \A s \in Scopes : vercel[s].env = e => vercel[s].id = destroyer[r].var
          BY <4>1, <4>3 DEF VarInv, RowInv
        <5>2. destroyer[r].var # 0
          BY <4>3, <5>1, EnvAssumption DEF VarClean, IdInv, EnvAssumption
        <5>3. DeleteVar(e, destroyer[r].var)
          BY <2>2, <2>10, <5>2 DEF DestroyVar
        <5>4. \/ <<e, "var">> \in doubtful'
              \/ \A s \in Scopes : vercel[s].id = destroyer[r].var => vercel'[s] = NoVar
          BY <5>3, DeleteVarEffect DEF TypeOK
        <5>5. NoVar.env # e
          BY EnvAssumption DEF EnvAssumption, NoVar
        <5>6. \A s \in Scopes : vercel'[s].env = e => vercel'[s] = vercel[s]
          BY <1>q DEF Quiet
        <5> QED
          BY <5>1, <5>4, <5>5, <5>6 DEF VarClean
      <4> QED
        BY <2>4, <4>1, <4>2, <4>3 DEF Ended
    <3> QED
      BY <1>d, <2>2, <2>3, <2>4, <3>1, <3>2, <3>3, StepNamesFacts DEF DestroyInv
  <2> QED
    BY <1>2, <2>6, <2>7, <2>8, <2>9, <2>10 DEF Destroy
<1> QED
  BY <1>1, <1>2 DEF DestroyStep

\* The row is deleted last: what is left then, only a failed call was about.
LEMMA DestroyKeepsGone ==
  ASSUME TypeOK, NEW r \in Requests, DestroyInv(r), DestroyStep(r), NEW e \in Envs, GoneInv(e), RowInv(e)
  PROVE  GoneInv(e)'
<1>q. Quiet(e) /\ (status'[e] = status[e] \/ (e = DEnv(r) /\ status'[e] \in {"DESTROYING", "gone"}))
  BY DestroyQuiet
<1>c. /\ \A x \in FlyKinds : Clean(e, x) => Clean(e, x)'
      /\ VarClean(e) => VarClean(e)'
      /\ step'[e] = step[e]
      /\ e \in raced => e \in raced'
  BY <1>q, QuietKeepsClean DEF Quiet
<1>1. CASE status[e] = "gone" \/ status'[e] # "gone"
  BY <1>1, <1>c, StepNamesFacts DEF GoneInv
<1>2. CASE status[e] # "gone" /\ status'[e] = "gone"
  <2>1. e = DEnv(r) /\ DeleteRow(r)
    BY <1>2, <1>q DEF DestroyStep, Destroy, Delete, Expire, Pick, MarkDestroying, LoadRow,
       DestroyApp, DestroyDb, DestroyFly, DestroyVar, DestroyFails, TypeOK
  <2>2. e \notin raced => /\ step[e] \in Ended /\ Clean(e, "app") /\ Clean(e, "db")
                          /\ step[e] = "cut" \/ VarClean(e)
    BY <2>1 DEF DeleteRow, DestroyInv
  <2> QED
    BY <1>c, <2>2, StepNamesFacts DEF GoneInv
<1> QED
  BY <1>1, <1>2

\* A restart ends whatever was under way.
LEMMA RestartKeeps ==
  ASSUME TypeOK, Restart, \A r \in Requests : DestroyInv(r),
         \A e \in Envs : RowInv(e) /\ FlyInv(e) /\ VarInv(e) /\ GoneInv(e)
  PROVE  /\ \A e \in Envs : RowInv(e)' /\ FlyInv(e)' /\ VarInv(e)' /\ GoneInv(e)'
         /\ \A r \in Requests : DestroyInv(r)'
<1>s. \A e \in Envs : step'[e] = IF step[e] \in Ended THEN step[e] ELSE "cut"
  BY DEF Restart
<1>u. UNCHANGED <<status, rowVar, made, madeVar, found, fly, vercel, doubtful, raced>>
  BY DEF Restart, providers, trouble
<1>1. ASSUME NEW e \in Envs PROVE RowInv(e)' /\ FlyInv(e)' /\ VarInv(e)' /\ GoneInv(e)'
  <2>1. /\ \A x \in FlyKinds : Clean(e, x) => Clean(e, x)'
        /\ VarClean(e) => VarClean(e)'
    BY <1>u DEF Clean, VarClean
  <2>2. RowInv(e)'
    BY <1>s, <1>u DEF RowInv, Ended, RollSteps
  <2>3. FlyInv(e)'
    <3>1. step'[e] \notin {"rollDb", "markError"}
      BY <1>s DEF Ended
    <3> QED
      BY <1>u, <2>1, <3>1, StepNamesFacts DEF FlyInv
  <2>4. VarInv(e)'
    <3>1. step'[e] = "cut" \/ step'[e] = step[e]
      BY <1>s
    <3>2. "cut" \notin BeforeVarSteps \cup RollSteps \cup {"rethrown", "threw", "finish", "done"}
      BY DEF BeforeVarSteps, HasDbSteps, HasAppSteps, RollSteps
    <3>3. step'[e] \in BeforeVarSteps \cup RollSteps \cup {"rethrown", "threw", "finish", "done"}
            => step'[e] = step[e]
      BY <3>1, <3>2
    <3> QED
      BY <1>u, <2>1, <3>3 DEF VarInv
  <2>5. GoneInv(e)'
    BY <1>s, <1>u, <2>1, StepNamesFacts DEF GoneInv
  <2> QED
    BY <2>2, <2>3, <2>4, <2>5
<1>2. ASSUME NEW r \in Requests PROVE DestroyInv(r)'
  <2>1. /\ destroyer'[r].step \in {"idle", "end", "cut"}
        /\ destroyer'[r].step = "cut" => destroyer[r].step \notin {"idle", "end"}
        /\ destroyer'[r].step = "idle" => destroyer[r].step = "idle"
        /\ destroyer'[r].env = destroyer[r].env /\ destroyer'[r].var = destroyer[r].var
    <3>1. PICK d : d = [destroyer[r] EXCEPT !.step = "cut"]
      OBVIOUS
    <3>2. d.step = "cut" /\ d.env = destroyer[r].env /\ d.var = destroyer[r].var
      BY <3>1 DEF TypeOK
    <3>3. destroyer'[r] = IF destroyer[r].step \in {"idle", "end"} THEN destroyer[r] ELSE d
      BY <3>1 DEF Restart
    <3> QED
      BY <3>2, <3>3
  <2>2. \A e \in Envs : step[e] = "done" => step'[e] = "done"
    BY <1>s DEF Ended
  <2> QED
    BY <1>u, <2>1, <2>2 DEF DestroyInv, DEnv
<1> QED
  BY <1>1, <1>2

LEMMA CoreStep ==
  ASSUME TypeOK, IdInv, \A r \in Requests : DestroyInv(r), [Next]_vars,
         \A e \in Envs : RowInv(e) /\ FlyInv(e) /\ VarInv(e) /\ GoneInv(e)
  PROVE  /\ \A e \in Envs : RowInv(e)' /\ FlyInv(e)' /\ VarInv(e)' /\ GoneInv(e)'
         /\ \A r \in Requests : DestroyInv(r)'
<1> DEFINE After == /\ \A e \in Envs : RowInv(e)' /\ FlyInv(e)' /\ VarInv(e)' /\ GoneInv(e)'
                    /\ \A r \in Requests : DestroyInv(r)'
<1>1. ASSUME NEW e \in Envs, Posts(e) \/ Provision(e) PROVE After
  <2>1. RowInv(e)' /\ FlyInv(e)' /\ VarInv(e)' /\ GoneInv(e)'
    BY <1>1, RowStep, FlyStep, VarStep, GoneStep
  <2>2. ASSUME NEW f \in Envs, f # e PROVE RowInv(f)' /\ FlyInv(f)' /\ VarInv(f)' /\ GoneInv(f)'
    <3>1. Quiet(f) /\ status'[f] = status[f]
      BY <1>1, <2>2, QuietElsewhere
    <3>2. RowInv(f)' /\ FlyInv(f)' /\ VarInv(f)'
      BY <3>1, QuietKeeps
    <3>3. GoneInv(f)'
      BY <3>1, QuietKeepsClean, StepNamesFacts DEF GoneInv, Quiet
    <3> QED
      BY <3>2, <3>3
  <2>3. ASSUME NEW r \in Requests PROVE DestroyInv(r)'
    <3>1. destroyer'[r] = destroyer[r] /\ raced' = raced
      BY <1>1 DEF Posts, Post, PostFails, Provision, LookUpBranch, ReadOrWriteThrows,
         ChooseTemplate, LookUpDb, CreateDb, TemplateHasNoSource, TemplateFails, LookUpApp,
         CreateApp, AttachDb, CreateMachine, WaitForHealthy, CreateVar, FindVar, UpdateVar, Finish,
         RollBackVar, RollBackApp, RollBackDb, RollBackFly, MarkError, MarkErrorFails, onlyStep
    <3>2. CASE DEnv(r) \notin Envs
      BY <3>1, <3>2, IdleKeepsDestroy
    <3>3. CASE DEnv(r) \in Envs /\ DEnv(r) # e
      <4>1. Quiet(DEnv(r)) /\ status'[DEnv(r)] = status[DEnv(r)]
        BY <1>1, <3>3, QuietElsewhere
      <4> QED
        BY <3>1, <3>3, <4>1, QuietKeepsDestroy
    <3>4. CASE DEnv(r) = e
      <4>d. DEnv(r)' = e
        BY <3>1, <3>4 DEF DEnv
      <4>1. CASE Posts(e)
        <5>1. status[e] = "none" /\ step[e] = "none"
          BY <4>1 DEF Posts, Post, PostFails, RowInv
        <5>2. destroyer[r].step \in {"idle", "end"} /\ destroyer[r].var = 0
          BY <3>4, <5>1 DEF DestroyInv
        <5>3. destroyer[r].step = "idle" => e = "none"
          BY <3>4 DEF DestroyInv
        <5> QED
          BY <3>1, <4>d, <5>2, <5>3 DEF DestroyInv
      <4>2. CASE Provision(e)
        <5>1. step[e] \notin Ended
          BY <4>2, Working
        <5>2. destroyer[r].var = 0 /\ (destroyer[r].step \in {"app", "db", "var", "row"} => e \in raced)
          BY <3>4, <5>1, StepNamesFacts DEF DestroyInv, Ended
        <5>3. status[e] # "none" /\ status'[e] # "none"
          BY <4>2, <5>1, StatusKept DEF RowInv, Ended
        <5>4. destroyer[r].step = "idle" => e = "none"
          BY <3>4 DEF DestroyInv
        <5> QED
          BY <3>1, <4>d, <5>2, <5>3, <5>4 DEF DestroyInv
      <4> QED
        BY <1>1, <4>1, <4>2
    <3> QED
      BY <3>2, <3>3, <3>4
  <2> QED
    BY <2>1, <2>2, <2>3
<1>2. ASSUME NEW r \in Requests, DestroyStep(r) PROVE After
  <2>1. ASSUME NEW e \in Envs PROVE RowInv(e)' /\ FlyInv(e)' /\ VarInv(e)' /\ GoneInv(e)'
    <3>1. Quiet(e) /\ (status'[e] = status[e] \/ (e = DEnv(r) /\ status'[e] \in {"DESTROYING", "gone"}))
      BY <1>2, DestroyQuiet
    <3>2. status'[e] = status[e] \/ status[e] # "none"
      BY <1>2, <3>1, EnvAssumption DEF DestroyStep, Destroy, Delete, Expire, Pick, MarkDestroying,
         LoadRow, DestroyApp, DestroyDb, DestroyFly, DestroyVar, DeleteRow, DestroyFails, DestroyInv
    <3>3. RowInv(e)' /\ FlyInv(e)' /\ VarInv(e)'
      BY <3>1, <3>2, QuietKeeps
    <3>4. GoneInv(e)'
      BY <1>2, DestroyKeepsGone
    <3> QED
      BY <3>3, <3>4
  <2>2. DestroyInv(r)'
    BY <1>2, OwnDestroy
  <2>3. ASSUME NEW q \in Requests, q # r PROVE DestroyInv(q)'
    <3>1. destroyer'[q] = destroyer[q]
      BY <1>2, <2>3 DEF DestroyStep, Destroy, Delete, Expire, Pick, MarkDestroying, LoadRow,
         DestroyApp, DestroyDb, DestroyFly, DestroyVar, DeleteRow, DestroyFails, DGo, TypeOK
    <3>2. CASE DEnv(q) \notin Envs
      BY <3>1, <3>2, IdleKeepsDestroy
    <3>3. CASE DEnv(q) \in Envs
      <4>1. /\ Quiet(DEnv(q))
            /\ status'[DEnv(q)] = status[DEnv(q)] \/ status'[DEnv(q)] \in {"DESTROYING", "gone"}
        BY <1>2, <3>3, DestroyQuiet
      <4> QED
        BY <3>1, <3>3, <4>1, QuietKeepsDestroy
    <3> QED
      BY <3>2, <3>3
  <2> QED
    BY <2>1, <2>2, <2>3
<1>3. ASSUME Restart PROVE After
  BY <1>3, RestartKeeps
<1>4. ASSUME UNCHANGED vars PROVE After
  BY <1>4 DEF vars, provisioner, providers, trouble, RowInv, FlyInv, VarInv, GoneInv, DestroyInv,
     DEnv, Clean, VarClean
<1> QED
  BY <1>1, <1>2, <1>3, <1>4 DEF Posts, Next, DestroyStep

------------------------------------------------------------------------------
(* What a running environment has. *)

\* A provisioner passes each step with what the step made.
LEMMA OwnFly ==
  ASSUME TypeOK, NEW e \in Envs, RowInv(e), Posts(e) \/ Provision(e), HasFly(e)
  PROVE  HasFly(e)'
<1>g. ASSUME NEW s, Go(e, s) PROVE step'[e] = s
  BY <1>g DEF Go, TypeOK
<1>f. ASSUME Fail(e) PROVE HasFly(e)'
  BY <1>f, <1>g DEF Fail, HasFly, HasDbSteps, HasAppSteps
<1>o. ASSUME step'[e] \notin HasDbSteps PROVE HasFly(e)'
  BY <1>o DEF HasFly, HasDbSteps
<1>1. CASE Posts(e) \/ ReadOrWriteThrows(e) \/ LookUpBranch(e) \/ ChooseTemplate(e)
           \/ TemplateHasNoSource(e) \/ TemplateFails(e)
  <2>1. Fail(e) \/ step'[e] \in {"branch", "template", "dbLookup", "threw", "cut"}
    BY <1>1, <1>g DEF Posts, Post, PostFails, ReadOrWriteThrows, LookUpBranch, ChooseTemplate,
       TemplateHasNoSource, TemplateFails
  <2> QED
    BY <1>f, <1>o, <2>1 DEF HasDbSteps, HasAppSteps
<1>2. CASE LookUpDb(e)
  <2>1. fly' = fly /\ (("db" \in fly[e] /\ step'[e] = "appLookup") \/ step'[e] = "dbCreate")
    BY <1>2, <1>g DEF LookUpDb, LookUp, providers
  <2> QED
    BY <2>1 DEF HasFly, HasDbSteps, HasAppSteps
<1>3. CASE CreateDb(e)
  <2>1. \/ fly' = [fly EXCEPT ![e] = @ \cup {"db"}] /\ step'[e] = "appLookup"
        \/ Fail(e)
    BY <1>3, <1>g DEF CreateDb, Create
  <2>2. CASE fly' = [fly EXCEPT ![e] = @ \cup {"db"}] /\ step'[e] = "appLookup"
    <3>1. "db" \in fly'[e]
      BY <2>2 DEF TypeOK
    <3> QED
      BY <2>2, <3>1 DEF HasFly, HasDbSteps, HasAppSteps
  <2> QED
    BY <1>f, <2>1, <2>2
<1>4. CASE LookUpApp(e)
  <2>1. fly' = fly /\ (("app" \in fly[e] /\ step'[e] = AfterApp(e)) \/ step'[e] = "appCreate")
    BY <1>4, <1>g DEF LookUpApp, LookUp, providers
  <2>2. step[e] = "appLookup" /\ "db" \in fly[e]
    BY <1>4 DEF LookUpApp, At, HasFly, HasDbSteps
  <2> QED
    BY <2>1, <2>2 DEF HasFly, HasAppSteps
<1>5. CASE CreateApp(e)
  <2>1. \/ fly' = [fly EXCEPT ![e] = @ \cup {"app"}]
        \/ Fail(e)
    BY <1>5 DEF CreateApp, Create
  <2>2. step[e] = "appCreate" /\ "db" \in fly[e]
    BY <1>5 DEF CreateApp, At, HasFly, HasDbSteps
  <2>3. CASE fly' = [fly EXCEPT ![e] = @ \cup {"app"}]
    <3>1. "db" \in fly'[e] /\ "app" \in fly'[e]
      BY <2>2, <2>3 DEF TypeOK
    <3> QED
      BY <3>1 DEF HasFly
  <2> QED
    BY <1>f, <2>1, <2>3
<1>6. CASE AttachDb(e) \/ CreateMachine(e) \/ WaitForHealthy(e) \/ FindVar(e) \/ CreateVar(e)
           \/ UpdateVar(e) \/ Finish(e)
  <2>1. step[e] \in HasAppSteps
    BY <1>6 DEF AttachDb, CreateMachine, WaitForHealthy, FindVar, CreateVar, UpdateVar, Finish, At,
       HasAppSteps
  <2>2. fly' = fly
    BY <1>6 DEF AttachDb, CreateMachine, WaitForHealthy, FindVar, CreateVar, UpdateVar, Finish,
       onlyStep, providers
  <2> QED
    BY <2>1, <2>2 DEF HasFly, HasDbSteps
<1>7. CASE RollBackVar(e) \/ RollBackApp(e) \/ RollBackDb(e) \/ MarkError(e) \/ MarkErrorFails(e)
  <2>1. step'[e] \in RollSteps \cup {"threw", "cut"}
    BY <1>7, AfterVar DEF RollSteps
  <2> QED
    BY <1>o, <2>1 DEF RollSteps, HasDbSteps, HasAppSteps
<1> QED
  BY <1>1, <1>2, <1>3, <1>4, <1>5, <1>6, <1>7 DEF Provision

LEMMA OwnVar ==
  ASSUME TypeOK, IdInv, NEW e \in Envs, RowInv(e), Posts(e) \/ Provision(e), HasVar(e),
         Alone(e)' => Alone(e)
  PROVE  HasVar(e)'
<1>s. Scope[e] \in Scopes /\ lastId \in Nat
  BY DEF Scopes, TypeOK
<1>o. ASSUME step'[e] \notin {"finish", "done"} PROVE HasVar(e)'
  BY <1>o DEF HasVar
<1>1. CASE Posts(e) \/ LookUpBranch(e) \/ ChooseTemplate(e) \/ LookUpDb(e) \/ CreateDb(e)
         \/ TemplateHasNoSource(e) \/ TemplateFails(e) \/ LookUpApp(e) \/ CreateApp(e)
         \/ AttachDb(e) \/ CreateMachine(e)
         \/ WaitForHealthy(e) \/ FindVar(e)
  <2>1. step'[e] \in (BeforeVarSteps \cup {"rollVar", "threw", "rethrown", "cut"}) \ {"none"}
    BY <1>1, BeforeVar
  <2> QED
    BY <1>o, <2>1 DEF BeforeVarSteps
<1>2. CASE CreateVar(e)
  <2>1. CASE step'[e] = "finish"
    <3>1. /\ vercel' = [vercel EXCEPT ![Scope[e]] = [id |-> lastId + 1, env |-> e]]
          /\ madeVar' = [madeVar EXCEPT ![e] = lastId + 1]
      BY <1>2, <2>1 DEF CreateVar, Go, Fail, TypeOK
    <3>2. madeVar'[e] = lastId + 1 /\ vercel'[Scope[e]] = [id |-> lastId + 1, env |-> e]
      BY <1>s, <3>1 DEF TypeOK
    <3> QED
      BY <1>s, <3>2 DEF HasVar
  <2> QED
    BY <1>2, <1>o, <2>1, AfterVar
<1>3. CASE UpdateVar(e)
  <2>1. CASE step'[e] = "finish"
    <3>1. /\ vercel[Scope[e]].id = found[e]
          /\ vercel' = [vercel EXCEPT ![Scope[e]].env = e]
          /\ madeVar' = [madeVar EXCEPT ![e] = found[e]]
      BY <1>3, <2>1 DEF UpdateVar, Go, Fail, TypeOK
    <3>2. PICK v : v = [vercel[Scope[e]] EXCEPT !.env = e]
      OBVIOUS
    <3>3. v = [id |-> found[e], env |-> e]
      BY <1>s, <3>1, <3>2 DEF TypeOK
    <3>4. madeVar'[e] = found[e] /\ vercel'[Scope[e]] = v
      BY <1>s, <3>1, <3>2 DEF TypeOK
    <3>5. found[e] # 0
      BY <1>3 DEF IdInv, UpdateVar, At
    <3> QED
      BY <3>3, <3>4, <3>5 DEF HasVar
  <2> QED
    BY <1>3, <1>o, <2>1, AfterVar
<1>4. CASE Finish(e)
  <2>1. step[e] = "finish" /\ vercel' = vercel /\ madeVar' = madeVar
    BY <1>4 DEF Finish, At, providers
  <2> QED
    BY <2>1 DEF HasVar
<1>5. CASE RollBackVar(e) \/ RollBackApp(e) \/ RollBackDb(e) \/ MarkError(e) \/ MarkErrorFails(e)
           \/ ReadOrWriteThrows(e)
  <2>1. step'[e] \notin {"finish", "done"}
    BY <1>5, AfterVar
  <2> QED
    BY <1>o, <2>1
<1> QED
  BY <1>1, <1>2, <1>3, <1>4, <1>5 DEF Provision

LEMMA ServedStep ==
  ASSUME TypeOK, IdInv, \A r \in Requests : DestroyInv(r),
         \A f \in Envs : RowInv(f) /\ VarInv(f),
         [Next]_vars, NEW e \in Envs, ServedInv(e)
  PROVE  ServedInv(e)'
<1>s. Scope[e] \in Scopes
  BY DEF Scopes
<1>r. ASSUME UNCHANGED vars PROVE ServedInv(e)'
  BY <1>r DEF vars, provisioner, providers, ServedInv, Untouched, HasFly, HasVar, Alone, DEnv
\* Without a step of e or of its destruction, what e has stays.
<1>k. ASSUME HasFly(e), HasVar(e), step'[e] = step[e], madeVar'[e] = madeVar[e], fly'[e] = fly[e],
             Alone(e)' => Alone(e) /\ (vercel'[Scope[e]] = vercel[Scope[e]] \/ madeVar[e] = 0
                                       \/ step[e] \notin {"finish", "done"})
      PROVE  HasFly(e)' /\ HasVar(e)'
  BY <1>k DEF HasFly, HasVar
<1>1. ASSUME NEW f \in Envs, Posts(f) \/ Provision(f), Untouched(e)' PROVE HasFly(e)' /\ HasVar(e)'
  <2>1. destroyer' = destroyer
    BY <1>1, <1>s DEF Posts, Post, PostFails, Provision, LookUpBranch, ReadOrWriteThrows,
       ChooseTemplate, LookUpDb, CreateDb, TemplateHasNoSource, TemplateFails, LookUpApp, CreateApp,
       AttachDb, CreateMachine, WaitForHealthy, CreateVar, FindVar, UpdateVar, Finish, RollBackVar,
       RollBackApp, RollBackDb, RollBackFly, MarkError, MarkErrorFails, onlyStep
  <2>2. HasFly(e) /\ HasVar(e)
    BY <1>1, <2>1 DEF ServedInv, Untouched, DEnv
  <2>3. status'[f] # "none"
    <3>1. CASE Posts(f)
      BY <3>1 DEF Posts, Post, PostFails, TypeOK
    <3>2. CASE Provision(f)
      <4>1. status[f] # "none"
        BY <3>2, Working DEF RowInv, Ended
      <4> QED
        BY <3>2, <4>1, StatusKept
    <3> QED
      BY <1>1, <3>1, <3>2
  <2>4. \A g \in Envs \ {f} : status'[g] = status[g]
    BY <1>1, QuietElsewhere
  <2>5. Alone(e)' => Alone(e)
    BY <2>3, <2>4 DEF Alone
  <2>6. CASE f = e
    BY <1>1, <2>2, <2>5, <2>6, OwnFly, OwnVar
  <2>7. CASE f # e
    <3>1. Quiet(e) /\ fly'[e] = fly[e]
      BY <1>1, <2>7, QuietElsewhere
    <3>2. ASSUME Alone(e)', madeVar[e] # 0, step[e] \in {"finish", "done"}
          PROVE  vercel'[Scope[e]] = vercel[Scope[e]]
      <4>1. Scope[f] # Scope[e]
        BY <2>3, <2>7, <3>2 DEF Alone
      <4>2. vercel[Scope[e]] = [id |-> madeVar[e], env |-> e]
        BY <2>2, <2>5, <3>2 DEF HasVar
      <4>3. vercel[Scope[e]].id # 0
        BY <3>2, <4>2
      <4>4. vercel[Scope[e]].id # madeVar[f]
        BY <1>s, <4>1, <4>3 DEF IdInv
      <4>5. VarsOnlyOf(f)
        BY <1>1, <2>7, ProvisionLocal
      <4> QED
        BY <1>s, <4>1, <4>4, <4>5 DEF VarsOnlyOf
    <3> QED
      BY <1>k, <2>2, <2>5, <3>1, <3>2 DEF Quiet
  <2> QED
    BY <2>6, <2>7
<1>2. ASSUME NEW r \in Requests, DestroyStep(r), Untouched(e)' PROVE HasFly(e)' /\ HasVar(e)'
  <2>1. \A q \in Requests : DEnv(q) = DEnv(q)' \/ DEnv(q) = "none"
    <3> SUFFICES ASSUME NEW q \in Requests PROVE destroyer[q].env = destroyer'[q].env \/ destroyer[q].env = "none"
      BY DEF DEnv
    <3>1. CASE q # r
      BY <1>2, <3>1 DEF DestroyStep, Destroy, Delete, Expire, Pick, MarkDestroying, LoadRow,
         DestroyApp, DestroyDb, DestroyFly, DestroyVar, DeleteRow, DestroyFails, DGo, TypeOK
    <3>2. CASE q = r /\ Destroy(r)
      <4>g. ASSUME NEW s, DGo(r, s) PROVE destroyer'[r].env = destroyer[r].env
        <5>1. PICK d : d = [destroyer[r] EXCEPT !.step = s]
          OBVIOUS
        <5>2. d.env = destroyer[r].env
          BY <5>1 DEF TypeOK
        <5>3. destroyer' = [destroyer EXCEPT ![r] = d]
          BY <4>g, <5>1 DEF DGo
        <5> QED
          BY <5>2, <5>3 DEF TypeOK
      <4>1. ASSUME LoadRow(r), ~RowGone(DEnv(r)) PROVE destroyer'[r].env = destroyer[r].env
        <5>1. PICK c : c = [destroyer[r] EXCEPT !.step = "app"]
          OBVIOUS
        <5>2. c.env = destroyer[r].env /\ c \in [step : {"app"}, env : Envs \cup {"none"}, var : Ids]
          BY <5>1 DEF TypeOK
        <5>3. PICK d : d = [c EXCEPT !.var = rowVar[DEnv(r)]]
          OBVIOUS
        <5>4. d.env = destroyer[r].env
          BY <5>2, <5>3
        <5>5. destroyer' = [destroyer EXCEPT ![r] = d]
          BY <4>1, <5>1, <5>3 DEF LoadRow, TypeOK
        <5> QED
          BY <5>4, <5>5 DEF TypeOK
      <4> QED
        BY <3>2, <4>g, <4>1 DEF Destroy, MarkDestroying, LoadRow, DestroyApp, DestroyDb, DestroyFly,
           DestroyVar, DeleteRow, DestroyFails
    <3>3. CASE q = r /\ \E f \in Envs : Pick(r, f)
      BY <3>3 DEF Pick, DestroyInv, DEnv
    <3> QED
      BY <1>2, <3>1, <3>2, <3>3 DEF DestroyStep, Delete, Expire
  <2>2. Untouched(e)
    <3>1. \A q \in Requests : DEnv(q)' # e
      BY <1>2 DEF Untouched
    <3> QED
      BY <2>1, <3>1, EnvAssumption DEF Untouched, EnvAssumption
  <2>3. HasFly(e) /\ HasVar(e) /\ DEnv(r) # e
    BY <2>2 DEF ServedInv, Untouched
  <2>4. Quiet(e)
    BY <1>2, DestroyQuiet
  <2>5. Alone(e)' => Alone(e)
    <3>1. \A f \in Envs : status'[f] = "none" => status[f] = "none"
      BY <1>2, DestroyQuiet
    <3> QED
      BY <3>1 DEF Alone
  <2>6. fly'[e] = fly[e]
    <3>1. CASE DestroyApp(r) \/ DestroyDb(r)
      <4>1. DEnv(r) \in Envs
        BY <3>1 DEF DestroyInv, DestroyApp, DestroyDb, DestroyFly
      <4>2. \E x \in FlyKinds : DeleteFly(DEnv(r), x)
        BY <3>1, StepNamesFacts DEF DestroyApp, DestroyDb, DestroyFly
      <4> QED
        BY <2>3, <4>1, <4>2, DeleteFlyDoubts
    <3>2. CASE ~(DestroyApp(r) \/ DestroyDb(r))
      BY <1>2, <3>2 DEF DestroyStep, Destroy, Delete, Expire, Pick, MarkDestroying, LoadRow,
         DestroyVar, DeleteRow, DestroyFails, providers
    <3> QED
      BY <3>1, <3>2
  <2>7. ASSUME Alone(e)', madeVar[e] # 0, step[e] \in {"finish", "done"}
        PROVE  vercel'[Scope[e]] = vercel[Scope[e]]
    <3>1. CASE destroyer[r].var = 0 \/ ~DestroyVar(r)
      BY <1>2, <3>1 DEF DestroyStep, Destroy, Delete, Expire, Pick, MarkDestroying, LoadRow,
         DestroyApp, DestroyDb, DestroyFly, DestroyVar, DeleteRow, DestroyFails, providers
    <3>2. CASE destroyer[r].var # 0 /\ DestroyVar(r)
      <4>1. PICK f \in Envs : f = DEnv(r) /\ step[f] = "done" /\ destroyer[r].var = madeVar[f]
        BY <3>2 DEF DestroyInv
      <4>2. status[f] # "none"
        BY <4>1 DEF RowInv
      <4>3. Scope[f] # Scope[e]
        BY <2>3, <2>5, <2>7, <4>1, <4>2 DEF Alone
      <4>4. vercel[Scope[e]] = [id |-> madeVar[e], env |-> e]
        BY <2>3, <2>5, <2>7 DEF HasVar
      <4>5. vercel[Scope[e]].id # 0
        BY <2>7, <4>4
      <4>6. vercel[Scope[e]].id # madeVar[f]
        BY <1>s, <4>3, <4>5 DEF IdInv
      <4> QED
        BY <1>s, <3>2, <4>1, <4>6 DEF DestroyVar, DeleteVar
    <3> QED
      BY <3>1, <3>2
  <2> QED
    BY <1>k, <2>3, <2>4, <2>5, <2>6, <2>7 DEF Quiet
<1>3. ASSUME Restart, Untouched(e)' PROVE HasFly(e)' /\ HasVar(e)'
  <2>1. \A q \in Requests : DEnv(q)' = DEnv(q)
    <3> SUFFICES ASSUME NEW q \in Requests PROVE destroyer'[q].env = destroyer[q].env
      BY DEF DEnv
    <3>1. PICK d : d = [destroyer[q] EXCEPT !.step = "cut"]
      OBVIOUS
    <3>2. d.env = destroyer[q].env
      BY <3>1 DEF TypeOK
    <3>3. destroyer'[q] = IF destroyer[q].step \in {"idle", "end"} THEN destroyer[q] ELSE d
      BY <1>3, <3>1 DEF Restart
    <3> QED
      BY <3>2, <3>3
  <2>2. HasFly(e) /\ HasVar(e)
    BY <1>3, <2>1 DEF Untouched, ServedInv
  <2>3. step'[e] = step[e] \/ step'[e] = "cut"
    BY <1>3 DEF Restart
  <2> QED
    BY <1>3, <2>2, <2>3 DEF Restart, providers, HasFly, HasVar, Alone, HasDbSteps, HasAppSteps
<1> QED
  BY <1>r, <1>1, <1>2, <1>3 DEF Posts, Next, DestroyStep, ServedInv

------------------------------------------------------------------------------
(* Somebody is at work. *)

AtWork(r, e) == DEnv(r) = e /\ destroyer[r].step \notin {"idle", "mark", "end"}
WorkInv(e) ==
  /\ status[e] = "PROVISIONING" => step[e] \notin Ended \/ step[e] \in {"rethrown", "cut"}
  /\ status[e] = "DESTROYING" => \E r \in Requests : AtWork(r, e)

\* A provisioner ends with another status, or with the error that skips failWith.
LEMMA OwnWork ==
  ASSUME TypeOK, NEW e \in Envs, RowInv(e), WorkInv(e), Posts(e) \/ Provision(e)
  PROVE  WorkInv(e)'
<1>g. ASSUME NEW s, Go(e, s) PROVE step'[e] = s
  BY <1>g DEF Go, TypeOK
<1>f. Fail(e) => step'[e] = "rollVar"
  BY <1>g DEF Fail
<1>d. destroyer' = destroyer
  BY DEF Posts, Post, PostFails, Provision, LookUpBranch, ReadOrWriteThrows, ChooseTemplate,
     LookUpDb, CreateDb, TemplateHasNoSource, TemplateFails, LookUpApp, CreateApp, AttachDb,
     CreateMachine, WaitForHealthy, CreateVar, FindVar, UpdateVar, Finish, RollBackVar, RollBackApp,
     RollBackDb, RollBackFly, MarkError, MarkErrorFails, onlyStep
<1>k. ASSUME status'[e] = status[e] \/ status'[e] # "DESTROYING",
             status'[e] = "PROVISIONING" => step'[e] \notin Ended \/ step'[e] \in {"rethrown", "cut"}
      PROVE  WorkInv(e)'
  BY <1>k, <1>d DEF WorkInv, AtWork, DEnv
<1>1. CASE Posts(e)
  <2>1. step'[e] \in {"branch", "cut"} /\ status'[e] = "PROVISIONING"
    BY <1>1, <1>g DEF Posts, Post, PostFails, TypeOK
  <2> QED
    BY <1>k, <2>1 DEF Ended
<1>2. CASE LookUpBranch(e) \/ ChooseTemplate(e) \/ LookUpDb(e) \/ CreateDb(e)
         \/ TemplateHasNoSource(e) \/ TemplateFails(e) \/ LookUpApp(e) \/ CreateApp(e)
         \/ AttachDb(e) \/ CreateMachine(e)
         \/ WaitForHealthy(e) \/ FindVar(e)
  <2>1. /\ step'[e] \in (BeforeVarSteps \cup {"rollVar", "threw", "rethrown", "cut"}) \ {"none"}
        /\ status'[e] = IF status[e] = "none" THEN "PROVISIONING" ELSE status[e]
        /\ status[e] = "none" \/ step[e] # "none"
    BY <1>2, BeforeVar
  <2>2. status[e] # "none"
    BY <1>2, Working DEF Provision, RowInv, Ended
  <2>3. ASSUME step'[e] = "threw" PROVE status[e] = "gone"
    <3>l. ASSUME NEW x, NEW next, NEW create, LookUp(e, x, next, create) PROVE step'[e] \in {next, create}
      BY <3>l, <1>g DEF LookUp
    <3>c. ASSUME NEW x, NEW next, Create(e, x, next) PROVE step'[e] \in {next, "rollVar"}
      BY <3>c, <1>g, <1>f DEF Create
    <3>1. AfterApp(e) # "threw"
      BY DEF AfterApp
    <3>2. ASSUME LookUpDb(e) \/ LookUpApp(e) PROVE FALSE
      BY <2>3, <3>2, <3>l, <3>1 DEF LookUpDb, LookUpApp
    <3>3. ASSUME CreateDb(e) \/ CreateApp(e) PROVE FALSE
      BY <2>3, <3>3, <3>c, <3>1 DEF CreateDb, CreateApp
    <3>4. ASSUME LookUpBranch(e) \/ TemplateHasNoSource(e) \/ TemplateFails(e) \/ AttachDb(e) \/ CreateMachine(e)
                 \/ WaitForHealthy(e)
          PROVE  FALSE
      BY <2>3, <3>4, <1>g, <1>f DEF LookUpBranch, TemplateHasNoSource, TemplateFails, AttachDb,
         CreateMachine, WaitForHealthy
    <3>5. ASSUME FindVar(e) PROVE FALSE
      BY <2>3, <3>5, <1>g, <1>f DEF FindVar
    <3>6. ASSUME ChooseTemplate(e) PROVE status[e] = "gone"
      BY <2>3, <3>6, <1>g DEF ChooseTemplate, RowGone
    <3> QED
      BY <1>2, <3>2, <3>3, <3>4, <3>5, <3>6
  <2>4. step'[e] \in Ended => step'[e] \in {"threw", "rethrown", "cut"}
    BY <2>1 DEF Ended, BeforeVarSteps, HasDbSteps, HasAppSteps
  <2> QED
    BY <1>k, <2>1, <2>2, <2>3, <2>4
<1>3. CASE CreateVar(e) \/ UpdateVar(e) \/ RollBackVar(e) \/ RollBackApp(e) \/ RollBackDb(e)
  <2>1. step'[e] \notin Ended
    BY <1>3, AfterVar DEF Ended
  <2>2. status' = status
    BY <1>3 DEF CreateVar, UpdateVar, RollBackVar, RollBackApp, RollBackDb, RollBackFly
  <2> QED
    BY <1>k, <2>1, <2>2
<1>4. CASE Finish(e)
  <2>1. status'[e] = "RUNNING" \/ (status[e] = "gone" /\ status' = status)
    BY <1>4 DEF Finish, RowGone, TypeOK
  <2> QED
    BY <1>k, <2>1
<1>5. CASE MarkError(e)
  <2>1. status'[e] \in {"gone", "ERROR"}
    BY <1>5 DEF MarkError, MarkErrorFails, RowAfterFailure, TypeOK
  <2> QED
    BY <1>k, <2>1
<1>6. CASE MarkErrorFails(e) \/ ReadOrWriteThrows(e)
  <2>1. step'[e] \in {"rollVar", "cut"}
    BY <1>6, AfterVar
  <2>2. status'[e] \in {status[e], "gone", "ERROR"}
    BY <1>6 DEF MarkErrorFails, ReadOrWriteThrows, RowAfterFailure, onlyStep, TypeOK
  <2> QED
    BY <1>k, <2>1, <2>2 DEF Ended
<1> QED
  BY <1>1, <1>2, <1>3, <1>4, <1>5, <1>6 DEF Provision

\* A destruction leaves DESTROYING by deleting the row.
LEMMA WorkStep ==
  ASSUME TypeOK, \A r \in Requests : DestroyInv(r), \A e \in Envs : RowInv(e),
         [Next]_vars, NEW e \in Envs, WorkInv(e)
  PROVE  WorkInv(e)'
<1>1. ASSUME NEW f \in Envs, Posts(f) \/ Provision(f) PROVE WorkInv(e)'
  <2>1. CASE f = e
    BY <1>1, <2>1, OwnWork
  <2>2. CASE f # e
    <3>1. Quiet(e) /\ status'[e] = status[e]
      BY <1>1, <2>2, QuietElsewhere
    <3>2. destroyer' = destroyer
      BY <1>1 DEF Posts, Post, PostFails, Provision, LookUpBranch, ReadOrWriteThrows,
         ChooseTemplate, LookUpDb, CreateDb, TemplateHasNoSource, TemplateFails, LookUpApp,
         CreateApp, AttachDb, CreateMachine, WaitForHealthy, CreateVar, FindVar, UpdateVar, Finish,
         RollBackVar, RollBackApp, RollBackDb, RollBackFly, MarkError, MarkErrorFails, onlyStep
    <3> QED
      BY <3>1, <3>2 DEF WorkInv, AtWork, DEnv, Quiet
  <2> QED
    BY <2>1, <2>2
<1>2. ASSUME NEW r \in Requests, DestroyStep(r) PROVE WorkInv(e)'
  <2>1. Quiet(e) /\ (status'[e] = status[e] \/ (e = DEnv(r) /\ status'[e] \in {"DESTROYING", "gone"}))
    BY <1>2, DestroyQuiet
  <2>2. status'[e] = "PROVISIONING" => step'[e] \notin Ended \/ step'[e] \in {"rethrown", "cut"}
    BY <2>1 DEF Quiet, WorkInv
  <2>4. ASSUME NEW q \in Requests, q # r, AtWork(q, e) PROVE AtWork(q, e)'
    <3>1. destroyer'[q] = destroyer[q]
      BY <1>2, <2>4 DEF DestroyStep, Destroy, Delete, Expire, Pick, MarkDestroying, LoadRow,
         DestroyApp, DestroyDb, DestroyFly, DestroyVar, DeleteRow, DestroyFails, DGo, TypeOK
    <3> QED
      BY <2>4, <3>1 DEF AtWork, DEnv
  <2>g. ASSUME NEW s, DGo(r, s)
        PROVE  destroyer'[r].step = s /\ destroyer'[r].env = destroyer[r].env
    <3>1. PICK d : d = [destroyer[r] EXCEPT !.step = s]
      OBVIOUS
    <3>2. d.step = s /\ d.env = destroyer[r].env
      BY <3>1 DEF TypeOK
    <3>3. destroyer' = [destroyer EXCEPT ![r] = d]
      BY <2>g, <3>1 DEF DGo
    <3> QED
      BY <3>2, <3>3 DEF TypeOK
  <2>5. ASSUME AtWork(r, e), status'[e] = "DESTROYING" PROVE AtWork(r, e)'
    <3>1. status[e] # "gone"
      BY <1>2, <2>5 DEF DestroyStep, Destroy, Delete, Expire, Pick, MarkDestroying, LoadRow,
         DestroyApp, DestroyDb, DestroyFly, DestroyVar, DeleteRow, DestroyFails, AtWork, TypeOK
    <3>2. ~DeleteRow(r)
      BY <2>5 DEF DeleteRow, AtWork, TypeOK
    <3>3. CASE LoadRow(r)
      <4>1. PICK c : c = [destroyer[r] EXCEPT !.step = "app"]
        OBVIOUS
      <4>2. c.step = "app" /\ c.env = e /\ c \in [step : {"app"}, env : Envs \cup {"none"}, var : Ids]
        BY <2>5, <4>1 DEF TypeOK, AtWork, DEnv
      <4>3. PICK d : d = [c EXCEPT !.var = rowVar[e]]
        OBVIOUS
      <4>4. d.step = "app" /\ d.env = e
        BY <4>2, <4>3
      <4>5. destroyer' = [destroyer EXCEPT ![r] = d]
        BY <2>5, <3>1, <3>3, <4>1, <4>3 DEF LoadRow, RowGone, AtWork, TypeOK
      <4> QED
        BY <4>4, <4>5 DEF AtWork, DEnv, TypeOK
    <3>4. CASE DestroyApp(r) \/ DestroyDb(r) \/ DestroyVar(r)
      BY <2>5, <2>g, <3>4 DEF DestroyApp, DestroyDb, DestroyFly, DestroyVar, AfterApps, AtWork, DEnv
    <3>6. CASE DestroyFails(r)
      <4>1. DGo(r, "cut")
        BY <3>6 DEF DestroyFails
      <4> QED
        BY <2>5, <2>g, <4>1 DEF AtWork, DEnv
    <3>5. ~MarkDestroying(r) /\ \A f \in Envs : ~Pick(r, f)
      BY <2>5 DEF MarkDestroying, Pick, AtWork
    <3> QED
      BY <1>2, <3>2, <3>3, <3>4, <3>5, <3>6 DEF DestroyStep, Destroy, Delete, Expire
  <2>6. ASSUME status[e] # "DESTROYING", status'[e] = "DESTROYING" PROVE AtWork(r, e)'
    <3>1. e = DEnv(r)
      BY <2>1, <2>6
    <3>2. CASE MarkDestroying(r)
      <4>1. DGo(r, "load")
        BY <2>6, <3>1, <3>2 DEF MarkDestroying
      <4> QED
        BY <2>g, <3>1, <4>1 DEF AtWork, DEnv
    <3>3. CASE DestroyFails(r)
      BY <2>g, <3>1, <3>3 DEF DestroyFails, AtWork, DEnv
    <3> QED
      BY <1>2, <2>6, <3>1, <3>2, <3>3 DEF DestroyStep, Destroy, Delete, Expire, Pick, LoadRow,
         DestroyApp, DestroyDb, DestroyFly, DestroyVar, DeleteRow, TypeOK
  <2>7. status'[e] = "DESTROYING" => \E q \in Requests : AtWork(q, e)'
    BY <2>4, <2>5, <2>6 DEF WorkInv
  <2> QED
    BY <2>2, <2>7 DEF WorkInv
<1>3. ASSUME Restart PROVE WorkInv(e)'
  <2>1. ASSUME NEW r \in Requests, AtWork(r, e) PROVE AtWork(r, e)'
    <3>1. PICK d : d = [destroyer[r] EXCEPT !.step = "cut"]
      OBVIOUS
    <3>2. d.step = "cut" /\ d.env = e
      BY <2>1, <3>1 DEF TypeOK, AtWork, DEnv
    <3>3. destroyer'[r] = d
      BY <1>3, <2>1, <3>1 DEF Restart, AtWork
    <3> QED
      BY <3>2, <3>3 DEF AtWork, DEnv
  <2>2. status' = status /\ step'[e] = IF step[e] \in Ended THEN step[e] ELSE "cut"
    BY <1>3 DEF Restart
  <2> QED
    BY <2>1, <2>2 DEF WorkInv
<1>4. ASSUME UNCHANGED vars PROVE WorkInv(e)'
  BY <1>4 DEF vars, provisioner, WorkInv, AtWork, DEnv
<1> QED
  BY <1>1, <1>2, <1>3, <1>4 DEF Posts, Next, DestroyStep

------------------------------------------------------------------------------
(* The theorems. *)

LEMMA InvInit == Init => Inv /\ \A e \in Envs : WorkInv(e)
<1> SUFFICES ASSUME Init PROVE Inv /\ \A e \in Envs : WorkInv(e)
  OBVIOUS
<1>1. TypeOK
  BY TypeInit
<1>2. IdInv
  BY EnvAssumption DEF Init, IdInv, NoVar, EnvAssumption
<1>3. ASSUME NEW e \in Envs
      PROVE  RowInv(e) /\ FlyInv(e) /\ VarInv(e) /\ GoneInv(e) /\ ServedInv(e) /\ WorkInv(e)
  <2>1. /\ status[e] = "none" /\ step[e] = "none" /\ rowVar[e] = 0 /\ madeVar[e] = 0
        /\ \A s \in Scopes : vercel[s].env # e
    BY EnvAssumption DEF Init, NoVar, EnvAssumption
  <2>2. \A x \in FlyKinds : x \in fly[e] => <<e, x>> \in doubtful
    BY DEF Init
  <2>3. RowInv(e) /\ GoneInv(e) /\ WorkInv(e)
    BY <2>1 DEF RowInv, GoneInv, WorkInv
  <2>4. FlyInv(e)
    BY <2>1, <2>2 DEF FlyInv, Clean
  <2>5. VarInv(e)
    BY <2>1 DEF VarInv, VarClean
  <2>6. ServedInv(e)
    BY <2>1 DEF ServedInv, HasFly, HasVar, HasDbSteps, HasAppSteps
  <2> QED
    BY <2>3, <2>4, <2>5, <2>6
<1>4. \A r \in Requests : DestroyInv(r)
  BY DEF Init, DestroyInv, DEnv
<1> QED
  BY <1>1, <1>2, <1>3, <1>4 DEF Inv

LEMMA InvStep == Inv /\ (\A e \in Envs : WorkInv(e)) /\ [Next]_vars =>
                   Inv' /\ (\A e \in Envs : WorkInv(e))'
<1> SUFFICES ASSUME Inv, \A e \in Envs : WorkInv(e), [Next]_vars
             PROVE  Inv' /\ (\A e \in Envs : WorkInv(e))'
  OBVIOUS
<1>1. TypeOK'
  BY TypeStep DEF Inv
<1>2. IdInv'
  BY IdStep DEF Inv
<1>3. /\ \A e \in Envs : RowInv(e)' /\ FlyInv(e)' /\ VarInv(e)' /\ GoneInv(e)'
      /\ \A r \in Requests : DestroyInv(r)'
  BY CoreStep DEF Inv
<1>4. \A e \in Envs : ServedInv(e)'
  BY ServedStep DEF Inv
<1>5. \A e \in Envs : WorkInv(e)'
  BY WorkStep DEF Inv
<1> QED
  BY <1>1, <1>2, <1>3, <1>4, <1>5 DEF Inv

LEMMA Always == Spec => []Inv /\ [](\A e \in Envs : WorkInv(e))
BY InvInit, InvStep, PTL DEF Spec

\* The type invariant: every variable of the environments keeps the type the code gives it.
THEOREM TypeCorrect == Spec => []TypeOK
<1>1. Inv => TypeOK
  BY DEF Inv
<1> QED
  BY <1>1, Always, PTL

\* failWith rolls back before it writes ERROR: a row in ERROR has nothing left at the
\* providers but what a failed call was about, for any number of environments, failing calls
\* and destructions meanwhile (lib/lifecycle.ts).
THEOREM ErrorIsClean == Spec => []ErrorLeavesNothing
<1>1. Inv => ErrorLeavesNothing
  <2> SUFFICES ASSUME Inv, NEW e \in Envs, status[e] = "ERROR"
               PROVE  LeftAtFly(e) = {} /\ LeftAtVercel(e) = {}
    BY DEF ErrorLeavesNothing
  <2>1. fly[e] \subseteq FlyKinds
    BY DEF Inv, TypeOK
  <2>2. Clean(e, "app") /\ Clean(e, "db") /\ VarClean(e)
    BY DEF Inv, FlyInv, VarInv
  <2> QED
    BY <2>1, <2>2 DEF LeftAtFly, LeftAtVercel, Clean, VarClean, FlyKinds
<1> QED
  BY <1>1, Always, PTL

\* destroyEnvironment deletes the row last: once the row is gone, nothing of the environment
\* is left but what a failed call was about, unless its destruction raced with its provisioner.
THEOREM DestroyedIsClean == Spec => []DestroyLeavesNothing
<1>1. Inv => DestroyLeavesNothing
  <2> SUFFICES ASSUME Inv, NEW e \in Envs, status[e] = "gone", e \notin raced
               PROVE  LeftAtFly(e) = {} /\ (step[e] # "cut" => LeftAtVercel(e) = {})
    BY DEF DestroyLeavesNothing
  <2>1. fly[e] \subseteq FlyKinds
    BY DEF Inv, TypeOK
  <2>2. Clean(e, "app") /\ Clean(e, "db") /\ (step[e] = "cut" \/ VarClean(e))
    BY DEF Inv, GoneInv
  <2> QED
    BY <2>1, <2>2 DEF LeftAtFly, LeftAtVercel, Clean, VarClean, FlyKinds
<1> QED
  BY <1>1, Always, PTL

\* A row that is RUNNING and that nobody destroys has its app, its database and, alone on its
\* branch, its variable: no rollback and no destruction of another environment reaches them.
THEOREM RunningHasItsOwn == Spec => []RunningIsServed
<1>1. Inv => RunningIsServed
  <2> SUFFICES ASSUME Inv, NEW e \in Envs, status[e] = "RUNNING", \A r \in Requests : DEnv(r) # e
               PROVE  /\ fly[e] = FlyKinds
                      /\ Alone(e) => rowVar[e] # 0 /\ vercel[Scope[e]] = [id |-> rowVar[e], env |-> e]
    BY DEF RunningIsServed
  <2>1. step[e] = "done" /\ rowVar[e] = madeVar[e]
    BY DEF Inv, RowInv
  <2>2. HasFly(e) /\ HasVar(e)
    BY DEF Inv, ServedInv, Untouched
  <2>3. fly[e] \subseteq FlyKinds
    BY DEF Inv, TypeOK
  <2>4. fly[e] = FlyKinds
    BY <2>1, <2>2, <2>3 DEF HasFly, HasDbSteps, HasAppSteps, FlyKinds
  <2> QED
    BY <2>1, <2>2, <2>4 DEF HasVar
<1> QED
  BY <1>1, Always, PTL

\* A row in PROVISIONING or DESTROYING has a provisioner or a destruction at work on it, unless
\* a restart or a failed database call that nothing catches cut off the provisioning or a
\* destruction of that very row, or attachPostgres's error that skips failWith ended it.
THEOREM NobodyWaitsAlone == Spec => []SomebodyIsAtWork
<1>1. (\A e \in Envs : WorkInv(e)) => SomebodyIsAtWork
  BY DEF WorkInv, SomebodyIsAtWork, AtWork
<1> QED
  BY <1>1, Always, PTL

------------------------------------------------------------------------------
(* Every environment goes through an EnvLifecycle. *)

\* What the provisioner has not come to yet is not registered.
MadeInv(e) ==
  /\ step[e] \in {"none", "branch", "template", "dbLookup", "dbCreate"} => made[e] = {}
  /\ step[e] \in {"appLookup", "appCreate"} => "app" \notin made[e]

\* A destruction that goes on has marked the row, and no status leads back.
Busy(r, e) == DEnv(r) = e /\ destroyer[r].step \in {"load", "app", "db", "var", "row"}
MarkedInv(e) ==
  \A r \in Requests : Busy(r, e) => status[e] \notin {"none", "PROVISIONING"}

LEMMA MadeStep ==
  ASSUME TypeOK, NEW e \in Envs, RowInv(e), MadeInv(e), Posts(e) \/ Provision(e)
  PROVE  MadeInv(e)'
<1> DEFINE Early == {"none", "branch", "template", "dbLookup", "dbCreate"}
           Mid == {"appLookup", "appCreate"}
<1>g. ASSUME NEW s, Go(e, s) PROVE step'[e] = s
  BY <1>g DEF Go, TypeOK
<1>f. Fail(e) => step'[e] = "rollVar"
  BY <1>g DEF Fail
<1>r. ASSUME NEW x, made' = Register(e, x) PROVE made'[e] = made[e] \cup {x}
  BY <1>r DEF Register, TypeOK
<1>a. AfterApp(e) \in {"machine", "attach"}
  BY DEF AfterApp
<1>1. CASE Posts(e)
  <2>1. step[e] = "none" /\ made' = made
    BY <1>1 DEF Posts, Post, PostFails, RowInv
  <2>2. step'[e] \in {"branch", "cut"}
    BY <1>1, <1>g DEF Posts, Post, PostFails
  <2> QED
    BY <2>1, <2>2 DEF MadeInv
<1>2. CASE LookUpBranch(e) \/ ChooseTemplate(e)
  <2>1. step[e] \in {"branch", "template"} /\ made' = made
    BY <1>2 DEF LookUpBranch, ChooseTemplate, At, onlyStep
  <2>2. step'[e] \notin Mid
    BY <1>2, <1>g, <1>f DEF LookUpBranch, ChooseTemplate
  <2> QED
    BY <2>1, <2>2 DEF MadeInv
<1>3. CASE LookUpDb(e)
  <2>1. step[e] = "dbLookup" /\ LookUp(e, "db", "appLookup", "dbCreate")
    BY <1>3 DEF LookUpDb, At
  <2>2. made[e] = {}
    BY <2>1 DEF MadeInv
  <2>3. \/ made'[e] = {"db"} /\ step'[e] = "appLookup"
        \/ made'[e] = {} /\ step'[e] = "dbCreate"
    BY <1>g, <1>r, <2>1, <2>2 DEF LookUp
  <2> QED
    BY <2>3 DEF MadeInv
<1>4. CASE CreateDb(e)
  <2>1. step[e] = "dbCreate" /\ Create(e, "db", "appLookup")
    BY <1>4 DEF CreateDb, At
  <2>2. made[e] = {}
    BY <2>1 DEF MadeInv
  <2>3. \/ made'[e] = {"db"} /\ step'[e] = "appLookup"
        \/ step'[e] = "rollVar"
    BY <1>g, <1>f, <1>r, <2>1, <2>2 DEF Create
  <2> QED
    BY <2>3 DEF MadeInv
<1>5. CASE LookUpApp(e)
  <2>1. step[e] = "appLookup" /\ LookUp(e, "app", AfterApp(e), "appCreate")
    BY <1>5 DEF LookUpApp, At
  <2>2. step'[e] = AfterApp(e) \/ (step'[e] = "appCreate" /\ made' = made)
    BY <1>g, <2>1 DEF LookUp
  <2> QED
    BY <1>a, <2>1, <2>2 DEF MadeInv
<1>6. CASE CreateApp(e)
  <2>1. step'[e] \in {AfterApp(e), "rollVar"}
    BY <1>6, <1>g, <1>f DEF CreateApp, Create
  <2> QED
    BY <1>a, <2>1 DEF MadeInv
<1>7. CASE TemplateHasNoSource(e) \/ TemplateFails(e) \/ AttachDb(e) \/ CreateMachine(e) \/ WaitForHealthy(e) \/ FindVar(e)
  <2>1. step'[e] \in {"rollVar", "rethrown", "machine", "health", "var", "varUpdate"}
    BY <1>7, <1>g, <1>f DEF TemplateHasNoSource, TemplateFails, AttachDb, CreateMachine,
       WaitForHealthy, FindVar
  <2> QED
    BY <2>1 DEF MadeInv
<1>8. CASE CreateVar(e) \/ UpdateVar(e) \/ Finish(e) \/ RollBackVar(e) \/ RollBackApp(e)
           \/ RollBackDb(e) \/ MarkError(e) \/ MarkErrorFails(e) \/ ReadOrWriteThrows(e)
  <2>1. step'[e] \notin Early \cup Mid
    BY <1>8, AfterVar
  <2> QED
    BY <2>1 DEF MadeInv
<1> QED
  BY <1>1, <1>2, <1>3, <1>4, <1>5, <1>6, <1>7, <1>8 DEF Provision

\* The provisioner alone does not mark the row, nor unmark it.
LEMMA ProvisionKeepsMark ==
  ASSUME TypeOK, NEW e \in Envs, Posts(e) \/ Provision(e)
  PROVE  /\ destroyer' = destroyer /\ raced' = raced
         /\ Posts(e) => status[e] = "none"
         /\ Provision(e) => status'[e] = status[e] \/ status'[e] \in {"RUNNING", "ERROR", "gone"}
BY DEF Posts, Post, PostFails, Provision, LookUpBranch, ReadOrWriteThrows, ChooseTemplate, LookUpDb,
   CreateDb, TemplateHasNoSource, TemplateFails, LookUpApp, CreateApp, AttachDb, CreateMachine,
   WaitForHealthy, CreateVar, FindVar, UpdateVar, Finish, RollBackVar, RollBackApp, RollBackDb,
   RollBackFly, MarkError, MarkErrorFails, onlyStep, RowAfterFailure, TypeOK

LEMMA DestroyKeepsMark ==
  ASSUME TypeOK, NEW r \in Requests, DestroyInv(r), DestroyStep(r), NEW e \in Envs, MarkedInv(e)
  PROVE  MarkedInv(e)'
<1>1. status'[e] = status[e] \/ (e = DEnv(r) /\ status'[e] \in {"DESTROYING", "gone"})
  BY DestroyQuiet
<1>2. ASSUME NEW q \in Requests, q # r PROVE destroyer'[q] = destroyer[q]
  BY <1>2 DEF DestroyStep, Destroy, Delete, Expire, Pick, MarkDestroying, LoadRow, DestroyApp,
     DestroyDb, DestroyFly, DestroyVar, DeleteRow, DestroyFails, DGo, TypeOK
<1>3. ASSUME Busy(r, e)' PROVE Busy(r, e) \/ status'[e] = "DESTROYING"
  <2>1. CASE \E f \in Envs : Pick(r, f)
    <3>1. PICK f \in Envs : Pick(r, f)
      BY <2>1
    <3>2. PICK c : c = [destroyer[r] EXCEPT !.step = "mark"]
      OBVIOUS
    <3>3. PICK d : d = [c EXCEPT !.env = f]
      OBVIOUS
    <3>4. d.step = "mark"
      BY <3>2, <3>3 DEF TypeOK
    <3>5. destroyer' = [destroyer EXCEPT ![r] = d]
      BY <3>1, <3>2, <3>3 DEF Pick, TypeOK
    <3>6. destroyer'[r].step = "mark"
      BY <3>4, <3>5 DEF TypeOK
    <3> QED
      BY <1>3, <3>6 DEF Busy
  <2>2. ASSUME Destroy(r) PROVE destroyer'[r].env = destroyer[r].env
    <3>1. ASSUME NEW s, DGo(r, s) PROVE destroyer'[r].env = destroyer[r].env
      <4>1. PICK d : d = [destroyer[r] EXCEPT !.step = s]
        OBVIOUS
      <4>2. d.env = destroyer[r].env
        BY <4>1 DEF TypeOK
      <4>3. destroyer' = [destroyer EXCEPT ![r] = d]
        BY <3>1, <4>1 DEF DGo
      <4> QED
        BY <4>2, <4>3 DEF TypeOK
    <3>2. CASE LoadRow(r) /\ ~RowGone(DEnv(r))
      <4>1. PICK c : c = [destroyer[r] EXCEPT !.step = "app"]
        OBVIOUS
      <4>2. PICK d : d = [c EXCEPT !.var = rowVar[DEnv(r)]]
        OBVIOUS
      <4>3. d.env = destroyer[r].env
        BY <4>1, <4>2 DEF TypeOK
      <4>4. destroyer' = [destroyer EXCEPT ![r] = d]
        BY <3>2, <4>1, <4>2 DEF LoadRow, TypeOK
      <4> QED
        BY <4>3, <4>4 DEF TypeOK
    <3> QED
      BY <2>2, <3>1, <3>2 DEF Destroy, MarkDestroying, LoadRow, DestroyApp, DestroyDb, DestroyFly,
         DestroyVar, DeleteRow, DestroyFails
  <2>3. CASE MarkDestroying(r)
    <3>1. DEnv(r) = e
      BY <1>3, <2>2, <2>3 DEF Busy, DEnv, Destroy
    <3>2. destroyer'[r].step = "end" \/ status'[e] = "DESTROYING"
      <4>1. CASE RowGone(e)
        <5>1. PICK d : d = [destroyer[r] EXCEPT !.step = "end"]
          OBVIOUS
        <5>2. d.step = "end"
          BY <5>1 DEF TypeOK
        <5>3. destroyer' = [destroyer EXCEPT ![r] = d]
          BY <2>3, <3>1, <4>1, <5>1 DEF MarkDestroying, DGo
        <5> QED
          BY <5>2, <5>3 DEF TypeOK
      <4>2. CASE ~RowGone(e)
        BY <2>3, <3>1, <4>2 DEF MarkDestroying, TypeOK
      <4> QED
        BY <4>1, <4>2
    <3> QED
      BY <1>3, <3>2 DEF Busy
  <2>4. CASE Destroy(r) /\ ~MarkDestroying(r)
    <3>0. ~DestroyFails(r)
      <4>1. ASSUME DestroyFails(r) PROVE FALSE
        <5>1. PICK d : d = [destroyer[r] EXCEPT !.step = "cut"]
          OBVIOUS
        <5>2. d.step = "cut"
          BY <5>1 DEF TypeOK
        <5>3. destroyer' = [destroyer EXCEPT ![r] = d]
          BY <4>1, <5>1 DEF DestroyFails, DGo
        <5>4. destroyer'[r].step = "cut"
          BY <5>2, <5>3 DEF TypeOK
        <5> QED
          BY <1>3, <5>4 DEF Busy
      <4> QED
        BY <4>1
    <3>1. destroyer[r].step \in {"load", "app", "db", "var", "row"}
      BY <2>4, <3>0 DEF Destroy, LoadRow, DestroyApp, DestroyDb, DestroyFly, DestroyVar, DeleteRow
    <3>2. DEnv(r) = e
      BY <1>3, <2>2, <2>4 DEF Busy, DEnv
    <3> QED
      BY <3>1, <3>2 DEF Busy
  <2> QED
    BY <2>1, <2>3, <2>4 DEF DestroyStep, Delete, Expire
<1>4. ASSUME NEW q \in Requests, Busy(q, e)' PROVE status'[e] \notin {"none", "PROVISIONING"}
  <2>1. CASE q = r
    BY <1>1, <1>3, <1>4, <2>1 DEF MarkedInv
  <2>2. CASE q # r
    BY <1>1, <1>2, <1>4, <2>2 DEF MarkedInv, Busy, DEnv
  <2> QED
    BY <2>1, <2>2
<1> QED
  BY <1>4 DEF MarkedInv

LEMMA MadeAndMarkedStep ==
  ASSUME Inv, [Next]_vars, NEW e \in Envs, MadeInv(e), MarkedInv(e)
  PROVE  MadeInv(e)' /\ MarkedInv(e)'
<1>t. TypeOK /\ RowInv(e) /\ \A r \in Requests : DestroyInv(r)
  BY DEF Inv
<1>1. ASSUME NEW f \in Envs, Posts(f) \/ Provision(f) PROVE MadeInv(e)' /\ MarkedInv(e)'
  <2>1. destroyer' = destroyer
    BY <1>1, <1>t, ProvisionKeepsMark
  <2>2. CASE f # e
    <3>1. step'[e] = step[e] /\ made'[e] = made[e] /\ status'[e] = status[e]
      BY <1>1, <1>t, <2>2, ProvisionLocal
    <3> QED
      BY <2>1, <3>1 DEF MadeInv, MarkedInv, Busy, DEnv
  <2>3. CASE f = e
    <3>1. MadeInv(e)'
      BY <1>1, <1>t, <2>3, MadeStep
    <3>2. /\ Posts(e) => status[e] = "none"
          /\ Provision(e) => status'[e] = status[e] \/ status'[e] \in {"RUNNING", "ERROR", "gone"}
      BY <1>1, <1>t, <2>3, ProvisionKeepsMark
    <3>3. MarkedInv(e)'
      BY <1>1, <2>1, <2>3, <3>2 DEF MarkedInv, Busy, DEnv
    <3> QED
      BY <3>1, <3>3
  <2> QED
    BY <2>2, <2>3
<1>2. ASSUME NEW r \in Requests, DestroyStep(r) PROVE MadeInv(e)' /\ MarkedInv(e)'
  <2>1. Quiet(e)
    BY <1>2, <1>t, DestroyQuiet
  <2>2. MadeInv(e)'
    BY <2>1 DEF Quiet, MadeInv
  <2>3. MarkedInv(e)'
    BY <1>2, <1>t, DestroyKeepsMark
  <2> QED
    BY <2>2, <2>3
<1>3. CASE Restart
  <2>1. made' = made /\ step'[e] \in {step[e], "cut"}
    BY <1>3, <1>t DEF Restart, TypeOK
  <2>2. \A r \in Requests : destroyer'[r].step \in {"idle", "end", "cut"}
    <3>1. ASSUME NEW r \in Requests PROVE [destroyer[r] EXCEPT !.step = "cut"].step = "cut"
      BY <1>t DEF TypeOK
    <3> QED
      BY <1>3, <3>1 DEF Restart
  <2> QED
    BY <2>1, <2>2 DEF MadeInv, MarkedInv, Busy
<1>4. CASE UNCHANGED vars
  BY <1>4 DEF vars, provisioner, MadeInv, MarkedInv, Busy, DEnv
<1> QED
  BY <1>1, <1>2, <1>3, <1>4 DEF Posts, Next, DestroyStep

\* A step that leaves an environment where it is, as EnvLifecycle sees it.
SameLife(e) ==
  /\ status'[e] = status[e] /\ WorkOf(e)' = WorkOf(e) /\ LeftAtFly(e)' = LeftAtFly(e)
  /\ Asked(e)' = Asked(e) /\ (e \in raced') = (e \in raced)

LEMMA SameLifeStutters == ASSUME NEW e, SameLife(e) PROVE Lifecycle(e)!Step
BY DEF SameLife, Lifecycle!Step, Lifecycle!vars

\* What is held follows from what is at Fly and what is in doubt.
LEMMA HeldKept ==
  ASSUME TypeOK, TypeOK', NEW e \in Envs, fly'[e] = fly[e],
         \A x \in FlyKinds : <<e, x>> \in doubtful' <=> <<e, x>> \in doubtful
  PROVE  LeftAtFly(e)' = LeftAtFly(e)
BY DEF LeftAtFly, TypeOK

LEMMA HeldFell ==
  ASSUME TypeOK, NEW e \in Envs, NEW x \in FlyKinds, DeleteFly(e, x)
  PROVE  LeftAtFly(e)' = LeftAtFly(e) \ {x}
<1>1. CASE fly' = [fly EXCEPT ![e] = @ \ {x}] /\ Succeeds
  <2>1. fly'[e] = fly[e] \ {x} /\ doubtful' = doubtful
    BY <1>1 DEF TypeOK, Succeeds, trouble
  <2> QED
    BY <2>1 DEF LeftAtFly
<1>2. CASE UNCHANGED fly /\ FailsAbout(e, x, FALSE)
  <2>1. fly' = fly /\ doubtful' = doubtful \cup {<<e, x>>}
    BY <1>2 DEF FailsAbout
  <2> QED
    BY <2>1 DEF LeftAtFly
<1> QED
  BY <1>1, <1>2 DEF DeleteFly

LEMMA WorkNames ==
  ASSUME NEW e
  PROVE  /\ step[e] \in {"branch", "template", "dbLookup", "dbCreate"} \cup (HasDbSteps \ {"done"})
              => WorkOf(e) = "open"
         /\ step[e] \in RollSteps => WorkOf(e) = "failing"
         /\ step[e] \in {"threw", "rethrown"} => WorkOf(e) = "failed"
         /\ step[e] = "none" => WorkOf(e) = "none"
         /\ step[e] = "done" => WorkOf(e) = "done"
         /\ step[e] = "cut" => WorkOf(e) = "cut"
         /\ step[e] \in Ended => WorkOf(e) \notin {"open", "failing"}
BY DEF WorkOf, HasDbSteps, HasAppSteps, RollSteps, Ended

LEMMA NotEndedIsWorking ==
  ASSUME NEW e, step[e] \notin Ended PROVE WorkOf(e) \in {"open", "failing"}
BY DEF WorkOf, Ended

\* A provisioner seen from another environment.
LEMMA LifeElsewhere ==
  ASSUME TypeOK, TypeOK', NEW e \in Envs, NEW f \in Envs, f # e, Posts(e) \/ Provision(e)
  PROVE  SameLife(f)
<1>1. /\ status'[f] = status[f] /\ step'[f] = step[f] /\ fly'[f] = fly[f] /\ DoubtsOnlyOf(e)
      /\ UNCHANGED <<destroyer, raced>>
  BY ProvisionLocal
<1>2. \A x \in FlyKinds : <<f, x>> \in doubtful' <=> <<f, x>> \in doubtful
  BY <1>1 DEF DoubtsOnlyOf, Resources
<1>3. LeftAtFly(f)' = LeftAtFly(f)
  BY <1>1, <1>2, HeldKept
<1> QED
  BY <1>1, <1>3 DEF SameLife, WorkOf, Asked, DEnv

\* The steps that only ask, while the provisioning is open: nothing comes or goes.
LEMMA AskingLife ==
  ASSUME Inv, TypeOK', NEW e \in Envs,
         LookUpBranch(e) \/ ChooseTemplate(e) \/ TemplateHasNoSource(e) \/ AttachDb(e)
         \/ CreateMachine(e) \/ WaitForHealthy(e) \/ FindVar(e) \/ CreateVar(e) \/ UpdateVar(e)
  PROVE  Lifecycle(e)!Step
<1>t. TypeOK /\ RowInv(e)
  BY DEF Inv
<1>1. Provision(e)
  BY DEF Provision
<1>2. UNCHANGED <<Asked(e), raced, status>>
  BY <1>t, <1>1, ProvisionKeepsMark DEF Asked, DEnv, LookUpBranch, ChooseTemplate,
     TemplateHasNoSource, AttachDb, CreateMachine, WaitForHealthy, FindVar, CreateVar, UpdateVar,
     onlyStep
<1>3. fly' = fly
  BY DEF LookUpBranch, ChooseTemplate, TemplateHasNoSource, AttachDb, CreateMachine, WaitForHealthy,
     FindVar, CreateVar, UpdateVar, onlyStep, providers
<1>4. \A x \in FlyKinds : <<e, x>> \in doubtful' <=> <<e, x>> \in doubtful
  <2>1. CASE CreateVar(e) \/ UpdateVar(e)
    <3>1. UNCHANGED trouble \/ \E why : FailsAbout(e, "var", why)
      BY <2>1 DEF CreateVar, UpdateVar, Succeeds
    <3> QED
      BY <3>1 DEF FailsAbout, trouble, FlyKinds
  <2>2. CASE LookUpBranch(e) \/ ChooseTemplate(e) \/ TemplateHasNoSource(e) \/ AttachDb(e)
             \/ CreateMachine(e) \/ WaitForHealthy(e) \/ FindVar(e)
    BY <2>2 DEF LookUpBranch, ChooseTemplate, TemplateHasNoSource, AttachDb, CreateMachine,
       WaitForHealthy, FindVar, Succeeds, Fails, trouble
  <2> QED
    BY <2>1, <2>2
<1>5. LeftAtFly(e)' = LeftAtFly(e)
  BY <1>t, <1>3, <1>4, HeldKept
<1>6. WorkOf(e) = "open"
  BY WorkNames DEF LookUpBranch, ChooseTemplate, TemplateHasNoSource, AttachDb, CreateMachine,
     WaitForHealthy, FindVar, CreateVar, UpdateVar, At, HasDbSteps, HasAppSteps
<1>7. WorkOf(e)' \in {"open", "failing", "failed", "cut"}
  <2>1. step'[e] \in (BeforeVarSteps \cup {"finish", "rollVar", "threw", "rethrown", "cut"}) \ {"none"}
    BY <1>t, BeforeVar, AfterVar DEF BeforeVarSteps, HasDbSteps, HasAppSteps
  <2> QED
    BY <2>1 DEF WorkOf, BeforeVarSteps, HasDbSteps, HasAppSteps
<1>8. CASE WorkOf(e)' = "open"
  BY <1>2, <1>5, <1>6, <1>8, SameLifeStutters DEF SameLife
<1>9. CASE WorkOf(e)' \in {"failing", "failed"}
  BY <1>2, <1>5, <1>6, <1>9 DEF Lifecycle!Step, Lifecycle!Next, Lifecycle!Break
<1>10. CASE WorkOf(e)' = "cut"
  BY <1>2, <1>5, <1>6, <1>10 DEF Lifecycle!Step, Lifecycle!Next, Lifecycle!CutOff
<1> QED
  BY <1>7, <1>8, <1>9, <1>10

\* What is found or created is held from then on; what may have been created is not.
LEMMA TakingLife ==
  ASSUME Inv, TypeOK', NEW e \in Envs, MadeInv(e),
         LookUpDb(e) \/ LookUpApp(e) \/ CreateDb(e) \/ CreateApp(e) \/ TemplateFails(e)
  PROVE  Lifecycle(e)!Step
<1>t. TypeOK /\ RowInv(e) /\ FlyInv(e)
  BY DEF Inv
<1>1. Provision(e)
  BY DEF Provision
<1>2. UNCHANGED <<Asked(e), raced, status>>
  BY <1>t, <1>1, ProvisionKeepsMark DEF Asked, DEnv, LookUpDb, LookUpApp, CreateDb, CreateApp,
     TemplateFails
<1>6. WorkOf(e) = "open"
  BY WorkNames DEF LookUpDb, LookUpApp, CreateDb, CreateApp, TemplateFails, At, HasDbSteps,
     HasAppSteps
<1>g. ASSUME NEW s, Go(e, s) PROVE step'[e] = s
  BY <1>g, <1>t DEF Go, TypeOK
<1>o. ASSUME step'[e] \in {"appLookup", "dbCreate", "appCreate", "machine", "attach"}
      PROVE  WorkOf(e)' = "open"
  BY <1>o DEF WorkOf
<1>a. AfterApp(e) \in {"machine", "attach"}
  BY DEF AfterApp
<1>3. CASE LookUpDb(e) \/ LookUpApp(e)
  <2>1. PICK x \in FlyKinds, next \in {"appLookup", "machine", "attach"},
             create \in {"dbCreate", "appCreate"} : LookUp(e, x, next, create)
    BY <1>3, <1>a, StepNamesFacts DEF LookUpDb, LookUpApp
  <2>2. WorkOf(e)' = "open"
    BY <1>g, <1>o, <2>1 DEF LookUp
  <2>3. fly' = fly
    BY <1>3 DEF LookUpDb, LookUpApp, providers
  <2>4. CASE x \in fly[e] /\ doubtful' = doubtful \ {<<e, x>>}
    <3>1. LeftAtFly(e)' = LeftAtFly(e) \cup {x}
      BY <2>3, <2>4 DEF LeftAtFly
    <3> QED
      BY <1>2, <1>6, <2>2, <3>1 DEF Lifecycle!Step, Lifecycle!Next, Lifecycle!Acquire
  <2>5. CASE doubtful' = doubtful
    <3>1. LeftAtFly(e)' = LeftAtFly(e)
      BY <2>3, <2>5 DEF LeftAtFly
    <3> QED
      BY <1>2, <1>6, <2>2, <3>1, SameLifeStutters DEF SameLife
  <2> QED
    BY <2>1, <2>4, <2>5 DEF LookUp, Fails
<1>4. CASE CreateDb(e) \/ CreateApp(e)
  <2>1. PICK x \in FlyKinds, next \in {"appLookup", "machine", "attach"} :
          Create(e, x, next) /\ x \notin made[e]
    BY <1>4, <1>a, StepNamesFacts DEF CreateDb, CreateApp, At, MadeInv
  <2>2. Clean(e, x)
    BY <1>t, <2>1 DEF FlyInv
  <2>3. CASE fly' = [fly EXCEPT ![e] = @ \cup {x}] /\ Go(e, next) /\ Succeeds
    <3>1. WorkOf(e)' = "open"
      BY <1>g, <1>o, <2>1, <2>3
    <3>2. fly'[e] = fly[e] \cup {x} /\ doubtful' = doubtful
      BY <1>t, <2>3 DEF TypeOK, Succeeds, trouble
    <3>3. CASE <<e, x>> \in doubtful
      <4>1. LeftAtFly(e)' = LeftAtFly(e)
        BY <3>2, <3>3 DEF LeftAtFly
      <4> QED
        BY <1>2, <1>6, <3>1, <4>1, SameLifeStutters DEF SameLife
    <3>4. CASE <<e, x>> \notin doubtful
      <4>1. LeftAtFly(e)' = LeftAtFly(e) \cup {x}
        BY <3>2, <3>4 DEF LeftAtFly
      <4> QED
        BY <1>2, <1>6, <3>1, <4>1 DEF Lifecycle!Step, Lifecycle!Next, Lifecycle!Acquire
    <3> QED
      BY <3>3, <3>4
  <2>4. CASE FailsAbout(e, x, x \in fly[e]) /\ Fail(e)
             /\ (UNCHANGED fly \/ fly' = [fly EXCEPT ![e] = @ \cup {x}])
    <3>1. WorkOf(e)' = "failing"
      BY <1>g, <2>4 DEF Fail, WorkOf
    <3>2. fly'[e] \in {fly[e], fly[e] \cup {x}} /\ doubtful' = doubtful \cup {<<e, x>>}
      BY <1>t, <2>4 DEF TypeOK, FailsAbout
    <3>3. LeftAtFly(e)' = LeftAtFly(e)
      BY <2>2, <3>2 DEF LeftAtFly, Clean
    <3> QED
      BY <1>2, <1>6, <3>1, <3>3 DEF Lifecycle!Step, Lifecycle!Next, Lifecycle!Break
  <2> QED
    BY <2>1, <2>3, <2>4 DEF Create
<1>5. CASE TemplateFails(e)
  <2>1. WorkOf(e)' = "failing" /\ doubtful' = doubtful
    BY <1>5, <1>g DEF TemplateFails, Fail, Fails, WorkOf
  <2>2. CASE UNCHANGED fly
    <3>1. LeftAtFly(e)' = LeftAtFly(e)
      BY <2>1, <2>2 DEF LeftAtFly
    <3> QED
      BY <1>2, <1>6, <2>1, <3>1 DEF Lifecycle!Step, Lifecycle!Next, Lifecycle!Break
  <2>3. CASE fly' = [fly EXCEPT ![e] = @ \cup {"db"}]
    <3>1. fly'[e] = fly[e] \cup {"db"}
      BY <1>t, <2>3 DEF TypeOK
    <3>2. CASE <<e, "db">> \in doubtful
      <4>1. LeftAtFly(e)' = LeftAtFly(e)
        BY <2>1, <3>1, <3>2 DEF LeftAtFly
      <4> QED
        BY <1>2, <1>6, <2>1, <4>1 DEF Lifecycle!Step, Lifecycle!Next, Lifecycle!Break
    <3>3. CASE <<e, "db">> \notin doubtful
      <4>1. LeftAtFly(e)' = LeftAtFly(e) \cup {"db"}
        BY <2>1, <3>1, <3>3 DEF LeftAtFly
      <4> QED
        BY <1>2, <1>6, <2>1, <4>1, StepNamesFacts
           DEF Lifecycle!Step, Lifecycle!Next, Lifecycle!Acquire
    <3> QED
      BY <3>2, <3>3
  <2> QED
    BY <1>5, <2>2, <2>3 DEF TemplateFails
<1> QED
  BY <1>3, <1>4, <1>5

\* Deleting a variable puts nothing at Fly in doubt.
LEMMA VarLeavesFly ==
  ASSUME NEW e, NEW f, NEW id, DeleteVar(f, id) \/ UNCHANGED trouble, NEW x \in FlyKinds
  PROVE  <<e, x>> \in doubtful' <=> <<e, x>> \in doubtful
<1>1. UNCHANGED trouble \/ FailsAbout(f, "var", FALSE)
  BY DEF DeleteVar, Succeeds
<1> QED
  BY <1>1 DEF FailsAbout, trouble, FlyKinds

LEMMA CleanHoldsNothing ==
  ASSUME TypeOK, NEW e \in Envs, Clean(e, "app"), Clean(e, "db") PROVE LeftAtFly(e) = {}
<1>1. fly[e] \subseteq FlyKinds
  BY DEF TypeOK
<1> QED
  BY <1>1 DEF LeftAtFly, Clean, FlyKinds

\* The last update, the rollback and the error written after it.
LEMMA EndingLife ==
  ASSUME Inv, TypeOK', NEW e \in Envs,
         Finish(e) \/ RollBackVar(e) \/ RollBackApp(e) \/ RollBackDb(e) \/ MarkError(e)
         \/ MarkErrorFails(e) \/ ReadOrWriteThrows(e)
  PROVE  Lifecycle(e)!Step
<1>t. TypeOK /\ FlyInv(e)
  BY DEF Inv
<1>1. Provision(e)
  BY DEF Provision
<1>2. UNCHANGED <<Asked(e), raced>>
  BY <1>t, <1>1, ProvisionKeepsMark DEF Asked, DEnv
<1>r. WorkOf(e)' = "failing" <=> step'[e] \in RollSteps
  BY DEF WorkOf, RollSteps
<1>3. CASE Finish(e)
  <2>1. LeftAtFly(e)' = LeftAtFly(e)
    BY <1>3 DEF Finish, providers, trouble, LeftAtFly
  <2>2. WorkOf(e) = "open"
    BY <1>3, <1>t, AfterVar, WorkNames DEF HasDbSteps, HasAppSteps
  <2>g. ASSUME NEW s, Go(e, s) PROVE step'[e] = s
    BY <2>g, <1>t DEF Go, TypeOK
  <2>3. CASE RowGone(e)
    <3>1. status' = status /\ WorkOf(e)' = "failed"
      BY <1>3, <2>3, <2>g DEF Finish, WorkOf
    <3> QED
      BY <1>2, <2>1, <2>2, <3>1 DEF Lifecycle!Step, Lifecycle!Next, Lifecycle!Break
  <2>4. CASE ~RowGone(e)
    <3>1. status'[e] = "RUNNING" /\ WorkOf(e)' = "done"
      BY <1>3, <1>t, <2>4, <2>g DEF Finish, WorkOf, TypeOK
    <3> QED
      BY <1>2, <2>1, <2>2, <2>4, <3>1 DEF Lifecycle!Step, Lifecycle!Next, Lifecycle!Succeed, RowGone
  <2> QED
    BY <2>3, <2>4
<1>4. CASE RollBackVar(e)
  <2>1. WorkOf(e) = "failing" /\ WorkOf(e)' = "failing" /\ status' = status
    BY <1>4, <1>t, <1>r, AfterVar, WorkNames DEF RollSteps, RollBackVar
  <2>2. fly' = fly
    BY <1>4 DEF RollBackVar
  <2>3. \A x \in FlyKinds : <<e, x>> \in doubtful' <=> <<e, x>> \in doubtful
    BY <1>4, VarLeavesFly DEF RollBackVar
  <2>4. LeftAtFly(e)' = LeftAtFly(e)
    BY <1>t, <2>2, <2>3, HeldKept
  <2> QED
    BY <1>2, <2>1, <2>4, SameLifeStutters DEF SameLife
<1>5. CASE RollBackApp(e) \/ RollBackDb(e)
  <2>1. WorkOf(e) = "failing" /\ WorkOf(e)' = "failing" /\ status' = status
    BY <1>5, <1>t, <1>r, AfterVar, WorkNames DEF RollSteps, RollBackApp, RollBackDb, RollBackFly
  <2>2. PICK x \in FlyKinds : DeleteFly(e, x) \/ UNCHANGED <<fly, trouble>>
    BY <1>5, StepNamesFacts DEF RollBackApp, RollBackDb, RollBackFly
  <2>3. CASE DeleteFly(e, x)
    <3>1. LeftAtFly(e)' = LeftAtFly(e) \ {x}
      BY <1>t, <2>3, HeldFell
    <3> QED
      BY <1>2, <2>1, <3>1 DEF Lifecycle!Step, Lifecycle!Next, Lifecycle!Release
  <2>4. CASE UNCHANGED <<fly, trouble>>
    <3>1. LeftAtFly(e)' = LeftAtFly(e)
      BY <2>4 DEF LeftAtFly, trouble
    <3> QED
      BY <1>2, <2>1, <3>1, SameLifeStutters DEF SameLife
  <2> QED
    BY <2>2, <2>3, <2>4
<1>6. CASE MarkError(e)
  <2>1. step[e] = "markError" /\ step'[e] \in {"rollVar", "threw"}
    BY <1>6, <1>t, AfterVar
  <2>2. WorkOf(e) = "failing" /\ WorkOf(e)' \in {"failing", "failed"}
    BY <2>1 DEF WorkOf
  <2>3. LeftAtFly(e) = {}
    BY <1>t, <2>1, CleanHoldsNothing DEF FlyInv
  <2>4. LeftAtFly(e)' = LeftAtFly(e)
    BY <1>6 DEF MarkError, MarkErrorFails, providers, trouble, LeftAtFly
  <2>5. status'[e] = IF status[e] = "gone" THEN "gone" ELSE "ERROR"
    BY <1>6, <1>t DEF MarkError, MarkErrorFails, RowAfterFailure, RowGone, TypeOK
  <2> QED
    BY <1>2, <2>2, <2>3, <2>4, <2>5 DEF Lifecycle!Step, Lifecycle!Next, Lifecycle!WriteError
<1>7. CASE MarkErrorFails(e)
  <2>1. step[e] = "markError" /\ step'[e] \in {"rollVar", "cut"}
    BY <1>7, <1>t, AfterVar
  <2>2. WorkOf(e) = "failing" /\ WorkOf(e)' \in {"failing", "cut"}
    BY <2>1 DEF WorkOf
  <2>3. LeftAtFly(e) = {}
    BY <1>t, <2>1, CleanHoldsNothing DEF FlyInv
  <2>4. LeftAtFly(e)' = LeftAtFly(e)
    BY <1>7 DEF MarkErrorFails, Fails, providers, LeftAtFly
  <2>5. CASE status'[e] = IF status[e] = "gone" THEN "gone" ELSE "ERROR"
    BY <1>2, <2>2, <2>3, <2>4, <2>5 DEF Lifecycle!Step, Lifecycle!Next, Lifecycle!WriteError
  <2>6. CASE status' = status /\ WorkOf(e)' = "failing"
    BY <1>2, <2>2, <2>4, <2>6, SameLifeStutters DEF SameLife
  <2>7. CASE status' = status /\ WorkOf(e)' = "cut"
    BY <1>2, <2>2, <2>4, <2>7 DEF Lifecycle!Step, Lifecycle!Next, Lifecycle!CutOff
  <2>8. status' = status \/ status'[e] = IF status[e] = "gone" THEN "gone" ELSE "ERROR"
    BY <1>7, <1>t DEF MarkErrorFails, RowAfterFailure, RowGone, TypeOK
  <2> QED
    BY <2>2, <2>5, <2>6, <2>7, <2>8
<1>8. CASE ReadOrWriteThrows(e)
  <2>1. step[e] \in {"branch", "template", "finish"} /\ step'[e] = "cut"
    BY <1>8, <1>t, AfterVar
  <2>2. WorkOf(e) = "open" /\ WorkOf(e)' = "cut"
    BY <2>1 DEF WorkOf
  <2>3. status' = status /\ LeftAtFly(e)' = LeftAtFly(e)
    BY <1>8 DEF ReadOrWriteThrows, Fails, onlyStep, providers, LeftAtFly
  <2> QED
    BY <1>2, <2>2, <2>3 DEF Lifecycle!Step, Lifecycle!Next, Lifecycle!CutOff
<1> QED
  BY <1>3, <1>4, <1>5, <1>6, <1>7, <1>8

LEMMA PostLife ==
  ASSUME Inv, TypeOK', NEW e \in Envs, Posts(e) PROVE Lifecycle(e)!Step
<1>t. TypeOK /\ RowInv(e)
  BY DEF Inv
<1>1. UNCHANGED <<Asked(e), raced>>
  BY DEF Posts, Post, PostFails, Asked, DEnv
<1>2. status[e] = "none" /\ status'[e] = "PROVISIONING" /\ WorkOf(e) = "none" /\ WorkOf(e)' \in {"open", "cut"}
  <2>1. status[e] = "none" /\ status'[e] = "PROVISIONING"
    BY <1>t DEF Posts, Post, PostFails, TypeOK
  <2>2. step[e] = "none"
    BY <1>t, <2>1 DEF RowInv
  <2>3. step'[e] \in {"branch", "cut"}
    BY <1>t DEF Posts, Post, PostFails, Go, TypeOK
  <2> QED
    BY <2>1, <2>2, <2>3 DEF WorkOf
<1>3. LeftAtFly(e)' = LeftAtFly(e)
  BY DEF Posts, Post, PostFails, Fails, providers, trouble, LeftAtFly
<1> QED
  BY <1>1, <1>2, <1>3 DEF Lifecycle!Step, Lifecycle!Next, Lifecycle!Request

\* A destruction, seen from the environment it is of and from any other.
LEMMA DestroyLife ==
  ASSUME Inv, TypeOK', NEW r \in Requests, DestroyStep(r), NEW e \in Envs, MarkedInv(e)
  PROVE  Lifecycle(e)!Step
<1>t. TypeOK /\ DestroyInv(r)
  BY DEF Inv
<1>w. WorkOf(e)' = WorkOf(e)
  BY <1>t, DestroyQuiet DEF Quiet, WorkOf
<1>a. ASSUME Destroy(r) PROVE Asked(e)' = Asked(e) /\ (e = DEnv(r) => Asked(e))
  <2>1. \A q \in Requests : destroyer'[q].env = destroyer[q].env
    <3>1. ASSUME NEW s, DGo(r, s) PROVE \A q \in Requests : destroyer'[q].env = destroyer[q].env
      <4>1. PICK d : d = [destroyer[r] EXCEPT !.step = s]
        OBVIOUS
      <4>2. d.env = destroyer[r].env
        BY <1>t, <4>1 DEF TypeOK
      <4>3. destroyer' = [destroyer EXCEPT ![r] = d]
        BY <3>1, <4>1 DEF DGo
      <4> QED
        BY <1>t, <4>2, <4>3 DEF TypeOK
    <3>2. CASE LoadRow(r) /\ ~RowGone(DEnv(r))
      <4>1. PICK c : c = [destroyer[r] EXCEPT !.step = "app"]
        OBVIOUS
      <4>2. PICK d : d = [c EXCEPT !.var = rowVar[DEnv(r)]]
        OBVIOUS
      <4>3. d.env = destroyer[r].env
        BY <1>t, <4>1, <4>2 DEF TypeOK
      <4>4. destroyer' = [destroyer EXCEPT ![r] = d]
        BY <1>t, <3>2, <4>1, <4>2 DEF LoadRow, TypeOK
      <4> QED
        BY <1>t, <4>3, <4>4 DEF TypeOK
    <3> QED
      BY <1>a, <3>1, <3>2 DEF Destroy, MarkDestroying, LoadRow, DestroyApp, DestroyDb, DestroyFly,
         DestroyVar, DeleteRow, DestroyFails
  <2> QED
    BY <2>1 DEF Asked, DEnv
<1>1. ASSUME NEW f \in Envs, Delete(r, f) \/ Expire(r, f) PROVE Lifecycle(e)!Step
  <2>1. Pick(r, f) /\ status[f] \notin {"none", "gone"}
    BY <1>1 DEF Delete, Expire
  <2>2. status' = status /\ raced' = raced /\ LeftAtFly(e)' = LeftAtFly(e)
    BY <2>1 DEF Pick, providers, trouble, LeftAtFly
  <2>3. destroyer'[r].env = f /\ \A q \in Requests : q # r => destroyer'[q] = destroyer[q]
    <3>1. PICK c : c = [destroyer[r] EXCEPT !.step = "mark"]
      OBVIOUS
    <3>2. PICK d : d = [c EXCEPT !.env = f]
      OBVIOUS
    <3>3. d.env = f
      BY <1>t, <3>1, <3>2 DEF TypeOK
    <3>4. destroyer' = [destroyer EXCEPT ![r] = d]
      BY <1>t, <2>1, <3>1, <3>2 DEF Pick, TypeOK
    <3> QED
      BY <1>t, <3>3, <3>4 DEF TypeOK
  <2>4. DEnv(r) = "none"
    BY <1>t, <2>1 DEF Pick, DestroyInv
  <2>5. CASE e = f
    <3>1. Asked(e)'
      BY <2>3, <2>5 DEF Asked, DEnv
    <3> QED
      BY <1>w, <2>1, <2>2, <2>5, <3>1 DEF Lifecycle!Step, Lifecycle!Next, Lifecycle!Ask
  <2>6. CASE e # f
    <3>1. Asked(e)' <=> Asked(e)
      BY <2>3, <2>4, <2>6, EnvAssumption DEF Asked, DEnv, EnvAssumption
    <3> QED
      BY <1>w, <2>2, <3>1, SameLifeStutters DEF SameLife, Asked
  <2> QED
    BY <2>5, <2>6
<1>2. CASE MarkDestroying(r)
  <2>1. raced' = raced /\ LeftAtFly(e)' = LeftAtFly(e) /\ Asked(e)' = Asked(e)
    BY <1>2, <1>a DEF MarkDestroying, DestroyFails, providers, trouble, LeftAtFly, Destroy
  <2>2. CASE status'[e] = status[e]
    BY <1>w, <2>1, <2>2, SameLifeStutters DEF SameLife
  <2>3. CASE status'[e] # status[e]
    <3>1. e = DEnv(r) /\ status'[e] = "DESTROYING" /\ status[e] # "gone"
      BY <1>2, <1>t, <2>3 DEF MarkDestroying, RowGone, TypeOK
    <3>2. status[e] # "none" /\ Asked(e)
      BY <1>2, <1>a, <1>t, <3>1 DEF MarkDestroying, DestroyFails, DestroyInv, Destroy
    <3> QED
      BY <1>w, <2>1, <3>1, <3>2 DEF Lifecycle!Step, Lifecycle!Next, Lifecycle!BeginDestroy
  <2> QED
    BY <2>2, <2>3
<1>3. CASE LoadRow(r)
  <2>1. status' = status /\ LeftAtFly(e)' = LeftAtFly(e) /\ Asked(e)' = Asked(e)
    BY <1>3, <1>a DEF LoadRow, providers, trouble, LeftAtFly, Destroy
  <2>2. CASE e \notin raced /\ e \in raced'
    <3>1. e = DEnv(r) /\ step[e] \notin Ended
      BY <1>3, <2>2 DEF LoadRow
    <3>2. Asked(e) /\ WorkOf(e) \in {"open", "failing"}
      BY <1>3, <1>a, <3>1, NotEndedIsWorking DEF Destroy
    <3> QED
      BY <1>w, <2>1, <2>2, <3>2 DEF Lifecycle!Step, Lifecycle!Next, Lifecycle!Race
  <2>3. CASE e \in raced \/ e \notin raced'
    <3>1. e \in raced <=> e \in raced'
      BY <1>3, <2>3 DEF LoadRow
    <3> QED
      BY <1>w, <2>1, <3>1, SameLifeStutters DEF SameLife
  <2> QED
    BY <2>2, <2>3
<1>4. CASE DestroyApp(r) \/ DestroyDb(r)
  <2>1. status' = status /\ raced' = raced /\ Asked(e)' = Asked(e)
    BY <1>4, <1>a DEF DestroyApp, DestroyDb, DestroyFly, Destroy
  <2>2. DEnv(r) \in Envs
    BY <1>4, <1>t DEF DestroyApp, DestroyDb, DestroyFly, DestroyInv
  <2>3. PICK x \in FlyKinds : DeleteFly(DEnv(r), x)
    BY <1>4, StepNamesFacts DEF DestroyApp, DestroyDb, DestroyFly
  <2>4. CASE e = DEnv(r)
    <3>1. LeftAtFly(e)' = LeftAtFly(e) \ {x} /\ Asked(e)
      BY <1>4, <1>a, <1>t, <2>2, <2>3, <2>4, HeldFell DEF Destroy
    <3> QED
      BY <1>w, <2>1, <3>1 DEF Lifecycle!Step, Lifecycle!Next, Lifecycle!Release
  <2>5. CASE e # DEnv(r)
    <3>1. fly'[e] = fly[e] /\ DoubtsOnlyOf(DEnv(r))
      BY <1>t, <2>2, <2>3, <2>5, DeleteFlyDoubts
    <3>2. \A y \in FlyKinds : <<e, y>> \in doubtful' <=> <<e, y>> \in doubtful
      BY <2>5, <3>1 DEF DoubtsOnlyOf, Resources
    <3>3. LeftAtFly(e)' = LeftAtFly(e)
      BY <1>t, <3>1, <3>2, HeldKept
    <3> QED
      BY <1>w, <2>1, <3>3, SameLifeStutters DEF SameLife
  <2> QED
    BY <2>4, <2>5
<1>5. CASE DestroyVar(r)
  <2>1. status' = status /\ raced' = raced /\ Asked(e)' = Asked(e) /\ fly' = fly
    BY <1>5, <1>a DEF DestroyVar, Destroy
  <2>2. \A x \in FlyKinds : <<e, x>> \in doubtful' <=> <<e, x>> \in doubtful
    BY <1>5, VarLeavesFly DEF DestroyVar
  <2>3. LeftAtFly(e)' = LeftAtFly(e)
    BY <1>t, <2>1, <2>2, HeldKept
  <2> QED
    BY <1>w, <2>1, <2>3, SameLifeStutters DEF SameLife
<1>6. CASE DeleteRow(r)
  <2>1. raced' = raced /\ LeftAtFly(e)' = LeftAtFly(e) /\ Asked(e)' = Asked(e)
    BY <1>6, <1>a DEF DeleteRow, providers, trouble, LeftAtFly, Destroy
  <2>2. CASE e = DEnv(r)
    <3>1. status'[e] = "gone" /\ Asked(e)
      BY <1>6, <1>a, <1>t, <2>2 DEF DeleteRow, TypeOK, Destroy
    <3>2. status[e] \notin {"none", "PROVISIONING"}
      BY <1>6, <2>2 DEF DeleteRow, MarkedInv, Busy
    <3>3. e \notin raced => LeftAtFly(e) = {} /\ WorkOf(e) \notin {"open", "failing"}
      <4>1. ASSUME e \notin raced PROVE step[e] \in Ended /\ Clean(e, "app") /\ Clean(e, "db")
        BY <1>6, <1>t, <2>2, <4>1 DEF DeleteRow, DestroyInv
      <4> QED
        BY <1>t, <4>1, WorkNames, CleanHoldsNothing
    <3> QED
      BY <1>w, <2>1, <3>1, <3>2, <3>3 DEF Lifecycle!Step, Lifecycle!Next, Lifecycle!Delete
  <2>3. CASE e # DEnv(r)
    <3>1. status'[e] = status[e]
      BY <1>6, <1>t, <2>3 DEF DeleteRow, TypeOK
    <3> QED
      BY <1>w, <2>1, <3>1, SameLifeStutters DEF SameLife
  <2> QED
    BY <2>2, <2>3
<1>7. CASE DestroyFails(r)
  <2>1. raced' = raced /\ LeftAtFly(e)' = LeftAtFly(e) /\ Asked(e)' = Asked(e)
    BY <1>7, <1>a DEF DestroyFails, Fails, providers, LeftAtFly, Destroy
  <2>2. CASE status'[e] = status[e]
    BY <1>w, <2>1, <2>2, SameLifeStutters DEF SameLife
  <2>3. CASE status'[e] # status[e]
    <3>1. e = DEnv(r) /\ status'[e] = "DESTROYING" /\ status[e] # "gone"
      BY <1>7, <1>t, <2>3 DEF DestroyFails, RowGone, TypeOK
    <3>2. status[e] # "none" /\ Asked(e)
      BY <1>7, <1>a, <1>t, <3>1 DEF DestroyFails, DestroyInv, Destroy
    <3> QED
      BY <1>w, <2>1, <3>1, <3>2 DEF Lifecycle!Step, Lifecycle!Next, Lifecycle!BeginDestroy
  <2> QED
    BY <2>2, <2>3
<1> QED
  BY <1>1, <1>2, <1>3, <1>4, <1>5, <1>6, <1>7 DEF DestroyStep, Destroy

LEMMA RestartLife ==
  ASSUME Inv, TypeOK', NEW e \in Envs, Restart PROVE Lifecycle(e)!Step
<1>t. TypeOK
  BY DEF Inv
<1>1. status' = status /\ raced' = raced /\ LeftAtFly(e)' = LeftAtFly(e)
  BY DEF Restart, providers, trouble, LeftAtFly
<1>2. Asked(e)' <=> Asked(e)
  <2>1. ASSUME NEW q \in Requests PROVE destroyer'[q].env = destroyer[q].env
    <3>1. PICK d : d = [destroyer[q] EXCEPT !.step = "cut"]
      OBVIOUS
    <3>2. d.env = destroyer[q].env
      BY <1>t, <3>1 DEF TypeOK
    <3>3. destroyer'[q] \in {destroyer[q], d}
      BY <3>1 DEF Restart
    <3> QED
      BY <3>2, <3>3
  <2> QED
    BY <2>1 DEF Asked, DEnv
<1>3. CASE step[e] \in Ended
  <2>1. WorkOf(e)' = WorkOf(e)
    BY <1>3 DEF Restart, WorkOf
  <2> QED
    BY <1>1, <1>2, <2>1, SameLifeStutters DEF SameLife, Asked
<1>4. CASE step[e] \notin Ended
  <2>1. WorkOf(e) \in {"open", "failing"} /\ WorkOf(e)' = "cut"
    <3>1. step'[e] = "cut"
      BY <1>4 DEF Restart
    <3> QED
      BY <1>4, <3>1, NotEndedIsWorking DEF WorkOf
  <2> QED
    BY <1>1, <1>2, <2>1 DEF Lifecycle!Step, Lifecycle!Next, Lifecycle!CutOff, Asked
<1> QED
  BY <1>3, <1>4

LEMMA LifecycleStep ==
  Inv /\ Inv' /\ (\A e \in Envs : MadeInv(e) /\ MarkedInv(e)) /\ [Next]_vars =>
    \A e \in Envs : Lifecycle(e)!Step
<1> SUFFICES ASSUME Inv, TypeOK', [Next]_vars, NEW e \in Envs, MadeInv(e), MarkedInv(e)
             PROVE  Lifecycle(e)!Step
  BY DEF Inv
<1>t. TypeOK
  BY DEF Inv
<1>1. ASSUME NEW f \in Envs, Posts(f) \/ Provision(f) PROVE Lifecycle(e)!Step
  <2>1. CASE f # e
    BY <1>1, <1>t, <2>1, LifeElsewhere, SameLifeStutters
  <2>2. CASE f = e
    BY <1>1, <2>2, PostLife, AskingLife, TakingLife, EndingLife DEF Provision
  <2> QED
    BY <2>1, <2>2
<1>2. ASSUME NEW r \in Requests, DestroyStep(r) PROVE Lifecycle(e)!Step
  BY <1>2, DestroyLife
<1>3. CASE Restart
  BY <1>3, RestartLife
<1>4. CASE UNCHANGED vars
  BY <1>4, SameLifeStutters DEF SameLife, vars, provisioner, providers, trouble, WorkOf, LeftAtFly,
     Asked, DEnv
<1> QED
  BY <1>1, <1>2, <1>3, <1>4 DEF Posts, Next, DestroyStep

LEMMA LifecycleInit ==
  Init => \A e \in Envs : MadeInv(e) /\ MarkedInv(e) /\ Lifecycle(e)!Init
<1> SUFFICES ASSUME Init, NEW e \in Envs PROVE MadeInv(e) /\ MarkedInv(e) /\ Lifecycle(e)!Init
  OBVIOUS
<1>1. MadeInv(e) /\ MarkedInv(e)
  BY DEF Init, MadeInv, MarkedInv, Busy
<1>2. status[e] = "none" /\ WorkOf(e) = "none" /\ e \notin raced
  BY DEF Init, WorkOf
<1>3. ~Asked(e)
  BY EnvAssumption DEF Init, Asked, DEnv, EnvAssumption
<1>4. LeftAtFly(e) = {}
  <2>1. fly[e] \subseteq FlyKinds
    BY EnvAssumption DEF Init, EnvAssumption, FlyKinds
  <2> QED
    BY <2>1 DEF Init, LeftAtFly
<1> QED
  BY <1>1, <1>2, <1>3, <1>4 DEF Lifecycle!Init

\* Every environment goes through an EnvLifecycle, whatever the others, the destructions and
\* the providers do: it acquires only while it is provisioned, gives up only what failed or
\* what somebody asked to destroy, and its row tells how that went.
THEOREM EnvironmentsHaveLifecycles == Spec => ImplementsLifecycle
<1>1. Init => \A e \in Envs : MadeInv(e) /\ MarkedInv(e) /\ Lifecycle(e)!Init
  BY LifecycleInit
<1>2. Inv /\ (\A e \in Envs : MadeInv(e) /\ MarkedInv(e)) /\ [Next]_vars =>
        (\A e \in Envs : MadeInv(e) /\ MarkedInv(e))'
  BY MadeAndMarkedStep
<1>3. Inv /\ Inv' /\ (\A e \in Envs : MadeInv(e) /\ MarkedInv(e)) /\ [Next]_vars =>
        \A e \in Envs : Lifecycle(e)!Step
  BY LifecycleStep
<1> DEFINE J == \A e \in Envs : MadeInv(e) /\ MarkedInv(e)
           I == \A e \in Envs : Lifecycle(e)!Init
           A == \A e \in Envs : Lifecycle(e)!Step
<1>4. Init => J /\ I
  BY <1>1
<1>5. Inv /\ J /\ [Next]_vars => J'
  BY <1>2
<1>6. Inv /\ Inv' /\ J /\ [Next]_vars => A
  BY <1>3
<1> HIDE DEF J, I, A
<1>7. Spec => I /\ [][A]_vars
  BY <1>4, <1>5, <1>6, Always, PTL DEF Spec
<1> QED
  BY <1>7 DEF ImplementsLifecycle, I, A

\* The same, said of one environment: the program implements its EnvLifecycle.
THEOREM EachIsALifecycle == \A e \in Envs : Spec => Lifecycle(e)!Spec
<1> SUFFICES ASSUME NEW e \in Envs PROVE Spec => Lifecycle(e)!Spec
  OBVIOUS
<1> DEFINE J == \A f \in Envs : MadeInv(f) /\ MarkedInv(f)
<1>1. Init => J /\ Lifecycle(e)!Init
  BY LifecycleInit
<1>2. Inv /\ J /\ [Next]_vars => J'
  BY MadeAndMarkedStep
<1>3. Inv /\ Inv' /\ J /\ [Next]_vars => [Lifecycle(e)!Next]_(Lifecycle(e)!vars)
  BY LifecycleStep DEF Lifecycle!Step
<1> HIDE DEF J
<1> QED
  BY <1>1, <1>2, <1>3, Always, PTL DEF Spec, Lifecycle!Spec

=============================================================================
