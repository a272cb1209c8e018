--------------------------- MODULE ModelRegistry ---------------------------
(***************************************************************************)
(* The model registry of backend/app/api/models_api.py: training requests, *)
(* their background jobs, and deployments, as the transactions they make   *)
(* on the table model_registry.                                            *)
(*                                                                         *)
(* A request has one session, committed by get_db (database.py) when the   *)
(* handler has returned; the database reads what is committed, statement   *)
(* by statement, and a row that a transaction has updated is locked until  *)
(* it ends.  A job commits each of its updates by itself.                  *)
(***************************************************************************)
EXTENDS Integers, FiniteSets

CONSTANTS
    Models,             \* model ids, fresh for every training request
    Strategies,         \* strategy ids
    StrategyOf,         \* the strategy_id that a model was requested for
    Deploys,            \* requests of deploy_model that can be open at a time
    NoModel, Nobody,    \* neither a model nor a deployment
    TaskFirst,          \* subset of BOOLEAN: does the framework run the
                        \* background task before the request's commit?
    MaxDeploys,         \* bound: deployments
    MaxFailures,        \* bound: failures of the database under a job
    MaxCrashes          \* bound: crashes of the API process

ASSUME RegistryAssumption ==
    /\ StrategyOf \in [Models -> Strategies]
    /\ IsFiniteSet(Deploys)
    /\ NoModel \notin Models /\ Nobody \notin Deploys
    /\ TaskFirst \subseteq BOOLEAN /\ TaskFirst # {}
    /\ MaxDeploys \in Nat /\ MaxFailures \in Nat /\ MaxCrashes \in Nat

VARIABLES
    \* the table, and the directory of artifacts
    row,                \* [Models -> {"none", "inserted", "there"}]
    status,             \* metrics["status"]
    path, champ,        \* artifact_path # "", is_champion
    file,               \* the artifact file is there
    \* requests and jobs
    job,                \* [Models -> JobPC]
    dep,                \* [Deploys -> Deployment]
    taskFirst,          \* what this installation's framework does
    \* history
    by,                 \* the request that made the model champion last
    lost,               \* [Models -> BOOLEAN], an update of its job raised
    \* bounds
    deploys, failures, crashes

table  == <<row, status, path, champ, file>>
bounds == <<deploys, failures, crashes>>
vars == <<table, job, dep, taskFirst, by, lost, bounds>>

JobPC    == {"none", "waiting", "running", "saved", "failing", "ended"}
DeployPC == {"idle", "found", "listed", "flushed", "done"}
\* model; its is_champion and the other champions as the session read them
Deployment == [pc : DeployPC, model : Models \cup {NoModel},
               loaded : BOOLEAN, seen : SUBSET Models]
NoDeploy == [pc |-> "idle", model |-> NoModel, loaded |-> FALSE, seen |-> {}]

TypeOK ==
    /\ row \in [Models -> {"none", "inserted", "there"}]
    /\ status \in [Models -> {"training", "completed", "failed"}]
    /\ path \in [Models -> BOOLEAN] /\ champ \in [Models -> BOOLEAN]
    /\ file \in [Models -> BOOLEAN]
    /\ job \in [Models -> JobPC] /\ dep \in [Deploys -> Deployment]
    /\ taskFirst \in BOOLEAN
    /\ by \in [Models -> Deploys \cup {Nobody}]
    /\ lost \in [Models -> BOOLEAN]
    /\ deploys \in Nat /\ failures \in Nat /\ crashes \in Nat

Init ==
    /\ row = [m \in Models |-> "none"]
    /\ status = [m \in Models |-> "training"]
    /\ path = [m \in Models |-> FALSE] /\ champ = [m \in Models |-> FALSE]
    /\ file = [m \in Models |-> FALSE]
    /\ job = [m \in Models |-> "none"] /\ dep = [d \in Deploys |-> NoDeploy]
    /\ taskFirst \in TaskFirst
    /\ by = [m \in Models |-> Nobody] /\ lost = [m \in Models |-> FALSE]
    /\ deploys = 0 /\ failures = 0 /\ crashes = 0

-----------------------------------------------------------------------------
\* What the transaction of d writes when it is flushed: the ORM leaves out an
\* attribute that ends with the value it was loaded with.
Off(d) == dep[d].seen \ {dep[d].model}
On(d)  == IF dep[d].loaded THEN {} ELSE {dep[d].model}

\* No transaction but that of d has locked one of the rows ms.
Unlocked(ms, d) == \A e \in Deploys \ {d} :
    dep[e].pc = "flushed" => ms \cap (Off(e) \cup On(e)) = {}

-----------------------------------------------------------------------------
\* train_model, and its commit

Train(m) ==
    /\ row[m] = "none" /\ job[m] = "none"
    /\ row' = [row EXCEPT ![m] = "inserted"]
    /\ job' = [job EXCEPT ![m] = "waiting"]
    /\ UNCHANGED <<status, path, champ, file, dep, taskFirst, by, lost, bounds>>

TrainCommits(m) ==
    /\ row[m] = "inserted"
    /\ job[m] = IF taskFirst THEN "ended" ELSE "waiting"
    /\ row' = [row EXCEPT ![m] = "there"]
    /\ UNCHANGED <<status, path, champ, file, job, dep, taskFirst, by, lost,
                   bounds>>

\* The commit fails; a task that was to follow it is never run.
TrainAborts(m) ==
    /\ row[m] = "inserted"
    /\ job[m] = IF taskFirst THEN "ended" ELSE "waiting"
    /\ row' = [row EXCEPT ![m] = "none"]
    /\ job' = [job EXCEPT ![m] = "ended"]
    /\ UNCHANGED <<status, path, champ, file, dep, taskFirst, by, lost, bounds>>

-----------------------------------------------------------------------------
\* _run_training_bg

JobStarts(m) ==
    /\ job[m] = "waiting" /\ (taskFirst \/ row[m] = "there")
    /\ job' = [job EXCEPT ![m] = "running"]
    /\ UNCHANGED <<table, dep, taskFirst, by, lost, bounds>>

\* No bars, too few samples, an error of a library, or of an update of the
\* progress (which writes "training" over "training").
JobRaises(m) ==
    /\ job[m] = "running"
    /\ job' = [job EXCEPT ![m] = "failing"]
    /\ UNCHANGED <<table, dep, taskFirst, by, lost, bounds>>

JobSaves(m) ==
    /\ job[m] = "running"
    /\ file' = [file EXCEPT ![m] = TRUE]
    /\ job' = [job EXCEPT ![m] = "saved"]
    /\ UNCHANGED <<row, status, path, champ, dep, taskFirst, by, lost, bounds>>

\* _update_metrics: nothing when the row is not there (yet).
Update(m, s) ==
    /\ Unlocked({m}, Nobody)
    /\ status' = [status EXCEPT ![m] = IF row[m] = "there" THEN s ELSE @]
    /\ path' = [path EXCEPT ![m] =
                   @ \/ (row[m] = "there" /\ s = "completed")]
    /\ UNCHANGED <<row, champ, file, dep, taskFirst, by, deploys, crashes>>

\* The update raises, although the database may have committed it.
UpdateFails(m, s) ==
    /\ failures < MaxFailures /\ failures' = failures + 1
    /\ Update(m, s) \/ UNCHANGED <<table, dep, taskFirst, by, deploys, crashes>>
    /\ lost' = [lost EXCEPT ![m] = TRUE]

JobCompletes(m) ==
    /\ job[m] = "saved"
    /\ \/ Update(m, "completed") /\ job' = [job EXCEPT ![m] = "ended"]
          /\ UNCHANGED <<lost, failures>>
       \/ UpdateFails(m, "completed") /\ job' = [job EXCEPT ![m] = "failing"]

\* Mutant of JobFails: the handler only logs.
JobFailsSilently(m) ==
    /\ job[m] = "failing"
    /\ job' = [job EXCEPT ![m] = "ended"]
    /\ UNCHANGED <<table, dep, taskFirst, by, lost, bounds>>

\* The handler of every exception; one of its own ends the job.
JobFails(m) ==
    /\ job[m] = "failing"
    /\ \/ Update(m, "failed") /\ UNCHANGED <<lost, failures>>
       \/ UpdateFails(m, "failed")
    /\ job' = [job EXCEPT ![m] = "ended"]

JobStep(m) == JobStarts(m) \/ JobRaises(m) \/ JobSaves(m) \/ JobCompletes(m)
              \/ JobFails(m)

-----------------------------------------------------------------------------
\* deploy_model

\* The session loads the model.
DeployLoads(d, m) ==
    /\ dep[d].pc \in {"idle", "done"} /\ deploys < MaxDeploys
    /\ row[m] = "there"
    /\ dep' = [dep EXCEPT ![d] = [pc |-> "found", model |-> m,
                                  loaded |-> champ[m], seen |-> {}]]
    /\ deploys' = deploys + 1
    /\ UNCHANGED <<table, job, taskFirst, by, lost, failures, crashes>>

\* It must be trained.  (Else 400, or 404 when there is none: no change.)
DeployFinds(d, m) == path[m] /\ DeployLoads(d, m)

Champions(s) == {m \in Models : champ[m] /\ StrategyOf[m] = s}

\* Mutant of DeployLists: the present champions are left alone.
DeployListsNone(d) ==
    /\ dep[d].pc = "found"
    /\ dep' = [dep EXCEPT ![d].pc = "listed"]
    /\ UNCHANGED <<table, job, taskFirst, by, lost, bounds>>

\* The champions of the strategy; those known to the session already keep the
\* attributes that were loaded first.
DeployLists(d) ==
    /\ dep[d].pc = "found"
    /\ dep' = [dep EXCEPT ![d].pc = "listed",
                          ![d].seen = Champions(StrategyOf[dep[d].model])]
    /\ UNCHANGED <<table, job, taskFirst, by, lost, bounds>>

DeployFlushes(d) ==
    /\ dep[d].pc = "listed" /\ Unlocked(Off(d) \cup On(d), d)
    /\ dep' = [dep EXCEPT ![d].pc = "flushed"]
    /\ UNCHANGED <<table, job, taskFirst, by, lost, bounds>>

DeployCommits(d) ==
    /\ dep[d].pc = "flushed"
    /\ champ' = [m \in Models |-> (champ[m] /\ m \notin Off(d)) \/ m \in On(d)]
    /\ by' = [m \in Models |-> IF m \in On(d) THEN d ELSE by[m]]
    /\ dep' = [dep EXCEPT ![d].pc = "done"]
    /\ UNCHANGED <<row, status, path, file, job, taskFirst, lost, bounds>>

\* Whatever raises, and the loss of the connection: the transaction is undone.
DeployAborts(d) ==
    /\ dep[d].pc \in {"found", "listed", "flushed"}
    /\ dep' = [dep EXCEPT ![d] = NoDeploy]
    /\ UNCHANGED <<table, job, taskFirst, by, lost, bounds>>

-----------------------------------------------------------------------------
\* The process dies, and with it open transactions and jobs; nobody takes
\* them up again.
Crash ==
    /\ crashes < MaxCrashes /\ crashes' = crashes + 1
    /\ row' = [m \in Models |-> IF row[m] = "there" THEN "there" ELSE "none"]
    /\ job' = [m \in Models |-> IF job[m] = "none" THEN "none" ELSE "ended"]
    /\ dep' = [d \in Deploys |-> NoDeploy]
    /\ UNCHANGED <<status, path, champ, file, taskFirst, by, lost, deploys,
                   failures>>

Next ==
    \/ \E m \in Models : Train(m) \/ TrainCommits(m) \/ TrainAborts(m)
                         \/ JobStep(m)
    \/ \E d \in Deploys : \/ \E m \in Models : DeployFinds(d, m)
                          \/ DeployLists(d) \/ DeployFlushes(d)
                          \/ DeployCommits(d) \/ DeployAborts(d)
    \/ Crash

Spec == Init /\ [][Next]_vars

\* Jobs go on: their libraries and queries end.
Fairness == \A m \in Models : WF_vars(JobStep(m))

FairSpec == Spec /\ Fairness

-----------------------------------------------------------------------------
\* Properties

\* A strategy has at most as many champions as deployments can be in progress
\* at a time: one when they come one after the other.
ChampionsBounded ==
    \A s \in Strategies : Cardinality(Champions(s)) <= Cardinality(Deploys)

\* Why: each champion of a strategy was made by another request slot, since a
\* request sees, and unmakes, what earlier ones of its slot have made.
SlotInv ==
    /\ \A m \in Models : champ[m] => by[m] \in Deploys
    /\ \A m, n \in Models :
          champ[m] /\ champ[n] /\ StrategyOf[m] = StrategyOf[n]
              /\ by[m] = by[n] => m = n
    /\ \A d \in Deploys : dep[d].pc \in {"listed", "flushed"} =>
          \A m \in Models :
             champ[m] /\ by[m] = d /\ StrategyOf[m] = StrategyOf[dep[d].model]
                 => m \in dep[d].seen

\* What may be deployed is trained: its record names a file that is there, and
\* says "completed" unless an update of its job has raised.
DeployableInv ==
    /\ \A m \in Models :
          /\ job[m] = "saved" => file[m]
          /\ path[m] => /\ row[m] = "there" /\ file[m]
                        /\ status[m] = "completed" \/ lost[m]
                        /\ job[m] \in {"failing", "ended"}
                        /\ job[m] = "failing" => lost[m]
          /\ champ[m] => path[m]
    /\ \A d \in Deploys : dep[d].pc # "idle" =>
          dep[d].model \in Models /\ path[dep[d].model]

Inv == TypeOK /\ SlotInv /\ DeployableInv

\* A champion is a trained model.
ChampionIsTrained ==
    \A m \in Models : champ[m] =>
        row[m] = "there" /\ file[m] /\ (status[m] = "completed" \/ lost[m])

\* A job that has begun ends with a record that says so, but for a crash, a
\* failure of the database, and a record that is not committed yet.
TrainingEnds ==
    \A m \in Models :
        job[m] = "running" /\ ~taskFirst
          ~> status[m] # "training" \/ lost[m] \/ crashes > 0

\* Why: no job ends without a word, when it runs after the commit of its record.
Told ==
    ~taskFirst => \A m \in Models :
        /\ row[m] = "none" => job[m] \in {"none", "ended"}
        /\ row[m] = "inserted" => job[m] = "waiting"
        /\ row[m] = "there" /\ job[m] = "ended" =>
              status[m] # "training" \/ lost[m] \/ crashes > 0

\* A deployment that succeeds leaves its model champion ("Model ... deployed
\* as champion").
DeployedIsChampion ==
    [][\A d \in Deploys : dep[d].pc = "flushed" /\ dep'[d].pc = "done"
                              => champ'[dep[d].model]]_vars
=============================================================================
