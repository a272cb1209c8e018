------------------------ MODULE ModelRegistryProofs ------------------------
(***************************************************************************)
(* Proofs about ModelRegistry, for every set of models and strategies and  *)
(* every number of deployments in progress: a strategy has no more         *)
(* champions than there are concurrent deployments, and each is trained.   *)
(***************************************************************************)
EXTENDS ModelRegistry, Functions, FiniteSetTheorems, TLAPS

LEMMA Initially == Init => Inv
BY RegistryAssumption
   DEF Init, Inv, TypeOK, SlotInv, DeployableInv, NoDeploy, Deployment,
       DeployPC, JobPC

\* Training requests and their jobs change neither champions nor deployments.
LEMMA TrainKeepsInv ==
    ASSUME Inv, NEW m \in Models, Train(m) \/ TrainCommits(m) \/ TrainAborts(m)
    PROVE  Inv'
<1> USE RegistryAssumption DEF Inv, bounds
<1>1. SlotInv'
  BY DEF Train, TrainCommits, TrainAborts, SlotInv
<1>2. TypeOK'
  BY DEF Train, TrainCommits, TrainAborts, TypeOK, JobPC
<1>3. DeployableInv'
  BY DEF Train, TrainCommits, TrainAborts, TypeOK, JobPC, DeployableInv
<1> QED BY <1>1, <1>2, <1>3

LEMMA JobKeepsInv ==
    ASSUME Inv, NEW m \in Models, JobStep(m)
    PROVE  Inv'
<1> USE RegistryAssumption DEF Inv, bounds, table
<1>1. CASE JobStarts(m) \/ JobRaises(m) \/ JobSaves(m)
  <2> USE <1>1 DEF JobStarts, JobRaises, JobSaves
  <2>1. SlotInv'        BY DEF SlotInv
  <2>2. TypeOK'
    <3>1. file' \in [Models -> BOOLEAN]
      BY Zenon DEF TypeOK
    <3> QED BY <3>1 DEF TypeOK, JobPC
  <2>3. DeployableInv'  BY DEF TypeOK, JobPC, DeployableInv
  <2> QED BY <2>1, <2>2, <2>3
<1>2. CASE JobCompletes(m)
  <2> USE <1>2 DEF JobCompletes, UpdateFails, Update
  <2>1. SlotInv'        BY DEF SlotInv
  <2>2. TypeOK'
    <3>1. path' \in [Models -> BOOLEAN]
      BY Zenon DEF TypeOK
    <3>2. lost' \in [Models -> BOOLEAN]
      BY Zenon DEF TypeOK
    <3>3. status' \in [Models -> {"training", "completed", "failed"}]
      BY DEF TypeOK
    <3>4. job' \in [Models -> JobPC] /\ failures' \in Nat
      BY DEF TypeOK, JobPC
    <3> QED BY <3>1, <3>2, <3>3, <3>4 DEF TypeOK
  <2>3. DeployableInv'  BY DEF TypeOK, JobPC, DeployableInv
  <2> QED BY <2>1, <2>2, <2>3
<1>3. CASE JobFails(m)
  <2> USE <1>3 DEF JobFails, UpdateFails, Update
  <2>1. SlotInv'        BY DEF SlotInv
  <2>2. TypeOK'
    <3>1. path' \in [Models -> BOOLEAN]
      BY Zenon DEF TypeOK
    <3>2. lost' \in [Models -> BOOLEAN]
      BY Zenon DEF TypeOK
    <3>3. status' \in [Models -> {"training", "completed", "failed"}]
      BY DEF TypeOK
    <3>4. job' \in [Models -> JobPC] /\ failures' \in Nat
      BY DEF TypeOK, JobPC
    <3> QED BY <3>1, <3>2, <3>3, <3>4 DEF TypeOK
  <2>3. DeployableInv'  BY DEF TypeOK, JobPC, DeployableInv
  <2> QED BY <2>1, <2>2, <2>3
<1> QED BY <1>1, <1>2, <1>3 DEF JobStep

LEMMA DeployReadsKeepInv ==
    ASSUME Inv, NEW d \in Deploys,
           \/ \E m \in Models : DeployFinds(d, m)
           \/ DeployLists(d) \/ DeployFlushes(d) \/ DeployAborts(d)
    PROVE  Inv'
<1> USE RegistryAssumption DEF Inv, bounds, table
<1>1. ASSUME NEW m \in Models, DeployFinds(d, m) PROVE Inv'
  <2> USE <1>1 DEF DeployFinds, DeployLoads
  <2>1. TypeOK'         BY DEF TypeOK, Deployment, DeployPC
  <2>2. SlotInv'        BY DEF SlotInv, TypeOK, Deployment
  <2>3. DeployableInv'  BY DEF TypeOK, DeployableInv, Deployment
  <2> QED BY <2>1, <2>2, <2>3
<1>2. CASE DeployLists(d)
  <2> USE <1>2 DEF DeployLists
  <2>1. TypeOK'
    <3> DEFINE seen == Champions(StrategyOf[dep[d].model])
    <3>1. seen \in SUBSET Models
      BY DEF Champions
    <3>2. dep' = [dep EXCEPT ![d].pc = "listed", ![d].seen = seen]
      OBVIOUS
    <3> HIDE DEF seen
    <3>3. dep' \in [Deploys -> Deployment]
      BY <3>1, <3>2 DEF TypeOK, Deployment, DeployPC
    <3> QED BY <3>3 DEF TypeOK
  <2>2. SlotInv'        BY DEF SlotInv, TypeOK, Deployment, Champions
  <2>3. DeployableInv'  BY DEF TypeOK, DeployableInv, Deployment
  <2> QED BY <2>1, <2>2, <2>3
<1>3. CASE DeployFlushes(d)
  <2> USE <1>3 DEF DeployFlushes
  <2>1. TypeOK'         BY DEF TypeOK, Deployment, DeployPC
  <2>2. SlotInv'        BY DEF SlotInv, TypeOK, Deployment
  <2>3. DeployableInv'  BY DEF TypeOK, DeployableInv, Deployment
  <2> QED BY <2>1, <2>2, <2>3
<1>4. CASE DeployAborts(d)
  <2> USE <1>4 DEF DeployAborts, NoDeploy
  <2>1. TypeOK'         BY DEF TypeOK, Deployment, DeployPC
  <2>2. SlotInv'        BY DEF SlotInv, TypeOK, Deployment
  <2>3. DeployableInv'  BY DEF TypeOK, DeployableInv, Deployment
  <2> QED BY <2>1, <2>2, <2>3
<1> QED BY <1>1, <1>2, <1>3, <1>4

\* The commit of d unmakes every champion that d made for the strategy before.
LEMMA CommitKeepsInv ==
    ASSUME Inv, NEW d \in Deploys, DeployCommits(d)
    PROVE  Inv'
<1> USE RegistryAssumption DEF Inv, DeployCommits
<1>1. TypeOK'
  BY DEF TypeOK, Deployment, DeployPC, bounds
<1>2. DeployableInv'
  BY DEF DeployableInv, On, TypeOK, Deployment
<1>3. SlotInv'
  <2> DEFINE model == dep[d].model
  <2>0. /\ model \in Models /\ dep[d].pc = "flushed"
        /\ On(d) \subseteq {model} /\ Off(d) = dep[d].seen \ {model}
    BY DEF DeployableInv, On, Off
  <2>1. \A m \in Models : champ'[m] => by'[m] \in Deploys
    BY DEF SlotInv
  <2>2. ASSUME NEW m \in Models, m \in On(d), NEW n \in Models, champ'[n],
               StrategyOf[m] = StrategyOf[n], by'[n] = d
        PROVE  m = n
    <3>1. CASE n \in On(d)
      BY <2>0, <2>2, <3>1
    <3>2. CASE n \notin On(d)
      <4>1. champ[n] /\ by[n] = d /\ n \notin Off(d)
        BY <2>2, <3>2
      <4>2. m = model
        BY <2>0, <2>2
      <4>3. n \in dep[d].seen
        BY <2>0, <2>2, <4>1, <4>2 DEF SlotInv
      <4> QED BY <2>0, <4>1, <4>2, <4>3
    <3> QED BY <3>1, <3>2
  <2>3. ASSUME NEW m \in Models, NEW n \in Models, champ'[m], champ'[n],
               StrategyOf[m] = StrategyOf[n], by'[m] = by'[n]
        PROVE  m = n
    <3>1. CASE m \in On(d)
      <4>1. by'[n] = d  BY <2>3, <3>1
      <4> QED BY <2>2, <2>3, <3>1, <4>1
    <3>2. CASE n \in On(d)
      <4>1. by'[m] = d  BY <2>3, <3>2
      <4> QED BY <2>2, <2>3, <3>2, <4>1
    <3>3. CASE m \notin On(d) /\ n \notin On(d)
      <4>1. champ[m] /\ champ[n] /\ by[m] = by[n]
        BY <2>3, <3>3
      <4> QED BY <2>3, <4>1 DEF SlotInv
    <3> QED BY <3>1, <3>2, <3>3
  <2>4. ASSUME NEW e \in Deploys, dep'[e].pc \in {"listed", "flushed"},
               NEW m \in Models, champ'[m], by'[m] = e,
               StrategyOf[m] = StrategyOf[dep'[e].model]
        PROVE  m \in dep'[e].seen
    <3>1. e # d /\ dep'[e] = dep[e]
      BY <2>4 DEF TypeOK
    <3>2. m \notin On(d)
      BY <2>4, <3>1
    <3>3. champ[m] /\ by[m] = e
      BY <2>4, <3>2
    <3> QED BY <2>4, <3>1, <3>3 DEF SlotInv
  <2> HIDE DEF model
  <2> QED BY <2>1, <2>3, <2>4 DEF SlotInv
<1> QED BY <1>1, <1>2, <1>3

LEMMA CrashKeepsInv ==
    ASSUME Inv, Crash
    PROVE  Inv'
<1> USE RegistryAssumption DEF Inv, Crash, NoDeploy
<1>1. TypeOK'         BY DEF TypeOK, Deployment, DeployPC, JobPC
<1>2. SlotInv'        BY DEF SlotInv
<1>3. DeployableInv'  BY DEF TypeOK, JobPC, DeployableInv
<1> QED BY <1>1, <1>2, <1>3

\* The inductive invariant of the registry.
THEOREM Invariance == Spec => []Inv
<1>1. ASSUME Inv, [Next]_vars PROVE Inv'
  <2>1. CASE \E m \in Models : Train(m) \/ TrainCommits(m) \/ TrainAborts(m)
    BY <1>1, <2>1, TrainKeepsInv
  <2>2. CASE \E m \in Models : JobStep(m)
    BY <1>1, <2>2, JobKeepsInv
  <2>3. ASSUME NEW d \in Deploys,
               \/ \E m \in Models : DeployFinds(d, m)
               \/ DeployLists(d) \/ DeployFlushes(d) \/ DeployAborts(d)
        PROVE  Inv'
    BY <1>1, <2>3, DeployReadsKeepInv
  <2>4. CASE \E d \in Deploys : DeployCommits(d)
    BY <1>1, <2>4, CommitKeepsInv
  <2>5. CASE Crash
    BY <1>1, <2>5, CrashKeepsInv
  <2>6. CASE UNCHANGED vars
    BY <1>1, <2>6 DEF vars, table, bounds, Inv, TypeOK, SlotInv, DeployableInv
  <2> QED BY <1>1, <2>1, <2>2, <2>3, <2>4, <2>5, <2>6 DEF Next
<1> QED BY Initially, <1>1, PTL DEF Spec

\* A strategy has at most as many champions as deployments can be in progress:
\* by maps its champions one-to-one to the requests that made them.
THEOREM ChampionsBoundedAlways == Spec => []ChampionsBounded
<1>1. ASSUME Inv PROVE ChampionsBounded
  <2> SUFFICES ASSUME NEW s \in Strategies
               PROVE  Cardinality(Champions(s)) <= Cardinality(Deploys)
    BY DEF ChampionsBounded
  <2> DEFINE f == [m \in Champions(s) |-> by[m]]
  <2>1. \A m \in Champions(s) : m \in Models /\ champ[m] /\ StrategyOf[m] = s
    BY DEF Champions
  <2>2. f \in Injection(Champions(s), Deploys)
    BY <1>1, <2>1 DEF Inv, SlotInv, Injection, IsInjective
  <2>3. IsFiniteSet(Deploys)
    BY RegistryAssumption
  <2> HIDE DEF f
  <2> QED BY <2>2, <2>3, FS_Injection DEF ExistsInjection
<1> QED BY Invariance, <1>1, PTL

\* A champion's record is committed, its artifact exists, and the record says
\* "completed" unless an update of its job was lost.
THEOREM ChampionIsTrainedAlways == Spec => []ChampionIsTrained
<1>1. Inv => ChampionIsTrained
  BY DEF Inv, DeployableInv, ChampionIsTrained
<1> QED BY Invariance, <1>1, PTL
-----------------------------------------------------------------------------
\* What is left of training

LEMMA ToldNext == Inv /\ Told /\ [Next]_vars => Told'
<1> SUFFICES ASSUME Inv, Told, [Next]_vars PROVE Told'
  OBVIOUS
<1> USE DEF Inv, TypeOK, JobPC, table, bounds
<1>0. taskFirst' = taskFirst
  BY DEF Next, vars, Train, TrainCommits, TrainAborts, JobStep, JobStarts,
         JobRaises, JobSaves, JobCompletes, JobFails, UpdateFails, Update,
         DeployFinds, DeployLoads, DeployLists, DeployFlushes, DeployCommits,
         DeployAborts, Crash
<1> SUFFICES ASSUME ~taskFirst, NEW m \in Models
             PROVE  /\ row'[m] = "none" => job'[m] \in {"none", "ended"}
                    /\ row'[m] = "inserted" => job'[m] = "waiting"
                    /\ row'[m] = "there" /\ job'[m] = "ended" =>
                          status'[m] # "training" \/ lost'[m] \/ crashes' > 0
  BY <1>0 DEF Told
<1> DEFINE Says ==
      /\ row[m] = "none" => job[m] \in {"none", "ended"}
      /\ row[m] = "inserted" => job[m] = "waiting"
      /\ row[m] = "there" /\ job[m] = "ended" =>
            status[m] # "training" \/ lost[m] \/ crashes > 0
<1> SUFFICES Says'
  OBVIOUS
<1>1. Says
  BY DEF Told
<1>2. ASSUME NEW n \in Models, Train(n) \/ TrainCommits(n) \/ TrainAborts(n)
      PROVE  Says'
  BY <1>1, <1>2 DEF Train, TrainCommits, TrainAborts
<1>3. ASSUME NEW n \in Models, JobStarts(n) \/ JobRaises(n) \/ JobSaves(n)
      PROVE  Says'
  BY <1>1, <1>3 DEF JobStarts, JobRaises, JobSaves
\* An update of the job says how it ended, or raises.
<1>4. ASSUME NEW n \in Models, JobCompletes(n) \/ JobFails(n)
      PROVE  Says'
  <2>1. /\ row' = row /\ crashes' = crashes /\ (m # n => job'[m] = job[m])
        /\ job[n] \in {"saved", "failing"} /\ job'[n] \in {"ended", "failing"}
        /\ m # n => status'[m] = status[m] /\ (lost[m] => lost'[m])
    BY <1>4 DEF JobCompletes, JobFails, UpdateFails, Update
  <2>2. CASE m # n
    BY <1>1, <2>1, <2>2
  <2>3. CASE m = n
    <3>1. row[n] = "there"
      BY <1>1, <2>1, <2>3
    <3>2. status'[n] # "training" \/ lost'[n]
      BY <1>4, <3>1 DEF JobCompletes, JobFails, UpdateFails, Update
    <3> QED BY <2>1, <2>3, <3>1, <3>2
  <2> QED BY <2>2, <2>3
<1>5. ASSUME UNCHANGED <<row, job, status, lost, crashes>>
      PROVE  Says'
  BY <1>1, <1>5
<1>6. ASSUME NEW d \in Deploys,
             \/ \E n \in Models : DeployFinds(d, n)
             \/ DeployLists(d) \/ DeployFlushes(d) \/ DeployCommits(d)
             \/ DeployAborts(d)
      PROVE  UNCHANGED <<row, job, status, lost, crashes>>
  BY <1>6 DEF DeployFinds, DeployLoads, DeployLists, DeployFlushes,
              DeployCommits, DeployAborts
<1>7. CASE Crash
  BY <1>1, <1>7 DEF Crash
<1>8. CASE UNCHANGED vars
  BY <1>5, <1>8 DEF vars
<1> QED BY <1>2, <1>3, <1>4, <1>5, <1>6, <1>7, <1>8 DEF Next, JobStep

\* A job that ran after the commit of its record, and has ended, has told so in
\* it, but for a crash and an update that raised.
THEOREM ToldAlways == Spec => []Told
<1>1. Init => Told
  BY DEF Init, Told
<1> QED BY <1>1, ToldNext, Invariance, PTL DEF Spec
=============================================================================
