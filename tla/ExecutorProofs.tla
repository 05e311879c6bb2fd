---------------------------- MODULE ExecutorProofs ----------------------------
(***************************************************************************)
(* Proofs about ExecutorLayers, for every set of processes and writers and *)
(* every bound: type correctness of both layers, and what the service      *)
(* promises of launches, output directories, evaluations and responses.    *)
(***************************************************************************)
EXTENDS ExecutorLayers, GaapStateProofs, FiniteSetTheorems

\* The steps between the launch and the retention of what was answered.
Runs(p) == process[p].pc \in {"spawn", "running", "retain", "append"}
Answering(p) == process[p].pc \in {"running", "retain", "append"}
Reviews(p) == process[p].pc \in {"inspect", "verify", "admit"}

\* Service!TypeOK, in parts.
Root == [revision : Nat, attempt : {"pending", "running", "finished"}]
Observation == [status : {"ok", "timeout", "cancelled"}, envelope : Service!Envelope,
                directory : Nat]

ServiceTyped ==
    /\ faults \subseteq Service!Faults /\ subject \in Nat /\ leased \in BOOLEAN
    /\ root \in Root
    /\ launch \in Nat
    /\ observations \in Seq(Observation)
    /\ accepted \subseteq DOMAIN observations
    /\ evaluations \in Seq(BOOLEAN) /\ overtaken \in BOOLEAN
    /\ directories \subseteq Nat /\ made \in Nat
    /\ spawned \in Seq(Nat)
    /\ process \in [Processes -> Service!Memory]

RevisionCounts ==
    root.revision = Cardinality({launch} \ {0}) + Len(observations) + Cardinality(accepted)
                    + Len(evaluations)

\* One process at most runs what was launched, and until it retains an observation
\* there is none.
LaunchInv ==
    /\ root.attempt = "pending" <=> launch = 0
    /\ accepted # {} <=> root.attempt = "finished"
    /\ launch = 0 =>
          /\ spawned = <<>> /\ observations = <<>>
          /\ \A p \in Processes : ~Runs(p)
    /\ Len(spawned) <= 1 /\ \A i \in DOMAIN spawned : spawned[i] = launch
    /\ Len(observations) <= 1
    /\ \A i \in DOMAIN observations : observations[i].directory = launch
    /\ \A p, q \in Processes : Runs(p) /\ Runs(q) => p = q
    /\ \A p \in Processes :
          /\ Runs(p) => process[p].directory = launch /\ observations = <<>>
          /\ process[p].pc = "spawn" => spawned = <<>>
          /\ Reviews(p) => process[p].observation \in DOMAIN observations

\* Runs about to launch have directories of their own.
DirectoryInv ==
    /\ launch <= made /\ 0 \notin directories
    /\ launch # 0 => launch \in directories
    /\ \A p \in Processes :
          process[p].pc = "launch" =>
              /\ process[p].directory \in 1 .. made
              /\ process[p].directory \in directories
              /\ process[p].directory # launch
    /\ \A p, q \in Processes :
          /\ process[p].pc = "launch" /\ process[q].pc = "launch"
          /\ process[p].directory = process[q].directory
          => p = q
    /\ faults = {} =>
          \A d \in directories :
              \/ d = launch
              \/ \E p \in Processes : process[p].pc = "launch" /\ process[p].directory = d

\* An evaluation that is not fenced knows of an admission if there is one.
EvaluationInv ==
    /\ \A i \in DOMAIN evaluations : evaluations[i] => accepted # {}
    /\ EvaluationsNeverRegress
    /\ \A p \in Processes :
          process[p].pc = "evaluating" =>
              /\ process[p].revision <= root.revision
              /\ process[p].revision = root.revision => process[p].admitted = (accepted # {})

\* What is retained is a response. A run that reads the root for its retention is
\* fenced only by an evaluation stored before it writes.
RetentionInv ==
    /\ \A p \in Processes :
          process[p].pc \in {"retain", "append"} => process[p].response.status # "none"
    /\ \A p \in Processes :
          process[p].pc = "append" /\ ~overtaken => process[p].revision = root.revision
    /\ faults = {} /\ ~overtaken /\ spawned # <<>> =>
          observations # <<>> \/ \E p \in Processes : Answering(p)

ServiceInv ==
    /\ ServiceTyped
    /\ RevisionCounts
    /\ LaunchInv
    /\ DirectoryInv
    /\ EvaluationInv
    /\ RetentionInv

LEMMA TypeOKIsTyped == ServiceTyped /\ RevisionCounts => Service!TypeOK
<1>. SUFFICES ASSUME ServiceTyped, RevisionCounts PROVE Service!TypeOK
  OBVIOUS
<1>1. /\ faults \subseteq Service!Faults
      /\ subject \in Nat
      /\ leased \in BOOLEAN
      /\ root \in Root
      /\ launch \in Nat
      /\ observations \in Seq(Observation)
      /\ accepted \subseteq DOMAIN observations
      /\ evaluations \in Seq(BOOLEAN) /\ overtaken \in BOOLEAN
      /\ directories \subseteq Nat
      /\ made \in Nat
      /\ spawned \in Seq(Nat)
      /\ process \in [Processes -> Service!Memory]
      /\ root.revision = Cardinality({launch} \ {Service!NoDirectory}) + Len(observations)
                         + Cardinality(accepted) + Len(evaluations)
  BY DEF ServiceTyped, RevisionCounts, Service!NoDirectory
<1>. QED  BY <1>1 DEF Service!TypeOK, Root, Observation, Cardinality, Service!Cardinality

LEMMA IdleProcess == Service!Idle \in Service!Memory /\ Service!Idle.pc = "idle"
BY DEF Service!Idle, Service!Memory, Service!NoResponse, Service!NoEnvelope, Service!Response,
       Service!Envelope, Service!NoDirectory

LEMMA ServiceInit == Service!Init => ServiceInv
<1>. SUFFICES ASSUME Service!Init PROVE ServiceInv
  OBVIOUS
<1>1. /\ faults \subseteq Service!Faults /\ subject = 0 /\ leased = TRUE
      /\ root = [revision |-> 0, attempt |-> "pending"]
      /\ launch = 0 /\ observations = <<>> /\ accepted = {} /\ evaluations = <<>>
      /\ overtaken = FALSE /\ directories = {} /\ made = 0 /\ spawned = <<>>
      /\ process = [p \in Processes |-> Service!Idle]
  BY DEF Service!Init, Service!NoDirectory
<1>2. /\ process \in [Processes -> Service!Memory]
      /\ \A p \in Processes : process[p].pc = "idle"
  BY <1>1, IdleProcess
<1>3. RevisionCounts
  <2>1. {launch} \ {0} = {}
    BY <1>1
  <2>2. Cardinality({launch} \ {0}) = 0 /\ Cardinality(accepted) = 0
    BY <1>1, <2>1, FS_EmptySet
  <2>. QED  BY <1>1, <2>2 DEF RevisionCounts
<1>4. ServiceTyped
  <2>1. root \in Root
    BY <1>1 DEF Root
  <2>2. observations \in Seq(Observation) /\ accepted \subseteq DOMAIN observations
    BY <1>1
  <2>3. evaluations \in Seq(BOOLEAN) /\ spawned \in Seq(Nat)
    BY <1>1
  <2>. QED  BY <1>1, <1>2, <2>1, <2>2, <2>3 DEF ServiceTyped
<1>5. LaunchInv
  BY <1>1, <1>2 DEF LaunchInv, Runs, Reviews
<1>6. DirectoryInv
  BY <1>1, <1>2 DEF DirectoryInv
<1>7. EvaluationInv
  BY <1>1, <1>2 DEF EvaluationInv, EvaluationsNeverRegress, Service!EvaluationsNeverRegress
<1>8. RetentionInv
  BY <1>1, <1>2 DEF RetentionInv
<1>. QED  BY <1>3, <1>4, <1>5, <1>6, <1>7, <1>8 DEF ServiceInv

-----------------------------------------------------------------------------
\* Steps that change only what a process has in memory, and perhaps what was
\* spawned.
LEMMA OnlyTheProcessMoves ==
    ASSUME ServiceInv, NEW p \in Processes, NEW moved \in Service!Memory,
           process' = [process EXCEPT ![p] = moved],
           UNCHANGED <<faults, subject, leased, Service!state, directories, made>>,
           \/ spawned' = spawned
           \/ /\ process[p].pc = "spawn" /\ moved.pc = "running"
              /\ spawned' = Append(spawned, launch),
           moved.pc \notin {"launch", "spawn"},
           process[p].pc = "launch" => faults # {},
           moved.pc \in {"running", "retain", "append"} =>
               Runs(p) /\ moved.directory = process[p].directory,
           moved.pc \in {"inspect", "verify", "admit"} =>
               moved.observation \in DOMAIN observations,
           moved.pc \in {"evaluating", "append"} => moved.revision = root.revision,
           moved.pc = "evaluating" => moved.admitted = (accepted # {}),
           moved.pc \in {"retain", "append"} => moved.response.status # "none",
           faults = {} /\ ~overtaken /\ Answering(p) =>
               moved.pc \in {"running", "retain", "append"}
    PROVE  ServiceInv'
<1>1. /\ ServiceTyped /\ RevisionCounts
      /\ LaunchInv /\ DirectoryInv /\ EvaluationInv /\ RetentionInv
      /\ process \in [Processes -> Service!Memory]
      /\ spawned \in Seq(Nat) /\ launch \in Nat /\ root.revision \in Nat
  BY DEF ServiceInv, ServiceTyped, Root
<1>2. /\ UNCHANGED <<faults, subject, leased, root, launch, observations, accepted, evaluations,
                     overtaken, directories, made>>
      /\ \A q \in Processes : process'[q] = IF q = p THEN moved ELSE process[q]
      /\ process' \in [Processes -> Service!Memory]
  BY <1>1 DEF Service!state
<1>3. /\ spawned' \in Seq(Nat)
      /\ spawned' # spawned =>
            spawned = <<>> /\ Len(spawned') = 1 /\ spawned'[1] = launch /\ moved.pc = "running"
      /\ spawned # <<>> => spawned' # <<>>
  <2>1. CASE spawned' = spawned
    BY <1>1, <2>1
  <2>2. CASE /\ process[p].pc = "spawn" /\ moved.pc = "running"
             /\ spawned' = Append(spawned, launch)
    <3>1. spawned = <<>>
      BY <1>1, <2>2 DEF LaunchInv
    <3>2. spawned' = <<launch>>
      BY <1>1, <2>2, <3>1
    <3>. QED  BY <1>1, <2>2, <3>1, <3>2
  <2>. QED  BY <2>1, <2>2
<1>4. ServiceTyped' /\ RevisionCounts'
  BY <1>1, <1>2, <1>3 DEF ServiceTyped, RevisionCounts
<1>5. LaunchInv'
  <2>1. ASSUME NEW q \in Processes, Runs(q)' PROVE Runs(q)
    BY <1>2, <2>1 DEF Runs
  <2>2. /\ Len(spawned') <= 1 /\ \A i \in DOMAIN spawned' : spawned'[i] = launch'
    BY <1>1, <1>2, <1>3 DEF LaunchInv
  <2>3. launch' = 0 =>
          /\ spawned' = <<>> /\ observations' = <<>>
          /\ \A q \in Processes : ~Runs(q)'
    <3>1. launch' = 0 => \A q \in Processes : ~Runs(q)
      BY <1>1, <1>2 DEF LaunchInv
    <3>2. process[p].pc = "spawn" => Runs(p)
      BY DEF Runs
    <3>. QED  BY <1>1, <1>2, <2>1, <3>1, <3>2 DEF LaunchInv
  <2>4. \A q, r \in Processes : Runs(q)' /\ Runs(r)' => q = r
    BY <1>1, <2>1 DEF LaunchInv
  <2>5. ASSUME NEW q \in Processes
        PROVE  /\ Runs(q)' => process'[q].directory = launch' /\ observations' = <<>>
               /\ process'[q].pc = "spawn" => spawned' = <<>>
               /\ Reviews(q)' => process'[q].observation \in DOMAIN observations'
    <3>1. CASE q = p
      <4>1. process'[q] = moved
        BY <1>2, <3>1
      <4>2. Runs(q)' => moved.directory = process[p].directory
        BY <4>1 DEF Runs
      <4>. QED  BY <1>1, <1>2, <2>1, <3>1, <4>1, <4>2 DEF LaunchInv, Reviews
    <3>2. CASE q # p
      <4>1. process'[q] = process[q]
        BY <1>2, <3>2
      <4>2. process[q].pc = "spawn" => Runs(q)
        BY DEF Runs
      <4>3. process[q].pc = "spawn" => spawned' = spawned
        <5>1. process[p].pc = "spawn" => Runs(p)
          BY DEF Runs
        <5>. QED  BY <1>1, <3>2, <4>2, <5>1 DEF LaunchInv
      <4>. QED  BY <1>1, <1>2, <2>1, <4>1, <4>3 DEF LaunchInv, Reviews
    <3>. QED  BY <3>1, <3>2
  <2>. QED  BY <1>1, <1>2, <2>2, <2>3, <2>4, <2>5 DEF LaunchInv
<1>6. DirectoryInv'
  <2>1. \A q \in Processes : process'[q].pc = "launch" => q # p /\ process'[q] = process[q]
    BY <1>2
  <2>2. faults' = {} => \A q \in Processes : process[q].pc = "launch" => process'[q] = process[q]
    BY <1>2
  <2>. QED  BY <1>1, <1>2, <2>1, <2>2 DEF DirectoryInv
<1>7. EvaluationInv'
  <2>1. ASSUME NEW q \in Processes, process'[q].pc = "evaluating"
        PROVE  /\ process'[q].revision <= root'.revision
               /\ process'[q].revision = root'.revision =>
                     process'[q].admitted = (accepted' # {})
    BY <1>1, <1>2, <2>1 DEF EvaluationInv
  <2>. QED  BY <1>1, <1>2, <2>1
            DEF EvaluationInv, EvaluationsNeverRegress, Service!EvaluationsNeverRegress
<1>8. RetentionInv'
  <2>1. \A q \in Processes :
          process'[q].pc = "append" /\ ~overtaken' =>
              process'[q].revision = root'.revision
    BY <1>1, <1>2 DEF RetentionInv
  <2>3. \A q \in Processes :
          process'[q].pc \in {"retain", "append"} => process'[q].response.status # "none"
    BY <1>1, <1>2 DEF RetentionInv
  <2>2. ASSUME faults' = {}, ~overtaken', spawned' # <<>>
        PROVE  observations' # <<>> \/ \E q \in Processes : Answering(q)'
    <3>1. CASE spawned' # spawned
      BY <1>2, <1>3, <3>1 DEF Answering
    <3>2. CASE spawned' = spawned
      <4>1. observations # <<>> \/ \E q \in Processes : Answering(q)
        BY <1>1, <1>2, <2>2, <3>2 DEF RetentionInv
      <4>2. ASSUME NEW q \in Processes, Answering(q) PROVE Answering(q)'
        BY <1>2, <2>2, <4>2 DEF Answering
      <4>. QED  BY <1>2, <4>1, <4>2
    <3>. QED  BY <3>1, <3>2
  <2>. QED  BY <2>1, <2>2, <2>3 DEF RetentionInv
<1>. QED  BY <1>4, <1>5, <1>6, <1>7, <1>8 DEF ServiceInv

LEMMA ProcessSteps ==
    ASSUME ServiceInv, NEW p \in Processes,
           \/ Service!Spawn(p) \/ Service!CancelSpawn(p) \/ Service!Respond(p)
           \/ Service!ReadForRetention(p) \/ Service!FailToRetain(p)
           \/ Service!StartAdmission(p) \/ Service!Inspect(p) \/ Service!Verify(p)
           \/ Service!EndAdmission(p) \/ Service!FailToAdmit(p)
           \/ Service!ReadForEvaluation(p) \/ Service!FailToEvaluate(p) \/ Service!Crash(p)
    PROVE  ServiceInv'
<1>. DEFINE m == process[p]
<1>1. /\ m \in Service!Memory /\ process \in [Processes -> Service!Memory]
      /\ LaunchInv /\ RetentionInv
      /\ root.revision \in Nat
  BY DEF ServiceInv, ServiceTyped, Root
<1>2. ASSUME NEW step \in {"verify", "admit"},
             NEW seen \in Nat, NEW admitted \in BOOLEAN, Reviews(p),
             process' = [process EXCEPT ![p] = [m EXCEPT !.pc = step, !.revision = seen,
                                                         !.admitted = admitted]],
             UNCHANGED <<faults, subject, leased, Service!state, directories, made, spawned>>
      PROVE  ServiceInv'
  <2>. DEFINE moved == [m EXCEPT !.pc = step, !.revision = seen, !.admitted = admitted]
  <2>1. moved \in Service!Memory /\ moved.pc = step /\ moved.observation = m.observation
    BY <1>1 DEF Service!Memory
  <2>2. m.observation \in DOMAIN observations
    BY <1>1, <1>2 DEF LaunchInv
  <2>3. ~Answering(p) /\ m.pc # "launch"
    BY <1>2 DEF Reviews, Answering
  <2>4. process' = [process EXCEPT ![p] = moved]
    BY <1>2
  <2>. HIDE DEF moved
  <2>. QED  BY <1>2, <2>1, <2>2, <2>3, <2>4, OnlyTheProcessMoves
<1>3. ASSUME Service!Stop(p), m.pc # "launch" \/ faults # {},
             faults # {} \/ overtaken \/ ~Answering(p),
             UNCHANGED <<faults, subject, leased, Service!state, directories, made, spawned>>
      PROVE  ServiceInv'
  BY <1>3, IdleProcess, OnlyTheProcessMoves DEF Service!Stop
<1>4. CASE Service!Spawn(p)
  <2>. DEFINE moved == [m EXCEPT !.pc = "running"]
  <2>1. /\ m.pc = "spawn" /\ process' = [process EXCEPT ![p] = moved]
        /\ spawned' = Append(spawned, m.directory)
        /\ UNCHANGED <<faults, subject, leased, Service!state, directories, made>>
    BY <1>1, <1>4 DEF Service!Spawn, Service!Continue
  <2>2. moved \in Service!Memory /\ moved.pc = "running" /\ moved.directory = m.directory
    BY <1>1 DEF Service!Memory
  <2>3. Runs(p) /\ m.directory = launch
    BY <1>1, <2>1 DEF Runs, LaunchInv
  <2>. HIDE DEF moved
  <2>. QED  BY <2>1, <2>2, <2>3, OnlyTheProcessMoves
<1>5. CASE Service!CancelSpawn(p)
  <2>. DEFINE moved == [m EXCEPT !.pc = "retain", !.response.status = "cancelled"]
  <2>1. /\ m.pc = "spawn" /\ process' = [process EXCEPT ![p] = moved]
        /\ UNCHANGED <<faults, subject, leased, Service!state, directories, made, spawned>>
    BY <1>1, <1>5 DEF Service!CancelSpawn
  <2>2. moved \in Service!Memory /\ moved.pc = "retain" /\ moved.directory = m.directory
        /\ moved.response.status = "cancelled"
    BY <1>1 DEF Service!Memory, Service!Response
  <2>3. Runs(p)
    BY <2>1 DEF Runs
  <2>. HIDE DEF moved
  <2>. QED  BY <2>1, <2>2, <2>3, OnlyTheProcessMoves
<1>6. CASE Service!Respond(p)
  <2>1. PICK status \in {"ok", "timeout"}, valid \in BOOLEAN :
          process' = [process EXCEPT ![p].pc = "retain",
              ![p].response = [status |-> status,
                               envelope |-> [valid |-> valid, subject |-> subject]]]
    BY <1>6 DEF Service!Respond
  <2>. DEFINE moved == [m EXCEPT !.pc = "retain",
                          !.response = [status |-> status,
                                        envelope |-> [valid |-> valid, subject |-> subject]]]
  <2>2. /\ m.pc = "running" /\ process' = [process EXCEPT ![p] = moved]
        /\ UNCHANGED <<faults, subject, leased, Service!state, directories, made, spawned>>
    BY <1>1, <1>6, <2>1 DEF Service!Respond
  <2>3. subject \in Nat
    BY DEF ServiceInv, ServiceTyped
  <2>4. moved \in Service!Memory /\ moved.pc = "retain" /\ moved.directory = m.directory
        /\ moved.response.status = status
    BY <1>1, <2>3 DEF Service!Memory, Service!Response, Service!Envelope
  <2>5. Runs(p)
    BY <2>2 DEF Runs
  <2>. HIDE DEF moved
  <2>. QED  BY <2>2, <2>4, <2>5, OnlyTheProcessMoves
<1>7. CASE Service!ReadForRetention(p)
  <2>. DEFINE moved == [m EXCEPT !.pc = "append", !.revision = root.revision]
  <2>1. /\ m.pc = "retain" /\ process' = [process EXCEPT ![p] = moved]
        /\ UNCHANGED <<faults, subject, leased, Service!state, directories, made, spawned>>
    BY <1>1, <1>7 DEF Service!ReadForRetention, Service!RevisionRead
  <2>2. /\ moved \in Service!Memory /\ moved.pc = "append" /\ moved.directory = m.directory
        /\ moved.revision = root.revision /\ moved.response = m.response
    BY <1>1 DEF Service!Memory
  <2>3. Runs(p) /\ m.response.status # "none"
    BY <1>1, <2>1 DEF Runs, RetentionInv
  <2>. HIDE DEF moved
  <2>. QED  BY <2>1, <2>2, <2>3, OnlyTheProcessMoves
<1>8. CASE Service!FailToRetain(p)
  <2>1. m.pc = "append" /\ (Service!Fenced(p) \/ Service!FailureAnswers # {})
    BY <1>8 DEF Service!FailToRetain
  <2>2. faults # {} \/ overtaken
    BY <1>1, <2>1 DEF RetentionInv, Service!Fenced, Service!FailureAnswers
  <2>. QED  BY <1>3, <1>8, <2>1, <2>2 DEF Service!FailToRetain
<1>9. CASE Service!StartAdmission(p)
  <2>1. PICK i \in DOMAIN observations :
          process' = [process EXCEPT ![p] =
              [Service!Idle EXCEPT !.pc = "inspect", !.observation = i]]
    BY <1>9 DEF Service!StartAdmission
  <2>. DEFINE moved == [Service!Idle EXCEPT !.pc = "inspect", !.observation = i]
  <2>2. i \in Nat
    BY DEF ServiceInv, ServiceTyped
  <2>3. /\ moved \in Service!Memory /\ moved.pc = "inspect" /\ moved.observation = i
    BY <2>2, IdleProcess DEF Service!Memory
  <2>4. /\ m.pc = "idle" /\ process' = [process EXCEPT ![p] = moved]
        /\ UNCHANGED <<faults, subject, leased, Service!state, directories, made, spawned>>
    BY <1>9, <2>1 DEF Service!StartAdmission
  <2>. HIDE DEF moved
  <2>. QED  BY <2>3, <2>4, OnlyTheProcessMoves DEF Answering
<1>10. CASE Service!Inspect(p)
  <2>. DEFINE admitted == m.observation \in accepted
  <2>1. /\ m.pc = "inspect"
        /\ process' = [process EXCEPT ![p].pc = "verify", ![p].revision = root.revision,
                                      ![p].admitted = m.observation \in accepted]
        /\ UNCHANGED <<faults, subject, leased, Service!state, directories, made, spawned>>
    BY <1>10 DEF Service!Inspect
  <2>2. process' = [process EXCEPT ![p] = [m EXCEPT !.pc = "verify", !.revision = root.revision,
                                                    !.admitted = admitted]]
    BY <1>1, <2>1
  <2>3. admitted \in BOOLEAN /\ Reviews(p)
    BY <2>1 DEF Reviews
  <2>. HIDE DEF admitted
  <2>. QED  BY <1>1, <1>2, <2>1, <2>2, <2>3
<1>11. CASE Service!Verify(p)
  <2>1. /\ m.pc = "verify" /\ process' = [process EXCEPT ![p].pc = "admit"]
        /\ UNCHANGED <<faults, subject, leased, Service!state, directories, made, spawned>>
    BY <1>11 DEF Service!Verify, Service!Continue
  <2>2. m.revision \in Nat /\ m.admitted \in BOOLEAN
    BY <1>1 DEF Service!Memory
  <2>3. [m EXCEPT !.pc = "admit"]
           = [m EXCEPT !.pc = "admit", !.revision = m.revision, !.admitted = m.admitted]
    BY <1>1 DEF Service!Memory
  <2>4. process' = [process EXCEPT ![p] = [m EXCEPT !.pc = "admit", !.revision = m.revision,
                                                    !.admitted = m.admitted]]
    BY <1>1, <2>1, <2>3
  <2>5. Reviews(p)
    BY <2>1 DEF Reviews
  <2>. QED  BY <1>2, <2>1, <2>2, <2>3, <2>4, <2>5
<1>12. CASE Service!EndAdmission(p) \/ Service!FailToAdmit(p) \/ Service!FailToEvaluate(p)
  <2>1. m.pc \in {"inspect", "verify", "admit", "evaluating"}
    BY <1>12 DEF Service!EndAdmission, Service!FailToAdmit, Service!FailToEvaluate
  <2>. QED  BY <1>3, <1>12, <2>1
            DEF Service!EndAdmission, Service!FailToAdmit, Service!FailToEvaluate, Answering
<1>13. CASE Service!ReadForEvaluation(p)
  <2>. DEFINE admitted == accepted # {}
              moved == [Service!Idle EXCEPT !.pc = "evaluating", !.revision = root.revision,
                                            !.admitted = admitted]
  <2>1. /\ m.pc \in {"idle", "evaluate"} /\ process' = [process EXCEPT ![p] = moved]
        /\ UNCHANGED <<faults, subject, leased, Service!state, directories, made, spawned>>
    BY <1>13 DEF Service!ReadForEvaluation
  <2>2. admitted \in BOOLEAN
    OBVIOUS
  <2>3. /\ moved \in Service!Memory /\ moved.pc = "evaluating"
        /\ moved.revision = root.revision /\ moved.admitted = admitted
    <3>. HIDE DEF admitted
    <3>. QED  BY <1>1, <2>2, IdleProcess DEF Service!Memory
  <2>. HIDE DEF moved
  <2>4. moved.pc = "evaluating" => moved.admitted = (accepted # {})
    BY <2>3, Zenon
  <2>5. ~Answering(p) /\ m.pc # "launch"
    BY <2>1 DEF Answering
  <2>6. UNCHANGED <<faults, subject, leased, Service!state, directories, made>>
    BY <2>1
  <2>7. spawned' = spawned
    BY <2>1
  <2>8. /\ moved.pc \notin {"launch", "spawn", "running", "retain", "append", "inspect", "verify",
                             "admit"}
        /\ moved \in Service!Memory /\ moved.revision = root.revision
    BY <2>3
  <2>9. process' = [process EXCEPT ![p] = moved]
    BY <2>1
  <2>. QED  BY <2>4, <2>5, <2>6, <2>7, <2>8, <2>9, OnlyTheProcessMoves
<1>14. CASE Service!Crash(p)
  BY <1>3, <1>14 DEF Service!Crash
<1>. QED  BY <1>4, <1>5, <1>6, <1>7, <1>8, <1>9, <1>10, <1>11, <1>12, <1>13, <1>14
-----------------------------------------------------------------------------
\* The launch.

LEMMA StartRunStep ==
    ASSUME ServiceInv, NEW p \in Processes, Service!StartRun(p)
    PROVE  ServiceInv'
<1>. DEFINE moved == [Service!Idle EXCEPT !.pc = "launch", !.revision = root.revision,
                                          !.directory = made + 1]
<1>1. /\ ServiceTyped /\ RevisionCounts
      /\ LaunchInv /\ DirectoryInv /\ EvaluationInv /\ RetentionInv
      /\ process \in [Processes -> Service!Memory]
      /\ root.revision \in Nat /\ made \in Nat /\ launch \in Nat /\ directories \subseteq Nat
  BY DEF ServiceInv, ServiceTyped, Root
<1>2. /\ process[p].pc = "idle" /\ root.attempt = "pending"
      /\ made' = made + 1 /\ directories' = directories \cup {made + 1}
      /\ process' = [process EXCEPT ![p] = moved]
      /\ UNCHANGED <<faults, subject, leased, root, launch, observations, accepted, evaluations,
                     overtaken, spawned>>
  BY DEF Service!StartRun, Service!state
<1>3. moved \in Service!Memory /\ moved.pc = "launch" /\ moved.directory = made + 1
  <2>1. ASSUME NEW n \in Nat, NEW d \in Nat
        PROVE  LET m == [Service!Idle EXCEPT !.pc = "launch", !.revision = n, !.directory = d]
               IN  m \in Service!Memory /\ m.pc = "launch" /\ m.directory = d
    BY IdleProcess DEF Service!Memory
  <2>2. made + 1 \in Nat
    BY <1>1
  <2>. QED  BY <1>1, <2>1, <2>2
<1>. HIDE DEF moved
<1>4. /\ process' \in [Processes -> Service!Memory]
      /\ \A q \in Processes : process'[q] = IF q = p THEN moved ELSE process[q]
  BY <1>1, <1>2, <1>3
<1>5. ServiceTyped' /\ RevisionCounts'
  BY <1>1, <1>2, <1>4 DEF ServiceTyped, RevisionCounts
<1>6. LaunchInv'
  BY <1>1, <1>2, <1>3, <1>4 DEF LaunchInv, Runs, Reviews
<1>7. DirectoryInv'
  <2>1. /\ launch' <= made' /\ 0 \notin directories'
        /\ launch' # 0 => launch' \in directories'
    BY <1>1, <1>2 DEF DirectoryInv
  <2>2. ASSUME NEW q \in Processes, process'[q].pc = "launch"
        PROVE  /\ process'[q].directory \in 1 .. made'
               /\ process'[q].directory \in directories'
               /\ process'[q].directory # launch'
    BY <1>1, <1>2, <1>3, <1>4, <2>2 DEF DirectoryInv
  <2>3. ASSUME NEW q \in Processes, NEW r \in Processes,
               process'[q].pc = "launch", process'[r].pc = "launch",
               process'[q].directory = process'[r].directory
        PROVE  q = r
    <3>1. \A o \in Processes \ {p} : process'[o].pc = "launch" => process'[o].directory # made + 1
      BY <1>1, <1>4 DEF DirectoryInv
    <3>. QED  BY <1>1, <1>3, <1>4, <2>3, <3>1 DEF DirectoryInv
  <2>4. ASSUME faults' = {}, NEW d \in directories'
        PROVE  \/ d = launch'
               \/ \E q \in Processes : process'[q].pc = "launch" /\ process'[q].directory = d
    <3>1. CASE d = made + 1
      BY <1>3, <1>4, <3>1
    <3>2. CASE d \in directories
      <4>1. d = launch \/ \E q \in Processes :
                             process[q].pc = "launch" /\ process[q].directory = d
        BY <1>1, <1>2, <2>4, <3>2 DEF DirectoryInv
      <4>. QED  BY <1>2, <1>4, <4>1
    <3>. QED  BY <1>2, <2>4, <3>1, <3>2
  <2>. QED  BY <2>1, <2>2, <2>3, <2>4 DEF DirectoryInv
<1>8. EvaluationInv'
  BY <1>1, <1>2, <1>3, <1>4
     DEF EvaluationInv, EvaluationsNeverRegress, Service!EvaluationsNeverRegress
<1>9. RetentionInv'
  BY <1>1, <1>2, <1>3, <1>4 DEF RetentionInv, Answering
<1>. QED  BY <1>5, <1>6, <1>7, <1>8, <1>9 DEF ServiceInv

LEMMA LaunchStep ==
    ASSUME ServiceInv, NEW p \in Processes, Service!Launch(p)
    PROVE  ServiceInv'
<1>. DEFINE d == process[p].directory
<1>1. /\ ServiceTyped /\ RevisionCounts
      /\ LaunchInv /\ DirectoryInv /\ EvaluationInv /\ RetentionInv
      /\ process \in [Processes -> Service!Memory]
      /\ root \in Root /\ made \in Nat /\ launch \in Nat /\ directories \subseteq Nat
      /\ root.revision \in Nat
  BY DEF ServiceInv, ServiceTyped, Root
<1>2. /\ process[p].pc = "launch" /\ root.attempt = "pending"
      /\ root' = [revision |-> root.revision + 1, attempt |-> "running"]
      /\ launch' = d
      /\ UNCHANGED <<faults, subject, leased, observations, accepted, evaluations, overtaken,
                     made, spawned>>
  BY DEF Service!Launch, Service!MayStart, Service!Bumped
<1>3. PICK answer \in {"ok", "warning", "uncertain"} : Service!AfterLaunch(p, answer)
  BY DEF Service!Launch, Service!CommitAnswers
<1>4. PICK moved \in Service!Memory :
        /\ process' = [process EXCEPT ![p] = moved]
        /\ moved.pc \in {"spawn", "idle"}
        /\ moved.pc = "spawn" => moved.directory = d
        /\ directories' = directories
  <2>1. CASE answer = "ok"
    <3>1. [process[p] EXCEPT !.pc = "spawn"] \in Service!Memory
      BY <1>1 DEF Service!Memory
    <3>2. process' = [process EXCEPT ![p] = [process[p] EXCEPT !.pc = "spawn"]]
      BY <1>1, <1>3, <2>1 DEF Service!AfterLaunch, Service!Spawns, Service!Continue
    <3>3. [process[p] EXCEPT !.pc = "spawn"].pc = "spawn"
          /\ [process[p] EXCEPT !.pc = "spawn"].directory = d
      BY <1>1 DEF Service!Memory
    <3>4. directories' = directories
      BY <1>3, <2>1 DEF Service!AfterLaunch, Service!Spawns
    <3>. QED  BY <3>1, <3>2, <3>3, <3>4
  <2>2. CASE answer # "ok"
    <3>1. process' = [process EXCEPT ![p] = Service!Idle] /\ directories' = directories
      BY <1>3, <2>2 DEF Service!AfterLaunch, Service!Spawns, Service!Stop,
                        Service!DirectoriesAfter, Service!RemovesDirectory
    <3>. QED  BY <3>1, IdleProcess
  <2>. QED  BY <2>1, <2>2
<1>5. /\ process' \in [Processes -> Service!Memory]
      /\ \A q \in Processes : process'[q] = IF q = p THEN moved ELSE process[q]
  BY <1>1, <1>4
<1>6. launch = 0 /\ d \in Nat \ {0} /\ d <= made /\ d \in directories
  BY <1>1, <1>2 DEF LaunchInv, DirectoryInv
<1>7. spawned = <<>> /\ observations = <<>> /\ accepted = {} /\ \A q \in Processes : ~Runs(q)
  BY <1>1, <1>2, <1>6 DEF LaunchInv
<1>8. RevisionCounts'
  <2>1. {launch} \ {0} = {} /\ {launch'} \ {0} = {d}
    BY <1>2, <1>6
  <2>2. Cardinality({launch} \ {0}) = 0 /\ Cardinality({launch'} \ {0}) = 1
    BY <2>1, FS_EmptySet, FS_Singleton
  <2>3. Len(observations) \in Nat /\ Cardinality(accepted) = 0 /\ Len(evaluations) \in Nat
    BY <1>1, <1>7, FS_EmptySet DEF ServiceTyped
  <2>4. /\ observations' = observations /\ accepted' = accepted /\ evaluations' = evaluations
        /\ root'.revision = root.revision + 1
    BY <1>2
  <2>5. root.revision = 0 + Len(observations) + Cardinality(accepted) + Len(evaluations)
    BY <1>1, <2>2 DEF RevisionCounts
  <2>. QED  BY <2>2, <2>3, <2>4, <2>5 DEF RevisionCounts
<1>9. ServiceTyped'
  <2>1. root' \in Root /\ launch' \in Nat /\ directories' \subseteq Nat
    BY <1>1, <1>2, <1>4, <1>6 DEF Root
  <2>. QED  BY <1>1, <1>2, <1>5, <2>1 DEF ServiceTyped
<1>10. LaunchInv'
  <2>1. \A q \in Processes : Runs(q)' => q = p /\ process'[q] = moved
    BY <1>5, <1>7 DEF Runs
  <2>2. \A q \in Processes : Runs(q)' => process'[q].directory = d
    BY <1>4, <2>1 DEF Runs
  <2>3. \A q \in Processes : ~Reviews(q)'
    BY <1>1, <1>4, <1>5, <1>7 DEF LaunchInv, Reviews
  <2>. QED  BY <1>2, <1>6, <1>7, <2>1, <2>2, <2>3 DEF LaunchInv
<1>11. DirectoryInv'
  <2>1. \A q \in Processes : process'[q].pc = "launch" => q # p /\ process'[q] = process[q]
    BY <1>4, <1>5
  <2>2. \A q \in Processes : process'[q].pc = "launch" => process'[q].directory # d
    BY <1>1, <1>2, <2>1 DEF DirectoryInv
  <2>3. ASSUME faults' = {}, NEW e \in directories'
        PROVE  \/ e = launch'
               \/ \E q \in Processes : process'[q].pc = "launch" /\ process'[q].directory = e
    <3>1. PICK q \in Processes : process[q].pc = "launch" /\ process[q].directory = e
      BY <1>1, <1>2, <1>4, <1>6, <2>3 DEF DirectoryInv
    <3>2. CASE q = p
      BY <1>2, <3>1, <3>2
    <3>3. CASE q # p
      BY <1>5, <3>1, <3>3
    <3>. QED  BY <3>2, <3>3
  <2>. QED  BY <1>1, <1>2, <1>4, <1>6, <2>1, <2>2, <2>3 DEF DirectoryInv
<1>12. EvaluationInv'
  <2>1. \A q \in Processes :
           process'[q].pc = "evaluating" =>
              process'[q] = process[q] /\ process[q].revision \in Nat
                /\ process[q].revision <= root.revision
    BY <1>1, <1>4, <1>5 DEF EvaluationInv, Service!Memory
  <2>. QED  BY <1>1, <1>2, <2>1
            DEF EvaluationInv, EvaluationsNeverRegress, Service!EvaluationsNeverRegress
<1>13. RetentionInv'
  <2>1. \A q \in Processes : process'[q].pc \notin {"retain", "append"}
    BY <1>4, <1>5, <1>7 DEF Runs
  <2>. QED  BY <1>2, <1>7, <2>1 DEF RetentionInv
<1>. QED  BY <1>8, <1>9, <1>10, <1>11, <1>12, <1>13 DEF ServiceInv

LEMMA FailToLaunchStep ==
    ASSUME ServiceInv, NEW p \in Processes, Service!FailToLaunch(p)
    PROVE  ServiceInv'
<1>1. /\ ServiceTyped /\ RevisionCounts
      /\ LaunchInv /\ DirectoryInv /\ EvaluationInv /\ RetentionInv
      /\ process \in [Processes -> Service!Memory] /\ launch \in Nat
      /\ directories \subseteq Nat
  BY DEF ServiceInv, ServiceTyped
<1>2. /\ process[p].pc = "launch"
      /\ UNCHANGED <<faults, subject, leased, root, launch, observations, accepted, evaluations,
                     overtaken, made, spawned>>
  BY DEF Service!FailToLaunch, Service!state
<1>3. PICK answer \in {"failed", "uncertain"} :
        Service!AfterLaunch(p, answer) /\ (answer = "uncertain" => faults # {})
  BY DEF Service!FailToLaunch, Service!FailureAnswers
<1>4. /\ process' = [process EXCEPT ![p] = Service!Idle]
      /\ directories' = IF answer = "failed" THEN directories \ {process[p].directory}
                        ELSE directories
  BY <1>3 DEF Service!AfterLaunch, Service!Spawns, Service!Stop,
              Service!DirectoriesAfter, Service!RemovesDirectory
<1>5. /\ process' \in [Processes -> Service!Memory]
      /\ \A q \in Processes : process'[q] = IF q = p THEN Service!Idle ELSE process[q]
  BY <1>1, <1>4, IdleProcess
<1>6. Service!Idle.pc = "idle"
  BY IdleProcess
<1>7. ServiceTyped' /\ RevisionCounts'
  BY <1>1, <1>2, <1>4, <1>5 DEF ServiceTyped, RevisionCounts
<1>8. LaunchInv'
  BY <1>1, <1>2, <1>5, <1>6 DEF LaunchInv, Runs, Reviews
<1>9. DirectoryInv'
  <2>1. \A q \in Processes : process'[q].pc = "launch" => q # p /\ process'[q] = process[q]
    BY <1>5, <1>6
  <2>2. \A q \in Processes :
          process'[q].pc = "launch" => process[q].directory # process[p].directory
    BY <1>1, <1>2, <2>1 DEF DirectoryInv
  <2>3. launch # 0 => launch \in directories'
    BY <1>1, <1>2, <1>4 DEF DirectoryInv
  <2>4. \A q \in Processes :
          process'[q].pc = "launch" =>
              /\ process'[q].directory \in 1 .. made'
              /\ process'[q].directory \in directories'
              /\ process'[q].directory # launch'
    BY <1>1, <1>2, <1>4, <2>1, <2>2 DEF DirectoryInv
  <2>5. ASSUME faults' = {}, NEW e \in directories'
        PROVE  \/ e = launch'
               \/ \E q \in Processes : process'[q].pc = "launch" /\ process'[q].directory = e
    <3>1. answer = "failed" /\ e \in directories /\ e # process[p].directory
      BY <1>2, <1>3, <1>4, <2>5
    <3>2. e = launch \/ \E q \in Processes :
                           process[q].pc = "launch" /\ process[q].directory = e
      BY <1>1, <1>2, <2>5, <3>1 DEF DirectoryInv
    <3>. QED  BY <1>2, <1>5, <3>1, <3>2
  <2>6. \A q, r \in Processes :
          /\ process'[q].pc = "launch" /\ process'[r].pc = "launch"
          /\ process'[q].directory = process'[r].directory
          => q = r
    BY <1>1, <2>1 DEF DirectoryInv
  <2>7. launch' <= made' /\ 0 \notin directories'
    BY <1>1, <1>2, <1>4 DEF DirectoryInv
  <2>. QED  BY <1>2, <2>3, <2>4, <2>5, <2>6, <2>7 DEF DirectoryInv
<1>10. EvaluationInv'
  BY <1>1, <1>2, <1>5, <1>6
     DEF EvaluationInv, EvaluationsNeverRegress, Service!EvaluationsNeverRegress
<1>11. RetentionInv'
  BY <1>1, <1>2, <1>5, <1>6 DEF RetentionInv, Answering
<1>. QED  BY <1>7, <1>8, <1>9, <1>10, <1>11 DEF ServiceInv
-----------------------------------------------------------------------------
\* Retention, admission and evaluation.

\* Each of them bumps the revision, so what was decided on the one before is fenced.
LEMMA OlderEvaluationsAreFenced ==
    ASSUME ServiceInv, NEW p \in Processes, NEW moved \in Service!Memory,
           \A q \in Processes : process'[q] = IF q = p THEN moved ELSE process[q],
           root'.revision = root.revision + 1, moved.pc # "evaluating"
    PROVE  \A q \in Processes :
              process'[q].pc = "evaluating" =>
                 /\ process'[q].revision <= root'.revision
                 /\ process'[q].revision # root'.revision
<1>. TAKE q \in Processes
<1>. HAVE process'[q].pc = "evaluating"
<1>1. process'[q] = process[q] /\ process[q].pc = "evaluating"
  OBVIOUS
<1>2. process[q].revision <= root.revision /\ process[q].revision \in Nat /\ root.revision \in Nat
  BY <1>1 DEF ServiceInv, EvaluationInv, ServiceTyped, Root, Service!Memory
<1>. QED  BY <1>1, <1>2

LEMMA RetainStep ==
    ASSUME ServiceInv, NEW p \in Processes, Service!RetainObservation(p)
    PROVE  ServiceInv'
<1>. DEFINE m == process[p]
            kept == [status |-> m.response.status, envelope |-> m.response.envelope,
                     directory |-> m.directory]
<1>1. /\ ServiceTyped /\ RevisionCounts
      /\ LaunchInv /\ DirectoryInv /\ EvaluationInv /\ RetentionInv
      /\ process \in [Processes -> Service!Memory] /\ m \in Service!Memory
      /\ root \in Root /\ root.revision \in Nat /\ launch \in Nat
      /\ observations \in Seq(Observation) /\ accepted \subseteq DOMAIN observations
      /\ evaluations \in Seq(BOOLEAN)
  BY DEF ServiceInv, ServiceTyped, Root
<1>2. /\ m.pc = "append"
      /\ observations' = Append(observations, kept)
      /\ root' = [revision |-> root.revision + 1, attempt |-> root.attempt]
      /\ UNCHANGED <<faults, subject, leased, launch, accepted, evaluations, overtaken,
                     directories, made, spawned>>
  BY DEF Service!RetainObservation, Service!Bumped
<1>3. Runs(p) /\ m.directory = launch /\ observations = <<>> /\ launch # 0
  BY <1>1, <1>2 DEF LaunchInv, Runs
<1>4. m.response.status # "none"
  BY <1>1, <1>2 DEF RetentionInv
<1>5. kept \in Observation /\ kept.directory = launch
  <2>1. m.response \in Service!Response /\ m.directory \in Nat
    BY <1>1 DEF Service!Memory
  <2>. QED  BY <1>3, <1>4, <2>1 DEF Service!Response, Observation
<1>. HIDE DEF kept
<1>6. observations' = <<kept>> /\ observations' \in Seq(Observation) /\ Len(observations') = 1
  BY <1>2, <1>3, <1>5
<1>7. PICK moved \in Service!Memory :
        /\ process' = [process EXCEPT ![p] = moved]
        /\ moved.pc \in {"inspect", "idle"}
        /\ moved.pc = "inspect" => moved.observation = 1
  <2>1. [Service!Idle EXCEPT !.pc = "inspect", !.observation = 1] \in Service!Memory
        /\ [Service!Idle EXCEPT !.pc = "inspect", !.observation = 1].pc = "inspect"
        /\ [Service!Idle EXCEPT !.pc = "inspect", !.observation = 1].observation = 1
    BY IdleProcess DEF Service!Memory
  <2>2. Len(observations) + 1 = 1
    BY <1>3
  <2>3. \/ process' = [process EXCEPT ![p] =
              [Service!Idle EXCEPT !.pc = "inspect", !.observation = 1]]
        \/ process' = [process EXCEPT ![p] = Service!Idle]
    BY <2>2 DEF Service!RetainObservation, Service!Stop
  <2>. QED  BY <2>1, <2>3, IdleProcess
<1>8. /\ process' \in [Processes -> Service!Memory]
      /\ \A q \in Processes : process'[q] = IF q = p THEN moved ELSE process[q]
  BY <1>1, <1>7
<1>9. ServiceTyped'
  <2>1. root' \in Root /\ accepted' \subseteq DOMAIN observations'
    BY <1>1, <1>2, <1>3, <1>6 DEF Root
  <2>. QED  BY <1>1, <1>2, <1>6, <1>8, <2>1 DEF ServiceTyped
<1>10. RevisionCounts'
  <2>0. accepted = {} /\ Len(observations) = 0
    BY <1>1, <1>3
  <2>1. accepted = {} /\ Cardinality(accepted) = 0 /\ Len(observations) = 0
    BY <2>0, FS_EmptySet
  <2>2. Cardinality({launch} \ {0}) \in Nat /\ Len(evaluations) \in Nat
    <3>1. {launch} \ {0} = {launch}
      BY <1>3
    <3>2. Cardinality({launch}) = 1
      BY FS_Singleton
    <3>3. Len(evaluations) \in Nat
      BY <1>1
    <3>4. Cardinality({launch} \ {0}) \in Nat
      BY <3>1, <3>2
    <3>. QED  BY <3>3, <3>4
  <2>3. root.revision = Cardinality({launch} \ {0}) + 0 + 0 + Len(evaluations)
    BY <1>1, <2>1 DEF RevisionCounts
  <2>4. /\ launch' = launch /\ accepted' = accepted /\ evaluations' = evaluations
        /\ root'.revision = root.revision + 1
    BY <1>2
  <2>5. root'.revision = Cardinality({launch} \ {0}) + 1 + 0 + Len(evaluations)
    BY <2>2, <2>3, <2>4
  <2>. QED  BY <1>6, <2>1, <2>4, <2>5 DEF RevisionCounts
<1>11. \A q \in Processes : ~Runs(q)'
  <2>1. \A q \in Processes : Runs(q) => q = p
    BY <1>1, <1>3 DEF LaunchInv
  <2>. QED  BY <1>7, <1>8, <2>1 DEF Runs
<1>12. LaunchInv'
  <2>1. observations'[1] = kept /\ DOMAIN observations' = {1}
    BY <1>6
  <2>2. \A q \in Processes : Reviews(q)' => process'[q].observation \in DOMAIN observations'
    <3>1. \A q \in Processes : ~Reviews(q)
      BY <1>1, <1>3 DEF LaunchInv
    <3>. QED  BY <1>7, <1>8, <2>1, <3>1 DEF Reviews
  <2>3. \A q \in Processes : process'[q].pc # "spawn"
    BY <1>11 DEF Runs
  <2>4. /\ root'.attempt = "pending" <=> launch' = 0
        /\ accepted' # {} <=> root'.attempt = "finished"
    BY <1>1, <1>2 DEF LaunchInv
  <2>5. Len(spawned') <= 1 /\ \A i \in DOMAIN spawned' : spawned'[i] = launch'
    BY <1>1, <1>2 DEF LaunchInv
  <2>6. Len(observations') <= 1 /\ \A i \in DOMAIN observations' :
                                      observations'[i].directory = launch'
    BY <1>2, <1>5, <1>6, <2>1
  <2>7. launch' # 0
    BY <1>2, <1>3
  <2>. QED  BY <1>11, <2>2, <2>3, <2>4, <2>5, <2>6, <2>7 DEF LaunchInv
<1>13. DirectoryInv'
  <2>1. \A q \in Processes :
           (process'[q].pc = "launch" <=> process[q].pc = "launch")
             /\ (process[q].pc = "launch" => process'[q] = process[q])
    BY <1>2, <1>7, <1>8
  <2>. QED  BY <1>1, <1>2, <2>1 DEF DirectoryInv
<1>14. EvaluationInv'
  <2>1. root'.revision = root.revision + 1 /\ moved.pc # "evaluating"
    BY <1>2, <1>7
  <2>2. \A q \in Processes :
           process'[q].pc = "evaluating" =>
              /\ process'[q].revision <= root'.revision
              /\ process'[q].revision # root'.revision
    BY <1>8, <2>1, OlderEvaluationsAreFenced
  <2>. QED  BY <1>1, <1>2, <2>2
            DEF EvaluationInv, EvaluationsNeverRegress, Service!EvaluationsNeverRegress
<1>15. RetentionInv'
  BY <1>6, <1>11 DEF RetentionInv, Runs
<1>. QED  BY <1>9, <1>10, <1>12, <1>13, <1>14, <1>15 DEF ServiceInv

LEMMA AdmitStep ==
    ASSUME ServiceInv, NEW p \in Processes, Service!Admit(p)
    PROVE  ServiceInv'
<1>. DEFINE m == process[p]
<1>1. /\ ServiceTyped /\ RevisionCounts
      /\ LaunchInv /\ DirectoryInv /\ EvaluationInv /\ RetentionInv
      /\ process \in [Processes -> Service!Memory] /\ m \in Service!Memory
      /\ root \in Root /\ root.revision \in Nat /\ launch \in Nat
      /\ observations \in Seq(Observation) /\ evaluations \in Seq(BOOLEAN)
  BY DEF ServiceInv, ServiceTyped, Root
<1>2. /\ m.pc = "admit" /\ root.attempt = "running"
      /\ accepted' = accepted \cup {m.observation}
      /\ root' = [revision |-> root.revision + 1, attempt |-> "finished"]
      /\ UNCHANGED <<faults, subject, leased, launch, observations, evaluations, overtaken,
                     directories, made, spawned>>
  BY DEF Service!Admit, Service!MayAdmit, Service!Bumped
<1>3. m.observation \in DOMAIN observations
  BY <1>1, <1>2 DEF LaunchInv, Reviews
<1>4. accepted = {} /\ accepted' = {m.observation}
  BY <1>1, <1>2 DEF LaunchInv
<1>5. launch # 0 /\ observations # <<>> /\ \A q \in Processes : ~Runs(q)
  <2>1. launch # 0
    BY <1>1, <1>2 DEF LaunchInv
  <2>2. observations # <<>>
    BY <1>3
  <2>. QED  BY <1>1, <2>1, <2>2 DEF LaunchInv
<1>6. PICK moved \in Service!Memory :
        /\ process' = [process EXCEPT ![p] = moved]
        /\ moved.pc \in {"evaluate", "idle"}
  <2>1. [m EXCEPT !.pc = "evaluate"] \in Service!Memory
        /\ [m EXCEPT !.pc = "evaluate"].pc = "evaluate"
    BY <1>1 DEF Service!Memory
  <2>2. \/ process' = [process EXCEPT ![p] = [m EXCEPT !.pc = "evaluate"]]
        \/ process' = [process EXCEPT ![p] = Service!Idle]
    BY <1>1 DEF Service!Admit, Service!Continue, Service!Stop
  <2>. QED  BY <2>1, <2>2, IdleProcess
<1>7. /\ process' \in [Processes -> Service!Memory]
      /\ \A q \in Processes : process'[q] = IF q = p THEN moved ELSE process[q]
  BY <1>1, <1>6
<1>8. ServiceTyped'
  <2>1. root' \in Root /\ accepted' \subseteq DOMAIN observations'
    BY <1>1, <1>2, <1>3, <1>4 DEF Root
  <2>. QED  BY <1>1, <1>2, <1>7, <2>1 DEF ServiceTyped
<1>9. RevisionCounts'
  <2>1. Cardinality(accepted) = 0 /\ Cardinality(accepted') = 1
    BY <1>4, FS_EmptySet, FS_Singleton
  <2>2. Cardinality({launch} \ {0}) \in Nat
    <3>1. {launch} \ {0} = {launch}
      BY <1>5
    <3>2. Cardinality({launch}) = 1
      BY FS_Singleton
    <3>. QED  BY <3>1, <3>2
  <2>3. Len(observations) \in Nat /\ Len(evaluations) \in Nat
    BY <1>1
  <2>4. root.revision = Cardinality({launch} \ {0}) + Len(observations) + 0 + Len(evaluations)
    BY <1>1, <2>1 DEF RevisionCounts
  <2>5. /\ launch' = launch /\ observations' = observations /\ evaluations' = evaluations
        /\ root'.revision = root.revision + 1
    BY <1>2
  <2>6. root'.revision = Cardinality({launch} \ {0}) + Len(observations) + 1 + Len(evaluations)
    BY <2>2, <2>3, <2>4, <2>5
  <2>. QED  BY <2>1, <2>5, <2>6 DEF RevisionCounts
<1>10. \A q \in Processes : ~Runs(q)'
  BY <1>5, <1>6, <1>7 DEF Runs
<1>11. LaunchInv'
  <2>1. \A q \in Processes : Reviews(q)' => process'[q].observation \in DOMAIN observations'
    BY <1>1, <1>2, <1>6, <1>7 DEF LaunchInv, Reviews
  <2>2. \A q \in Processes : process'[q].pc # "spawn"
    BY <1>10 DEF Runs
  <2>3. accepted' # {} /\ root'.attempt = "finished" /\ launch' # 0
    BY <1>2, <1>4, <1>5
  <2>4. /\ Len(spawned') <= 1 /\ \A i \in DOMAIN spawned' : spawned'[i] = launch'
        /\ Len(observations') <= 1
        /\ \A i \in DOMAIN observations' : observations'[i].directory = launch'
    BY <1>1, <1>2 DEF LaunchInv
  <2>. QED  BY <1>10, <2>1, <2>2, <2>3, <2>4 DEF LaunchInv
<1>12. DirectoryInv'
  <2>1. \A q \in Processes :
           (process'[q].pc = "launch" <=> process[q].pc = "launch")
             /\ (process[q].pc = "launch" => process'[q] = process[q])
    BY <1>2, <1>6, <1>7
  <2>. QED  BY <1>1, <1>2, <2>1 DEF DirectoryInv
<1>13. EvaluationInv'
  <2>1. root'.revision = root.revision + 1 /\ moved.pc # "evaluating"
    BY <1>2, <1>6
  <2>2. \A q \in Processes :
           process'[q].pc = "evaluating" =>
              /\ process'[q].revision <= root'.revision
              /\ process'[q].revision # root'.revision
    BY <1>7, <2>1, OlderEvaluationsAreFenced
  <2>3. accepted' # {}
    BY <1>4
  <2>. QED  BY <1>1, <1>2, <2>2, <2>3
            DEF EvaluationInv, EvaluationsNeverRegress, Service!EvaluationsNeverRegress
<1>14. RetentionInv'
  BY <1>2, <1>5, <1>10 DEF RetentionInv, Runs
<1>. QED  BY <1>8, <1>9, <1>11, <1>12, <1>13, <1>14 DEF ServiceInv

LEMMA StoreEvaluationStep ==
    ASSUME ServiceInv, NEW p \in Processes, Service!StoreEvaluation(p)
    PROVE  ServiceInv'
<1>. DEFINE m == process[p]
<1>1. /\ ServiceTyped /\ RevisionCounts
      /\ LaunchInv /\ DirectoryInv /\ EvaluationInv /\ RetentionInv
      /\ process \in [Processes -> Service!Memory] /\ m \in Service!Memory
      /\ root \in Root /\ root.revision \in Nat /\ launch \in Nat
      /\ observations \in Seq(Observation) /\ evaluations \in Seq(BOOLEAN)
      /\ accepted \subseteq DOMAIN observations
  BY DEF ServiceInv, ServiceTyped, Root
<1>2. /\ m.pc = "evaluating" /\ m.revision = root.revision
      /\ evaluations' = Append(evaluations, m.admitted)
      /\ overtaken' = (overtaken \/ \E q \in Processes : process[q].pc = "append")
      /\ root' = [revision |-> root.revision + 1, attempt |-> root.attempt]
      /\ process' = [process EXCEPT ![p] = Service!Idle]
      /\ UNCHANGED <<faults, subject, leased, launch, observations, accepted, directories,
                     made, spawned>>
  BY DEF Service!StoreEvaluation, Service!EvaluatesCurrent, Service!Fenced, Service!Bumped,
         Service!Stop
<1>3. m.admitted \in BOOLEAN
  BY <1>1 DEF Service!Memory
<1>4. m.admitted => accepted # {}
  BY <1>1, <1>2 DEF EvaluationInv
<1>5. accepted # {} => m.admitted
  BY <1>1, <1>2 DEF EvaluationInv
<1>6. /\ process' \in [Processes -> Service!Memory]
      /\ \A q \in Processes : process'[q] = IF q = p THEN Service!Idle ELSE process[q]
      /\ Service!Idle.pc = "idle" /\ Service!Idle \in Service!Memory
  BY <1>1, <1>2, IdleProcess
<1>7. /\ evaluations' \in Seq(BOOLEAN) /\ Len(evaluations') = Len(evaluations) + 1
      /\ \A i \in DOMAIN evaluations' :
            evaluations'[i] = IF i = Len(evaluations) + 1 THEN m.admitted ELSE evaluations[i]
      /\ DOMAIN evaluations' = 1 .. Len(evaluations) + 1 /\ Len(evaluations) \in Nat
      /\ DOMAIN evaluations = 1 .. Len(evaluations)
      /\ evaluations' # <<>>
  BY <1>1, <1>2, <1>3
<1>8. ServiceTyped'
  <2>1. root' \in Root
    BY <1>1, <1>2 DEF Root
  <2>. QED  BY <1>1, <1>2, <1>6, <1>7, <2>1 DEF ServiceTyped
<1>9. RevisionCounts'
  <2>1. Cardinality({launch} \ {0}) \in Nat /\ Cardinality(accepted) \in Nat
    <3>1. IsFiniteSet({launch} \ {0})
      BY FS_Singleton, FS_Subset, {launch} \ {0} \subseteq {launch}
    <3>2. IsFiniteSet(accepted)
      <4>1. DOMAIN observations = 1 .. Len(observations) /\ Len(observations) \in Nat
        BY <1>1
      <4>2. IsFiniteSet(1 .. Len(observations))
        BY <4>1, FS_Interval
      <4>. QED  BY <1>1, <4>1, <4>2, FS_Subset
    <3>. QED  BY <3>1, <3>2, FS_CardinalityType
  <2>2. Len(observations) \in Nat
    BY <1>1
  <2>3. /\ launch' = launch /\ observations' = observations /\ accepted' = accepted
        /\ root'.revision = root.revision + 1
    BY <1>2
  <2>4. root.revision = Cardinality({launch} \ {0}) + Len(observations) + Cardinality(accepted)
                        + Len(evaluations)
    BY <1>1 DEF RevisionCounts
  <2>5. root'.revision = Cardinality({launch} \ {0}) + Len(observations) + Cardinality(accepted)
                         + (Len(evaluations) + 1)
    <3>1. \A a, b, c, d \in Nat : (a + b + c + d) + 1 = a + b + c + (d + 1)
      OBVIOUS
    <3>2. Len(evaluations) \in Nat
      BY <1>1
    <3>. QED  BY <2>1, <2>2, <2>3, <2>4, <3>1, <3>2
  <2>. QED  BY <1>7, <2>3, <2>5 DEF RevisionCounts
<1>10. LaunchInv'
  <2>1. \A q \in Processes :
           /\ Runs(q)' => Runs(q) /\ process'[q] = process[q]
           /\ Reviews(q)' => Reviews(q) /\ process'[q] = process[q]
           /\ process'[q].pc = "spawn" => process[q].pc = "spawn"
    BY <1>6 DEF Runs, Reviews
  <2>2. root'.attempt = root.attempt
    BY <1>2
  <2>. QED  BY <1>1, <1>2, <2>1, <2>2 DEF LaunchInv
<1>11. DirectoryInv'
  <2>1. \A q \in Processes :
           (process'[q].pc = "launch" <=> process[q].pc = "launch")
             /\ (process[q].pc = "launch" => process'[q] = process[q])
    BY <1>2, <1>6
  <2>. QED  BY <1>1, <1>2, <2>1 DEF DirectoryInv
<1>12. EvaluationInv'
  <2>1. root'.revision = root.revision + 1
    BY <1>2
  <2>2. \A q \in Processes :
           process'[q].pc = "evaluating" =>
              /\ process'[q].revision <= root'.revision
              /\ process'[q].revision # root'.revision
    BY <1>6, <2>1, OlderEvaluationsAreFenced
  <2>3. ASSUME NEW i \in DOMAIN evaluations', evaluations'[i] PROVE accepted' # {}
    <3>1. CASE i = Len(evaluations) + 1
      BY <1>2, <1>4, <1>7, <2>3, <3>1
    <3>2. CASE i # Len(evaluations) + 1
      BY <1>1, <1>2, <1>7, <2>3, <3>2 DEF EvaluationInv
    <3>. QED  BY <3>1, <3>2
  <2>4. ASSUME NEW i \in DOMAIN evaluations', NEW j \in DOMAIN evaluations', i < j,
               evaluations'[i]
        PROVE  evaluations'[j]
    <3>1. CASE j = Len(evaluations) + 1
      BY <1>2, <1>5, <1>7, <2>3, <2>4, <3>1
    <3>2. CASE j # Len(evaluations) + 1
      <4>1. /\ i \in DOMAIN evaluations /\ j \in DOMAIN evaluations
            /\ evaluations'[i] = evaluations[i] /\ evaluations'[j] = evaluations[j]
        <5>1. i \in 1 .. Len(evaluations) + 1 /\ j \in 1 .. Len(evaluations) + 1
          BY <1>7
        <5>2. i \in 1 .. Len(evaluations) /\ j \in 1 .. Len(evaluations)
          BY <1>7, <2>4, <3>2, <5>1
        <5>. QED  BY <1>7, <5>2
      <4>. QED  BY <1>1, <2>4, <4>1
                DEF EvaluationInv, EvaluationsNeverRegress, Service!EvaluationsNeverRegress
    <3>. QED  BY <3>1, <3>2
  <2>5. EvaluationsNeverRegress'
    BY <2>4 DEF EvaluationsNeverRegress, Service!EvaluationsNeverRegress
  <2>. QED  BY <2>2, <2>3, <2>5 DEF EvaluationInv
<1>13. RetentionInv'
  <2>1. \A q \in Processes :
          /\ process'[q].pc \in {"retain", "append"} => process'[q] = process[q]
          /\ Answering(q) => Answering(q)'
    BY <1>2, <1>6 DEF Answering
  <2>2. ~overtaken' => ~overtaken /\ \A q \in Processes : process'[q].pc # "append"
    BY <1>2, <1>6
  <2>3. \A q \in Processes :
          process'[q].pc \in {"retain", "append"} => process'[q].response.status # "none"
    BY <1>1, <2>1 DEF RetentionInv
  <2>4. ASSUME faults' = {}, ~overtaken', spawned' # <<>>
        PROVE  observations' # <<>> \/ \E q \in Processes : Answering(q)'
    <3>1. observations # <<>> \/ \E q \in Processes : Answering(q)
      BY <1>1, <1>2, <2>2, <2>4 DEF RetentionInv
    <3>. QED  BY <1>2, <2>1, <3>1
  <2>. QED  BY <2>2, <2>3, <2>4 DEF RetentionInv
<1>. QED  BY <1>8, <1>9, <1>10, <1>11, <1>12, <1>13 DEF ServiceInv
-----------------------------------------------------------------------------
LEMMA ServiceNext == ServiceInv /\ [Service!Next]_(Service!vars) => ServiceInv'
<1>. SUFFICES ASSUME ServiceInv, [Service!Next]_(Service!vars) PROVE ServiceInv'
  OBVIOUS
<1>1. ASSUME UNCHANGED <<faults, Service!state, directories, made, spawned, process>>,
             subject' \in Nat, leased' \in BOOLEAN
      PROVE  ServiceInv'
  <2>. USE <1>1 DEF ServiceInv, Service!state
  <2>1. ServiceTyped'
    BY DEF ServiceTyped
  <2>2. RevisionCounts' /\ RetentionInv'
    BY DEF RevisionCounts, RetentionInv, Answering
  <2>3. LaunchInv' /\ DirectoryInv'
    BY DEF LaunchInv, DirectoryInv, Runs, Reviews
  <2>4. EvaluationInv'
    BY DEF EvaluationInv, EvaluationsNeverRegress, Service!EvaluationsNeverRegress
  <2>. QED  BY <2>1, <2>2, <2>3, <2>4
<1>2. subject \in Nat /\ leased \in BOOLEAN
  BY DEF ServiceInv, ServiceTyped
<1>3. CASE Service!ChangeWorkspace
  BY <1>1, <1>2, <1>3 DEF Service!ChangeWorkspace
<1>4. CASE Service!ExpireLease
  BY <1>1, <1>2, <1>4 DEF Service!ExpireLease
<1>5. CASE UNCHANGED Service!vars
  BY <1>1, <1>2, <1>5 DEF Service!vars
<1>6. ASSUME NEW p \in Processes,
             Service!Run(p) \/ Service!Admission(p) \/ Service!Evaluation(p) \/ Service!Crash(p)
      PROVE  ServiceInv'
  BY <1>6, ProcessSteps, StartRunStep, LaunchStep, FailToLaunchStep, RetainStep, AdmitStep,
     StoreEvaluationStep
     DEF Service!Run, Service!Admission, Service!Evaluation
<1>. QED  BY <1>3, <1>4, <1>5, <1>6 DEF Service!Next

\* Both layers: each step is one of the one layer, and leaves the other alone.
LayersInv == StateInv /\ ServiceInv

LEMMA LayersInvHolds == LayersSpec => []LayersInv
<1>1. LayersInit => LayersInv
  BY StateInit, ServiceInit DEF LayersInit, LayersInv
<1>2. LayersInv /\ [LayersNext]_layersVars => LayersInv'
  <2>. SUFFICES ASSUME LayersInv, [LayersNext]_layersVars PROVE LayersInv'
    OBVIOUS
  <2>1. [Next]_vars
    BY DEF LayersNext, layersVars
  <2>2. [Service!Next]_(Service!vars)
    BY DEF LayersNext, layersVars, serviceOnly, Service!vars, Service!state
  <2>. QED  BY <2>1, <2>2, StateNext, ServiceNext DEF LayersInv
<1>. QED  BY <1>1, <1>2, PTL DEF LayersSpec

\* Both layers keep their variables in shape, and a revision of the service's root
\* is one commit: the launch, an observation, an admission or an evaluation.
THEOREM LayersTypeCorrect == LayersSpec => []LayersTypeOK
<1>1. LayersInv => LayersTypeOK
  BY TypeOKIsTyped DEF LayersInv, StateInv, ServiceInv, LayersTypeOK
<1>. QED  BY <1>1, LayersInvHolds, PTL

\* However many processes race, die and lose the answers of their commits, one
\* executor process is spawned at most, where the durable launch intent says.
THEOREM LaunchHappensOnce == LayersSpec => []LaunchedOnce
<1>1. LayersInv => LaunchedOnce
  BY DEF LayersInv, ServiceInv, LaunchInv, LaunchedOnce, Service!LaunchedOnce
<1>. QED  BY <1>1, LayersInvHolds, PTL

\* The directory of a launch is there for good; refused runs clean up theirs.
THEOREM DirectoriesMatchLaunch == LayersSpec => []OutputDirectoriesMatchLaunch
<1>1. LayersInv => OutputDirectoriesMatchLaunch
  BY DEF LayersInv, ServiceInv, DirectoryInv, OutputDirectoriesMatchLaunch,
         Service!OutputDirectoriesMatchLaunch, Service!NoDirectory
<1>. QED  BY <1>1, LayersInvHolds, PTL

\* The fence keeps evaluations in the order of what they saw.
THEOREM EvaluationsKeepOrder == LayersSpec => []EvaluationsNeverRegress
<1>1. LayersInv => EvaluationsNeverRegress
  BY DEF LayersInv, ServiceInv, EvaluationInv
<1>. QED  BY <1>1, LayersInvHolds, PTL

\* Without faults an executor's answer is retained, whatever else the processes do,
\* unless an evaluation was stored between the run's read of the root and its write:
\* that is the only commit that can throw the answer of a launch away.
THEOREM ResponsesAreLostOnlyIfOvertaken == LayersSpec => []OnlyOvertakenResponsesAreLost
<1>1. LayersInv => OnlyOvertakenResponsesAreLost
  <2>. SUFFICES ASSUME LayersInv, ~overtaken, faults = {}, NEW i \in DOMAIN spawned
                PROVE  Service!ResponseIsKept(spawned[i])
    BY DEF OnlyOvertakenResponsesAreLost, Service!OnlyOvertakenResponsesAreLost,
           Service!ResponsesAreRetained
  <2>1. /\ LaunchInv /\ RetentionInv /\ spawned[i] = launch /\ spawned # <<>>
        /\ observations \in Seq(Observation)
    BY DEF LayersInv, ServiceInv, ServiceTyped, LaunchInv
  <2>2. CASE observations # <<>>
    <3>1. 1 \in DOMAIN observations
      BY <2>1, <2>2
    <3>. QED  BY <2>1, <3>1 DEF LaunchInv, Service!ResponseIsKept
  <2>3. CASE \E p \in Processes : Answering(p)
    BY <2>1, <2>3 DEF LaunchInv, Runs, Answering, Service!ResponseIsKept
  <2>. QED  BY <2>1, <2>2, <2>3 DEF RetentionInv
<1>. QED  BY <1>1, LayersInvHolds, PTL
=============================================================================
