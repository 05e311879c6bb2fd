-------------------------- MODULE ReviewIntakeProofs --------------------------
(***************************************************************************)
(* Proofs about ReviewIntake, for every set of runs of the sensor, every   *)
(* page size and every bound: what a signed snapshot says held while it    *)
(* was collected, and, while runs of the job do not overlap, no snapshot   *)
(* imported later hides what an earlier one shows.                         *)
(***************************************************************************)
EXTENDS ReviewIntake, SignedImportProofs

PullRequests == [facts : Facts, reviews : Seq(BOOLEAN), threads : Seq(BOOLEAN)]
Run == [pc : {"idle", "reviews", "threads", "collected", "signed", "failed"},
        observed : Nat, metadata : Facts \cup {NoFacts}, cursor : Nat, seen : SUBSET Nat,
        approvals : SUBSET Nat, blocking : SUBSET Nat, read : SUBSET Nat]

SensorTyped ==
    /\ past \in Seq(PullRequests) /\ past # <<>>
    /\ collector \in [Collectors -> Run]

\* Threads are added and never taken away.
ThreadsStay ==
    \A k, l \in DOMAIN past : k <= l => Len(past[k].threads) <= Len(past[l].threads)

\* The runs that have begun and not failed.
UnderWay(c) == collector[c].pc \in {"reviews", "threads", "collected", "signed"}

Standing(c, i) == \A k \in During(c) : Unsettled(i, k)

\* What a run has seen so far held between its observed_at and its last query, under
\* the facts it names.
SeenHeld(c) ==
    /\ collector[c].observed \in 1 .. Now
    /\ collector[c].read \subseteq collector[c].observed .. Now
    /\ collector[c].metadata = NoFacts => collector[c].read = {}
    /\ \A k \in collector[c].read : past[k].facts = collector[c].metadata
    /\ \A i \in collector[c].approvals : \E k \in During(c) : Item("reviews", i, k)
    /\ \A i \in collector[c].blocking : \E k \in During(c) : Unsettled(i, k)

\* Of the threads on the pages read so far, those that stand are in the snapshot.
StandingSeen(c) ==
    /\ collector[c].pc = "threads" =>
          \A i \in 1 .. collector[c].cursor : Standing(c, i) => i \in collector[c].blocking
    /\ collector[c].pc \in {"collected", "signed"} =>
          \A i \in Nat : Standing(c, i) => i \in collector[c].blocking

IdleIsBlank(c) ==
    collector[c].pc = "idle" =>
        /\ collector[c].read = {} /\ collector[c].approvals = {} /\ collector[c].blocking = {}

\* Runs that do not overlap: what begins later begins after the last query.
OneAfterAnother ==
    ~Overlap =>
        \A c, d \in Collectors :
            UnderWay(c) /\ UnderWay(d) /\ c # d
              /\ collector[c].observed <= collector[d].observed
            => /\ collector[c].pc \notin Connections
               /\ \A k \in collector[c].read : k <= collector[d].observed

SensorInv ==
    /\ SensorTyped
    /\ ThreadsStay
    /\ \A c \in Collectors : UnderWay(c) => SeenHeld(c) /\ StandingSeen(c)
    /\ \A c \in Collectors : IdleIsBlank(c)
    /\ OneAfterAnother

LEMMA IdleRun == Idle \in Run /\ Idle.pc = "idle"
BY DEF Idle, Run

LEMMA SensorInitial == SensorInit => SensorInv
<1>. SUFFICES ASSUME SensorInit PROVE SensorInv
  OBVIOUS
<1>1. PICK reviews \in {<<>>, <<TRUE>>}, threads \in {<<>>, <<FALSE, TRUE>>} :
         past = <<[Untouched EXCEPT !.reviews = reviews, !.threads = threads]>>
  BY DEF SensorInit
<1>2. reviews \in Seq(BOOLEAN) /\ threads \in Seq(BOOLEAN)
  <2>1. <<>> \in Seq(BOOLEAN)
    OBVIOUS
  <2>2. \A a, b \in BOOLEAN : <<a>> \in Seq(BOOLEAN) /\ <<a, b>> \in Seq(BOOLEAN)
    OBVIOUS
  <2>3. TRUE \in BOOLEAN /\ FALSE \in BOOLEAN
    OBVIOUS
  <2>. QED  BY <2>1, <2>2, <2>3
<1>3. [Untouched EXCEPT !.reviews = reviews, !.threads = threads] \in PullRequests
  BY <1>2, SensorAssumption DEF PullRequests, Untouched
<1>4. past \in Seq(PullRequests) /\ past # <<>> /\ Len(past) = 1
  BY <1>1, <1>3
<1>5. collector = [c \in Collectors |-> Idle]
  BY DEF SensorInit
<1>6. collector \in [Collectors -> Run] /\ \A c \in Collectors : collector[c].pc = "idle"
  BY <1>5, IdleRun
<1>7. ThreadsStay
  <2>1. DOMAIN past = {1}
    BY <1>4
  <2>2. past[1].threads = threads /\ Len(threads) \in Nat
    BY <1>1, <1>2 DEF Untouched
  <2>. QED  BY <2>1, <2>2 DEF ThreadsStay
<1>8. \A c \in Collectors : IdleIsBlank(c)
  BY <1>5 DEF IdleIsBlank, Idle
<1>. QED  BY <1>4, <1>6, <1>7, <1>8 DEF SensorInv, SensorTyped, UnderWay, OneAfterAnother
-----------------------------------------------------------------------------
\* The history only grows, and what is known of a run stays so.
Grows ==
    /\ past \in Seq(PullRequests) /\ past' \in Seq(PullRequests) /\ Now <= Now'
    /\ \A k \in DOMAIN past : past'[k] = past[k]

LEMMA Appended ==
    ASSUME SensorTyped, NEW pullRequest \in PullRequests, past' = Append(past, pullRequest)
    PROVE  /\ Grows /\ past' # <<>> /\ Now' = Now + 1 /\ past'[Now'] = pullRequest
           /\ DOMAIN past' = 1 .. Now + 1 /\ DOMAIN past = 1 .. Now /\ Now \in Nat \ {0}
<1>1. past \in Seq(PullRequests) /\ past # <<>>
  BY DEF SensorTyped
<1>2. Len(past) \in Nat \ {0}
  BY <1>1
<1>. QED  BY <1>1, <1>2 DEF Grows, Now

LEMMA RunsStay ==
    ASSUME NEW c \in Collectors, collector \in [Collectors -> Run],
           SeenHeld(c), StandingSeen(c), Grows,
           collector'[c].pc = collector[c].pc
             \/ (collector[c].pc = "collected" /\ collector'[c].pc = "signed"),
           collector'[c].observed = collector[c].observed, collector'[c].read = collector[c].read,
           collector'[c].metadata = collector[c].metadata,
           collector'[c].approvals = collector[c].approvals,
           collector'[c].blocking = collector[c].blocking,
           collector'[c].cursor = collector[c].cursor
    PROVE  SeenHeld(c)' /\ StandingSeen(c)'
<1>1. Now \in Nat /\ Now' \in Nat /\ Now <= Now' /\ DOMAIN past = 1 .. Now
      /\ DOMAIN past' = 1 .. Now'
  BY DEF Grows, Now
<1>2. collector[c].observed \in 1 .. Now /\ collector[c].read \subseteq collector[c].observed .. Now
  BY DEF SeenHeld
<1>3. During(c)' = During(c) /\ During(c) \subseteq DOMAIN past
  BY <1>1, <1>2 DEF During
<1>4. \A k \in DOMAIN past : past'[k] = past[k]
  BY DEF Grows
<1>5. \A i : \A k \in During(c) :
         /\ Unsettled(i, k)' <=> Unsettled(i, k)
         /\ Item("reviews", i, k)' <=> Item("reviews", i, k)
  BY <1>3, <1>4 DEF Unsettled, Item
<1>6. SeenHeld(c)'
  <2>1. collector'[c].read \subseteq DOMAIN past
    BY <1>1, <1>2
  <2>. QED  BY <1>1, <1>2, <1>3, <1>4, <1>5, <2>1 DEF SeenHeld
<1>7. \A i : Standing(c, i)' <=> Standing(c, i)
  BY <1>3, <1>5 DEF Standing
<1>. QED  BY <1>6, <1>7 DEF StandingSeen

LEMMA ThreadsStayStep ==
    ASSUME SensorTyped, ThreadsStay, NEW pullRequest \in PullRequests,
           past' = Append(past, pullRequest),
           Len(pullRequest.threads) >= Len(PullRequest.threads)
    PROVE  ThreadsStay'
<1>1. /\ Grows /\ Now' = Now + 1 /\ past'[Now'] = pullRequest
      /\ DOMAIN past' = 1 .. Now + 1 /\ DOMAIN past = 1 .. Now /\ Now \in Nat \ {0}
  BY Appended
<1>2. ASSUME NEW k \in DOMAIN past', NEW l \in DOMAIN past', k <= l
      PROVE  Len(past'[k].threads) <= Len(past'[l].threads)
  <2>1. CASE l \in 1 .. Now
    <3>1. k \in 1 .. Now
      BY <1>1, <1>2, <2>1
    <3>. QED  BY <1>1, <1>2, <2>1, <3>1 DEF Grows, ThreadsStay
  <2>2. CASE l = Now + 1 /\ k \in 1 .. Now
    <3>1. Len(past[k].threads) <= Len(past[Now].threads)
      BY <1>1, <2>2 DEF ThreadsStay
    <3>2. past'[k] = past[k] /\ past'[l] = pullRequest
      BY <1>1, <2>2 DEF Grows
    <3>3. /\ past[k].threads \in Seq(BOOLEAN) /\ past[Now].threads \in Seq(BOOLEAN)
          /\ pullRequest.threads \in Seq(BOOLEAN)
      <4>1. past[k] \in PullRequests /\ past[Now] \in PullRequests
        BY <1>1, <2>2 DEF SensorTyped
      <4>. QED  BY <4>1 DEF PullRequests
    <3>4. /\ Len(past[k].threads) \in Nat /\ Len(past[Now].threads) \in Nat
          /\ Len(pullRequest.threads) \in Nat
      BY <3>3
    <3>. QED  BY <3>1, <3>2, <3>4 DEF PullRequest
  <2>3. CASE l = Now + 1 /\ k = Now + 1
    <3>1. past'[l] = pullRequest /\ past'[k] = pullRequest
      BY <1>1, <2>3
    <3>2. Len(pullRequest.threads) \in Nat
      BY DEF PullRequests
    <3>. QED  BY <3>1, <3>2
  <2>. QED  BY <1>1, <2>1, <2>2, <2>3
<1>. QED  BY <1>2 DEF ThreadsStay

\* A step that ends no run but by failing, or signs what was collected.
LEMMA QuietStep ==
    ASSUME SensorInv, Grows, past' # <<>>, ThreadsStay',
           collector' \in [Collectors -> Run],
           \A c \in Collectors :
              \/ collector'[c].pc = "failed"
              \/ collector'[c] = collector[c]
              \/ collector[c].pc = "collected" /\ collector'[c] = [collector[c] EXCEPT !.pc = "signed"]
    PROVE  SensorInv'
<1>1. SensorTyped'
  BY DEF SensorTyped, Grows
<1>2. collector \in [Collectors -> Run]
  BY DEF SensorInv, SensorTyped
<1>3. ASSUME NEW c \in Collectors, UnderWay(c)'
      PROVE  /\ UnderWay(c)
             /\ \/ collector'[c].pc = collector[c].pc
                \/ collector[c].pc = "collected" /\ collector'[c].pc = "signed"
             /\ collector'[c].observed = collector[c].observed
             /\ collector'[c].read = collector[c].read
             /\ collector'[c].metadata = collector[c].metadata
             /\ collector'[c].approvals = collector[c].approvals
             /\ collector'[c].blocking = collector[c].blocking
             /\ collector'[c].cursor = collector[c].cursor
  BY <1>2, <1>3 DEF UnderWay, Run
<1>4. ASSUME NEW c \in Collectors, UnderWay(c)' PROVE SeenHeld(c)' /\ StandingSeen(c)'
  <2>1. SeenHeld(c) /\ StandingSeen(c)
    BY <1>3, <1>4 DEF SensorInv
  <2>. QED  BY <1>2, <1>3, <1>4, <2>1, RunsStay
<1>5. OneAfterAnother'
  <2>. SUFFICES ASSUME ~Overlap, NEW c \in Collectors, NEW d \in Collectors,
                       UnderWay(c)', UnderWay(d)', c # d,
                       collector'[c].observed <= collector'[d].observed
                PROVE  /\ collector'[c].pc \notin Connections
                       /\ \A k \in collector'[c].read : k <= collector'[d].observed
    BY DEF OneAfterAnother
  <2>1. /\ collector[c].pc \notin Connections
        /\ \A k \in collector[c].read : k <= collector[d].observed
    BY <1>3 DEF SensorInv, OneAfterAnother
  <2>. QED  BY <1>3, <2>1 DEF Connections
<1>6. \A c \in Collectors : IdleIsBlank(c)'
  <2>1. \A c \in Collectors : [collector[c] EXCEPT !.pc = "signed"].pc = "signed"
    BY <1>2 DEF Run
  <2>. QED  BY <2>1 DEF SensorInv, IdleIsBlank
<1>. QED  BY <1>1, <1>4, <1>5, <1>6 DEF SensorInv

LEMMA NothingHappens ==
    ASSUME SensorInv, UNCHANGED sensorVars
    PROVE  SensorInv'
<1>1. past' = past /\ collector' = collector
  BY DEF sensorVars
<1>2. Grows
  <2>1. past \in Seq(PullRequests) /\ Now \in Nat
    BY DEF SensorInv, SensorTyped, Now
  <2>. QED  BY <1>1, <2>1 DEF Grows, Now
<1>. QED  BY <1>1, <1>2, QuietStep DEF SensorInv, SensorTyped, ThreadsStay

LEMMA FailStep ==
    ASSUME SensorInv, NEW c \in Collectors, Fail(c) \/ Sign(c)
    PROVE  SensorInv'
<1>1. collector \in [Collectors -> Run] /\ past' = past
  BY DEF SensorInv, SensorTyped, Fail, Sign
<1>2. Grows
  <2>1. past \in Seq(PullRequests) /\ Now \in Nat
    BY DEF SensorInv, SensorTyped, Now
  <2>. QED  BY <1>1, <2>1 DEF Grows, Now
<1>3. past' # <<>> /\ ThreadsStay'
  BY <1>1 DEF SensorInv, SensorTyped, ThreadsStay
<1>4. CASE Fail(c)
  <2>1. [Idle EXCEPT !.pc = "failed"] \in Run /\ [Idle EXCEPT !.pc = "failed"].pc = "failed"
    BY IdleRun DEF Run
  <2>. QED  BY <1>1, <1>2, <1>3, <1>4, <2>1, QuietStep DEF Fail
<1>5. CASE Sign(c)
  <2>1. [collector[c] EXCEPT !.pc = "signed"] \in Run
    BY <1>1 DEF Run
  <2>2. /\ collector[c].pc = "collected"
        /\ collector' = [collector EXCEPT ![c] = [collector[c] EXCEPT !.pc = "signed"]]
    BY <1>1, <1>5 DEF Sign
  <2>. QED  BY <1>1, <1>2, <1>3, <2>1, <2>2, QuietStep
<1>. QED  BY <1>4, <1>5

LEMMA ChangeStep ==
    ASSUME SensorInv, NEW pullRequest \in PullRequests, Change(pullRequest),
           Len(pullRequest.threads) >= Len(PullRequest.threads)
    PROVE  SensorInv'
<1>1. past' = Append(past, pullRequest) /\ collector' = collector
  BY DEF Change
<1>2. SensorTyped /\ ThreadsStay /\ collector \in [Collectors -> Run]
  BY DEF SensorInv, SensorTyped
<1>3. Grows /\ past' # <<>> /\ ThreadsStay'
  BY <1>1, <1>2, Appended, ThreadsStayStep
<1>. QED  BY <1>1, <1>2, <1>3, QuietStep

LEMMA PeopleStep ==
    ASSUME SensorInv,
           \/ ChangeFacts
           \/ \E connection \in Connections : AddItem(connection) \/ ChangeItem(connection)
    PROVE  SensorInv'
<1>. DEFINE pr == PullRequest
<1>1. /\ pr \in PullRequests /\ pr.threads \in Seq(BOOLEAN) /\ pr.reviews \in Seq(BOOLEAN)
      /\ Len(pr.threads) \in Nat
  <2>1. past \in Seq(PullRequests) /\ past # <<>>
    BY DEF SensorInv, SensorTyped
  <2>2. Len(past) \in 1 .. Len(past)
    BY <2>1
  <2>3. pr \in PullRequests
    BY <2>1, <2>2 DEF PullRequest, Now
  <2>. QED  BY <2>3 DEF PullRequests
<1>0. pr = PullRequest
  OBVIOUS
<1>. HIDE DEF pr
<1>2. CASE ChangeFacts
  <2>1. PICK facts \in Facts : Change([pr EXCEPT !.facts = facts])
    BY <1>2 DEF ChangeFacts, pr
  <2>2. /\ [pr EXCEPT !.facts = facts] \in PullRequests
        /\ [pr EXCEPT !.facts = facts].threads = pr.threads
    BY <1>1 DEF PullRequests
  <2>3. Len([pr EXCEPT !.facts = facts].threads) >= Len(pr.threads)
    BY <1>1, <2>2
  <2>. QED  BY <1>0, <2>1, <2>2, <2>3, ChangeStep
<1>3. ASSUME NEW connection \in Connections, AddItem(connection) PROVE SensorInv'
  <2>. DEFINE added == Append(pr[connection], connection = "reviews")
  <2>1. Change([pr EXCEPT ![connection] = added])
    BY <1>1, <1>3 DEF AddItem, pr, PullRequests, Connections
  <2>2. CASE connection = "reviews"
    <3>1. added \in Seq(BOOLEAN)
      BY <1>1, <2>2
    <3>. HIDE DEF added
    <3>2. [pr EXCEPT ![connection] = added] = [pr EXCEPT !.reviews = added]
      BY <2>2
    <3>4. Change([pr EXCEPT !.reviews = added])
      BY <2>1, <3>2
    <3>3. /\ [pr EXCEPT !.reviews = added] \in PullRequests
          /\ [pr EXCEPT !.reviews = added].threads = pr.threads
      BY <1>1, <3>1 DEF PullRequests
    <3>5. Len([pr EXCEPT !.reviews = added].threads) >= Len(pr.threads)
      BY <1>1, <3>3
    <3>. QED  BY <1>0, <3>3, <3>4, <3>5, ChangeStep
  <2>3. CASE connection = "threads"
    <3>1. added \in Seq(BOOLEAN) /\ Len(added) >= Len(pr.threads)
      <4>1. pr[connection] = pr.threads
        BY <2>3
      <4>2. (connection = "reviews") \in BOOLEAN
        OBVIOUS
      <4>. QED  BY <1>1, <4>1, <4>2
    <3>. HIDE DEF added
    <3>2. [pr EXCEPT ![connection] = added] = [pr EXCEPT !.threads = added]
      BY <2>3
    <3>4. Change([pr EXCEPT !.threads = added])
      BY <2>1, <3>2
    <3>3. /\ [pr EXCEPT !.threads = added] \in PullRequests
          /\ [pr EXCEPT !.threads = added].threads = added
      BY <1>1, <3>1 DEF PullRequests
    <3>. QED  BY <1>0, <1>1, <3>1, <3>3, <3>4, ChangeStep
  <2>. QED  BY <2>2, <2>3 DEF Connections
<1>4. ASSUME NEW connection \in Connections, ChangeItem(connection) PROVE SensorInv'
  <2>1. PICK i \in DOMAIN pr[connection] :
           Change([pr EXCEPT ![connection] = [pr[connection] EXCEPT ![i] = ~pr[connection][i]]])
    BY <1>1, <1>4 DEF ChangeItem, pr, PullRequests, Connections
  <2>. DEFINE changed == [pr[connection] EXCEPT ![i] = ~pr[connection][i]]
  <2>2. CASE connection = "reviews"
    <3>1. changed \in Seq(BOOLEAN)
      BY <1>1, <2>2
    <3>. HIDE DEF changed
    <3>2. [pr EXCEPT ![connection] = changed] = [pr EXCEPT !.reviews = changed]
      BY <2>2
    <3>4. Change([pr EXCEPT !.reviews = changed])
      BY <2>1, <3>2 DEF changed
    <3>3. /\ [pr EXCEPT !.reviews = changed] \in PullRequests
          /\ [pr EXCEPT !.reviews = changed].threads = pr.threads
      BY <1>1, <3>1 DEF PullRequests
    <3>5. Len([pr EXCEPT !.reviews = changed].threads) >= Len(pr.threads)
      BY <1>1, <3>3
    <3>. QED  BY <1>0, <3>3, <3>4, <3>5, ChangeStep
  <2>3. CASE connection = "threads"
    <3>1. changed \in Seq(BOOLEAN) /\ Len(changed) >= Len(pr.threads)
      <4>1. pr[connection] = pr.threads
        BY <2>3
      <4>. QED  BY <1>1, <4>1
    <3>. HIDE DEF changed
    <3>2. [pr EXCEPT ![connection] = changed] = [pr EXCEPT !.threads = changed]
      BY <2>3
    <3>4. Change([pr EXCEPT !.threads = changed])
      BY <2>1, <3>2 DEF changed
    <3>3. /\ [pr EXCEPT !.threads = changed] \in PullRequests
          /\ [pr EXCEPT !.threads = changed].threads = changed
      BY <1>1, <3>1 DEF PullRequests
    <3>. QED  BY <1>0, <1>1, <3>1, <3>3, <3>4, ChangeStep
  <2>. QED  BY <2>2, <2>3 DEF Connections
<1>. QED  BY <1>2, <1>3, <1>4
-----------------------------------------------------------------------------
\* The steps of a run.

LEMMA StartCollectionStep ==
    ASSUME SensorInv, NEW c \in Collectors, StartCollection(c)
    PROVE  SensorInv'
<1>1. /\ SensorTyped /\ ThreadsStay /\ collector \in [Collectors -> Run]
      /\ past \in Seq(PullRequests) /\ past # <<>>
  BY DEF SensorInv, SensorTyped
<1>2. PullRequest \in PullRequests /\ Len(PullRequest.threads) \in Nat
  <2>1. Len(past) \in 1 .. Len(past)
    BY <1>1
  <2>2. PullRequest \in PullRequests
    BY <1>1, <2>1 DEF PullRequest, Now
  <2>. QED  BY <2>2 DEF PullRequests
<1>3. past' = Append(past, PullRequest)
  BY DEF StartCollection
<1>4. /\ Grows /\ past' # <<>> /\ Now' = Now + 1 /\ DOMAIN past = 1 .. Now /\ Now \in Nat \ {0}
  BY <1>1, <1>2, <1>3, Appended
<1>5. ThreadsStay'
  <2>1. Len(PullRequest.threads) >= Len(PullRequest.threads)
    BY <1>2
  <2>. QED  BY <1>1, <1>2, <1>3, <2>1, ThreadsStayStep
<1>. DEFINE moved == [collector[c] EXCEPT !.pc = "reviews", !.observed = Now + 1]
<1>6. collector' = [collector EXCEPT ![c] = moved] /\ collector[c].pc = "idle"
  BY <1>1 DEF StartCollection
<1>7. moved \in Run /\ moved.pc = "reviews" /\ moved.observed = Now + 1
      /\ moved.read = collector[c].read /\ moved.approvals = collector[c].approvals
      /\ moved.blocking = collector[c].blocking
  <2>1. ASSUME NEW r \in Run, NEW n \in Nat
        PROVE  [r EXCEPT !.pc = "reviews", !.observed = n] \in Run
    BY DEF Run
  <2>2. ASSUME NEW r \in Run, NEW n \in Nat
        PROVE  LET s == [r EXCEPT !.pc = "reviews", !.observed = n]
               IN  /\ s.pc = "reviews" /\ s.observed = n /\ s.read = r.read
                   /\ s.approvals = r.approvals /\ s.blocking = r.blocking
    BY DEF Run
  <2>3. collector[c] \in Run /\ Now + 1 \in Nat
    BY <1>1, <1>4
  <2>. QED  BY <2>1, <2>2, <2>3
<1>. HIDE DEF moved
<1>8. collector' \in [Collectors -> Run] /\ \A d \in Collectors :
         collector'[d] = IF d = c THEN moved ELSE collector[d]
  BY <1>1, <1>6, <1>7
<1>9. SensorTyped'
  BY <1>4, <1>8 DEF SensorTyped, Grows
<1>10. ASSUME NEW d \in Collectors, UnderWay(d)' PROVE SeenHeld(d)' /\ StandingSeen(d)'
  <2>1. CASE d = c
    <3>1. moved.read = {} /\ moved.approvals = {} /\ moved.blocking = {}
      BY <1>6, <1>7 DEF SensorInv, IdleIsBlank
    <3>2. collector'[d] = moved
      BY <1>8, <2>1
    <3>. QED  BY <1>4, <1>7, <3>1, <3>2 DEF SeenHeld, StandingSeen
  <2>2. CASE d # c
    <3>1. collector'[d] = collector[d]
      BY <1>8, <2>2
    <3>2. SeenHeld(d) /\ StandingSeen(d)
      BY <1>10, <3>1 DEF SensorInv, UnderWay
    <3>. QED  BY <1>1, <1>4, <3>1, <3>2, RunsStay
  <2>. QED  BY <2>1, <2>2
<1>11. OneAfterAnother'
  <2>. SUFFICES ASSUME ~Overlap, NEW d \in Collectors, NEW e \in Collectors,
                       UnderWay(d)', UnderWay(e)', d # e,
                       collector'[d].observed <= collector'[e].observed
                PROVE  /\ collector'[d].pc \notin Connections
                       /\ \A k \in collector'[d].read : k <= collector'[e].observed
    BY DEF OneAfterAnother
  <2>1. \A f \in Collectors : UnderWay(f) =>
           collector[f].observed \in 1 .. Now /\ collector[f].read \subseteq 1 .. Now
    BY <1>4 DEF SensorInv, SeenHeld
  <2>2. d # c
    BY <1>4, <1>7, <1>8, <2>1 DEF UnderWay
  <2>3. CASE e = c
    <3>1. collector[d].pc \notin Connections /\ UnderWay(d)
      BY <1>8, <2>2 DEF StartCollection, UnderWay
    <3>. QED  BY <1>4, <1>7, <1>8, <2>1, <2>2, <2>3, <3>1
  <2>4. CASE e # c
    <3>1. collector'[d] = collector[d] /\ collector'[e] = collector[e]
      BY <1>8, <2>2, <2>4
    <3>. QED  BY <3>1 DEF SensorInv, OneAfterAnother, UnderWay
  <2>. QED  BY <2>3, <2>4
<1>12. \A d \in Collectors : IdleIsBlank(d)'
  BY <1>7, <1>8 DEF SensorInv, IdleIsBlank
<1>. QED  BY <1>5, <1>9, <1>10, <1>11, <1>12 DEF SensorInv

\* A page adds what GitHub shows at this instant, and says which items it covered.
LEMMA PageRead ==
    ASSUME SensorInv, NEW c \in Collectors, NEW connection \in Connections,
           collector[c].pc = connection, StableMetadata(c),
           NEW nodes, nodes \subseteq Nat,
           connection = "reviews" => nodes \subseteq DOMAIN PullRequest.reviews,
           connection = "threads" => nodes \subseteq DOMAIN PullRequest.threads,
           NEW moved \in Run, collector' = [collector EXCEPT ![c] = moved], past' = past,
           moved.observed = collector[c].observed,
           moved.metadata = PullRequest.facts,
           moved.read = collector[c].read \cup {Now},
           moved.approvals = collector[c].approvals
               \cup {i \in nodes : connection = "reviews" /\ PullRequest.reviews[i]},
           moved.blocking = collector[c].blocking
               \cup {i \in nodes : connection = "threads" /\ ~PullRequest.threads[i]},
           moved.pc \in {"reviews", "threads", "collected"},
           moved.pc = "threads" =>
               \A i \in 1 .. moved.cursor :
                   connection = "threads" /\ (i \in 1 .. collector[c].cursor \/ i \in nodes),
           moved.pc = "collected" =>
               /\ connection = "threads"
               /\ \A i \in DOMAIN PullRequest.threads :
                      i \in 1 .. collector[c].cursor \/ i \in nodes
    PROVE  SensorInv'
<1>1. /\ SensorTyped /\ ThreadsStay /\ collector \in [Collectors -> Run]
      /\ past \in Seq(PullRequests) /\ past # <<>>
      /\ UnderWay(c) /\ SeenHeld(c) /\ StandingSeen(c)
  BY DEF SensorInv, SensorTyped, UnderWay, Connections
<1>2. Now \in Nat \ {0} /\ DOMAIN past = 1 .. Now /\ Now \in 1 .. Now
  BY <1>1 DEF Now
<1>3. Grows
  BY <1>1, <1>2 DEF Grows, Now
<1>4. collector' \in [Collectors -> Run] /\ \A d \in Collectors :
         collector'[d] = IF d = c THEN moved ELSE collector[d]
  BY <1>1
<1>5. SensorTyped' /\ ThreadsStay'
  BY <1>1, <1>4 DEF SensorTyped, ThreadsStay
<1>6. PullRequest = past[Now] /\ past[Now].facts \in Facts /\ Now' = Now
  <2>1. past[Now] \in PullRequests
    BY <1>1, <1>2
  <2>. QED  BY <2>1 DEF PullRequest, PullRequests, Now
<1>7. /\ collector[c].observed \in 1 .. Now
      /\ collector[c].read \subseteq collector[c].observed .. Now
  BY <1>1 DEF SeenHeld
<1>8. During(c) \subseteq During(c)' /\ Now \in During(c)'
      /\ During(c)' \subseteq DOMAIN past
  BY <1>2, <1>4, <1>6, <1>7 DEF During
<1>9. \A i, k : /\ Unsettled(i, k)' <=> Unsettled(i, k)
                /\ Item("reviews", i, k)' <=> Item("reviews", i, k)
  BY DEF Unsettled, Item
<1>10. SeenHeld(c)'
  <2>1. \A i \in moved.approvals : \E k \in During(c)' : Item("reviews", i, k)'
    <3>. SUFFICES ASSUME NEW i \in moved.approvals
                  PROVE  \E k \in During(c)' : Item("reviews", i, k)
      BY <1>9
    <3>1. CASE i \in collector[c].approvals
      BY <1>1, <1>8, <3>1 DEF SeenHeld
    <3>2. CASE i \in nodes /\ connection = "reviews" /\ PullRequest.reviews[i]
      <4>1. Item("reviews", i, Now)
        BY <1>6, <3>2 DEF Item
      <4>. QED  BY <1>8, <4>1
    <3>. QED  BY <3>1, <3>2
  <2>2. \A i \in moved.blocking : \E k \in During(c)' : Unsettled(i, k)'
    <3>. SUFFICES ASSUME NEW i \in moved.blocking
                  PROVE  \E k \in During(c)' : Unsettled(i, k)
      BY <1>9
    <3>1. CASE i \in collector[c].blocking
      BY <1>1, <1>8, <3>1 DEF SeenHeld
    <3>2. CASE i \in nodes /\ connection = "threads" /\ ~PullRequest.threads[i]
      <4>1. Unsettled(i, Now)
        BY <1>6, <3>2 DEF Unsettled
      <4>. QED  BY <1>8, <4>1
    <3>. QED  BY <3>1, <3>2
  <2>3. \A k \in moved.read : past[k].facts = moved.metadata
    <3>1. collector[c].read = {} \/ collector[c].metadata = PullRequest.facts
      BY <1>1 DEF SeenHeld, StableMetadata
    <3>. QED  BY <1>1, <1>6, <3>1 DEF SeenHeld
  <2>4. moved.metadata # NoFacts
    BY <1>6, SensorAssumption
  <2>5. moved.read \subseteq moved.observed .. Now /\ moved.observed \in 1 .. Now
    BY <1>2, <1>7
  <2>6. collector'[c] = moved
    BY <1>4
  <2>. QED  BY <1>6, <2>1, <2>2, <2>3, <2>4, <2>5, <2>6 DEF SeenHeld
<1>11. \A i : Standing(c, i)' => Standing(c, i) /\ Unsettled(i, Now)
  BY <1>8, <1>9 DEF Standing
<1>12. \A i \in nodes : connection = "threads" /\ Unsettled(i, Now) => i \in moved.blocking
  BY <1>6 DEF Unsettled
<1>13. collector[c].blocking \subseteq moved.blocking
  OBVIOUS
<1>14. StandingSeen(c)'
  <2>1. connection = "threads" =>
           \A i \in 1 .. collector[c].cursor : Standing(c, i) => i \in collector[c].blocking
    BY <1>1 DEF StandingSeen
  <2>2. moved.pc = "threads" =>
           \A i \in 1 .. moved.cursor : Standing(c, i)' => i \in moved.blocking
    BY <1>11, <1>12, <1>13, <2>1
  <2>3. ASSUME moved.pc = "collected", NEW i \in Nat, Standing(c, i)'
        PROVE  i \in moved.blocking
    <3>1. Standing(c, i) /\ Unsettled(i, Now)
      BY <1>11, <2>3
    <3>2. i \in DOMAIN PullRequest.threads
      BY <1>6, <3>1 DEF Unsettled
    <3>. QED  BY <1>12, <1>13, <2>1, <2>3, <3>1, <3>2
  <2>4. collector'[c] = moved
    BY <1>4
  <2>. QED  BY <2>2, <2>3, <2>4 DEF StandingSeen
<1>15. ASSUME NEW d \in Collectors, UnderWay(d)' PROVE SeenHeld(d)' /\ StandingSeen(d)'
  <2>1. CASE d = c
    BY <1>10, <1>14, <2>1
  <2>2. CASE d # c
    <3>1. collector'[d] = collector[d]
      BY <1>4, <2>2
    <3>2. SeenHeld(d) /\ StandingSeen(d)
      BY <1>15, <3>1 DEF SensorInv, UnderWay
    <3>. QED  BY <1>1, <1>3, <3>1, <3>2, RunsStay
  <2>. QED  BY <2>1, <2>2
<1>16. OneAfterAnother'
  <2>. SUFFICES ASSUME ~Overlap, NEW d \in Collectors, NEW e \in Collectors,
                       UnderWay(d)', UnderWay(e)', d # e,
                       collector'[d].observed <= collector'[e].observed
                PROVE  /\ collector'[d].pc \notin Connections
                       /\ \A k \in collector'[d].read : k <= collector'[e].observed
    BY DEF OneAfterAnother
  <2>1. UnderWay(d) /\ UnderWay(e) /\ collector[d].observed <= collector[e].observed
    BY <1>1, <1>4 DEF UnderWay
  <2>2. /\ collector[d].pc \notin Connections
        /\ \A k \in collector[d].read : k <= collector[e].observed
    BY <2>1 DEF SensorInv, OneAfterAnother
  <2>3. d # c
    BY <2>2
  <2>. QED  BY <1>4, <2>2, <2>3
<1>17. \A d \in Collectors : IdleIsBlank(d)'
  BY <1>4 DEF SensorInv, IdleIsBlank
<1>. QED  BY <1>5, <1>15, <1>16, <1>17 DEF SensorInv
\* GitHub answers with items of the pull request, and a cursor that leads no further
\* than the items it has shown; when it gives none, it has shown them all.
LEMMA ReplyCovers ==
    ASSUME NEW connection \in Connections, PullRequest[connection] \in Seq(BOOLEAN),
           NEW cursor \in Nat, NEW reply \in Replies(connection, cursor)
    PROVE  /\ reply.nodes \subseteq DOMAIN PullRequest[connection] /\ reply.nodes \subseteq Nat
           /\ reply.next \in Nat
           /\ \A i \in 1 .. reply.next : i \in 1 .. cursor \/ i \in reply.nodes
           /\ reply.next = 0 =>
                 \A i \in DOMAIN PullRequest[connection] : i \in 1 .. cursor \/ i \in reply.nodes
<1>. DEFINE items == PullRequest[connection]
            last == IF cursor + PageSize < Len(items) THEN cursor + PageSize ELSE Len(items)
            nodes == cursor + 1 .. last
            next == IF last < Len(items) THEN last ELSE 0
            page == Page(connection, cursor)
<1>1. page = [nodes |-> nodes, next |-> next]
  BY DEF Page
<1>2. /\ Len(items) \in Nat /\ last \in Nat /\ last <= Len(items) /\ next \in Nat
      /\ DOMAIN items = 1 .. Len(items)
  BY SensorAssumption
<1>3. reply = page \/ (reply.nodes = page.nodes /\ reply.next \in 1 .. cursor)
  BY DEF Replies
<1>4. page.nodes = nodes /\ page.next = next
  BY <1>1
<1>5. nodes \subseteq DOMAIN items /\ nodes \subseteq Nat
  BY <1>2
<1>6. CASE reply = page
  <2>1. \A i \in 1 .. next : i \in 1 .. cursor \/ i \in nodes
    BY <1>2
  <2>2. next = 0 => \A i \in 1 .. Len(items) : i \in 1 .. cursor \/ i \in nodes
    <3>1. last < Len(items) => last # 0
      BY <1>2, SensorAssumption
    <3>2. next = 0 => last = Len(items)
      BY <1>2, <3>1
    <3>. HIDE DEF last, items
    <3>3. last = Len(items) => \A i \in 1 .. Len(items) : i \in 1 .. cursor \/ i \in nodes
      BY <1>2
    <3>. QED  BY <3>2, <3>3
  <2>3. reply.nodes = nodes /\ reply.next = next /\ next \in Nat /\ DOMAIN items = 1 .. Len(items)
    BY <1>2, <1>4, <1>6
  <2>. HIDE DEF nodes, next, page
  <2>. QED  BY <1>5, <2>1, <2>2, <2>3
<1>7. CASE reply.nodes = page.nodes /\ reply.next \in 1 .. cursor
  <2>1. reply.next \in Nat /\ reply.next # 0 /\ reply.next <= cursor
    BY <1>7
  <2>. QED  BY <1>4, <1>5, <1>7, <2>1
<1>. QED  BY <1>3, <1>6, <1>7

LEMMA ReadStep ==
    ASSUME SensorInv, NEW c \in Collectors, NEW connection \in Connections,
           ReadPage(c, connection) \/ ReadLastPage(c, connection)
    PROVE  SensorInv'
<1>1. /\ collector \in [Collectors -> Run] /\ past \in Seq(PullRequests) /\ past # <<>>
      /\ collector[c] \in Run /\ collector[c].cursor \in Nat
  BY DEF SensorInv, SensorTyped, Run
<1>2. PullRequest \in PullRequests /\ Now \in Nat
  BY <1>1 DEF PullRequest, Now
<1>3. PullRequest[connection] \in Seq(BOOLEAN) /\ PullRequest.facts \in Facts
  BY <1>2 DEF PullRequests, Connections
<1>4. PICK reply \in Replies(connection, collector[c].cursor), pc \in {"reviews", "threads", "collected"},
           cursor \in Nat, seen \in SUBSET Nat :
         /\ collector[c].pc = connection /\ StableMetadata(c) /\ past' = past
         /\ collector' = [collector EXCEPT ![c] =
               [WithNodes(c, connection, reply.nodes) EXCEPT
                   !.pc = pc, !.cursor = cursor, !.seen = seen]]
         /\ cursor = reply.next
         /\ \/ reply.next # 0 /\ pc = connection
            \/ reply.next = 0 /\ pc = IF connection = "reviews" THEN "threads" ELSE "collected"
  <2>1. CASE ReadPage(c, connection)
    <3>1. PICK reply \in Replies(connection, collector[c].cursor) :
             /\ ~LastPage(reply)
             /\ collector' = [collector EXCEPT ![c] =
                   [WithNodes(c, connection, reply.nodes) EXCEPT
                       !.cursor = reply.next, !.seen = @ \cup {reply.next}]]
      BY <2>1 DEF ReadPage
    <3>. DEFINE noted == WithNodes(c, connection, reply.nodes)
    <3>2. noted \in Run /\ noted.pc = connection /\ reply.next \in Nat
      <4>1. reply.next \in Nat /\ reply.nodes \subseteq Nat
        BY <1>1, <1>3, ReplyCovers
      <4>2. collector[c].pc = connection
        BY <2>1 DEF ReadPage
      <4>. QED  BY <1>1, <1>2, <1>3, <4>1, <4>2 DEF WithNodes, Run
    <3>3. [noted EXCEPT !.cursor = reply.next, !.seen = @ \cup {reply.next}]
            = [noted EXCEPT !.pc = connection, !.cursor = reply.next,
                            !.seen = noted.seen \cup {reply.next}]
      BY <3>2 DEF Run
    <3>4. noted.seen \cup {reply.next} \in SUBSET Nat
      BY <3>2 DEF Run
    <3>. HIDE DEF noted
    <3>5. collector' = [collector EXCEPT ![c] =
             [noted EXCEPT !.pc = connection, !.cursor = reply.next,
                           !.seen = noted.seen \cup {reply.next}]]
      BY <3>1, <3>3 DEF noted
    <3>6. collector[c].pc = connection /\ StableMetadata(c) /\ past' = past
      BY <2>1 DEF ReadPage
    <3>7. reply.next # 0 /\ connection \in {"reviews", "threads", "collected"}
      BY <3>1 DEF LastPage, Connections
    <3>. QED  BY <3>2, <3>4, <3>5, <3>6, <3>7 DEF noted
  <2>2. CASE ReadLastPage(c, connection)
    <3>1. PICK reply \in Replies(connection, collector[c].cursor) :
             /\ reply.next = 0
             /\ collector' = [collector EXCEPT ![c] =
                   [WithNodes(c, connection, reply.nodes) EXCEPT
                       !.pc = IF connection = "reviews" THEN "threads" ELSE "collected",
                       !.cursor = 0,
                       !.seen = {}]]
      BY <2>2 DEF ReadLastPage, LastPage
    <3>2. collector[c].pc = connection /\ StableMetadata(c) /\ past' = past
      BY <2>2 DEF ReadLastPage
    <3>3. (IF connection = "reviews" THEN "threads" ELSE "collected")
            \in {"reviews", "threads", "collected"}
      OBVIOUS
    <3>4. 0 \in Nat /\ {} \in SUBSET Nat
      OBVIOUS
    <3>. QED  BY <3>1, <3>2, <3>3, <3>4
  <2>. QED  BY <2>1, <2>2
<1>. DEFINE nodes == reply.nodes
            noted == WithNodes(c, connection, nodes)
            moved == [noted EXCEPT !.pc = pc, !.cursor = cursor, !.seen = seen]
<1>5. /\ nodes \subseteq DOMAIN PullRequest[connection] /\ nodes \subseteq Nat
      /\ \A i \in 1 .. cursor : i \in 1 .. collector[c].cursor \/ i \in nodes
      /\ cursor = 0 =>
            \A i \in DOMAIN PullRequest[connection] : i \in 1 .. collector[c].cursor \/ i \in nodes
  BY <1>1, <1>3, <1>4, ReplyCovers
<1>6. /\ noted \in Run
      /\ noted.observed = collector[c].observed /\ noted.metadata = PullRequest.facts
      /\ noted.read = collector[c].read \cup {Now}
  BY <1>1, <1>2, <1>3, <1>5 DEF WithNodes, Run
<1>7. /\ noted.approvals = collector[c].approvals
             \cup {i \in nodes : connection = "reviews" /\ PullRequest.reviews[i]}
      /\ noted.blocking = collector[c].blocking
             \cup {i \in nodes : connection = "threads" /\ ~PullRequest.threads[i]}
  <2>1. /\ noted.approvals = collector[c].approvals
               \cup {i \in nodes : connection = "reviews" /\ PullRequest[connection][i]}
        /\ noted.blocking = collector[c].blocking
               \cup {i \in nodes : connection = "threads" /\ ~PullRequest[connection][i]}
    BY <1>1 DEF WithNodes, Run
  <2>. QED  BY <2>1
<1>. HIDE DEF noted
<1>8. /\ moved \in Run /\ moved.pc = pc /\ moved.cursor = cursor
      /\ moved.observed = noted.observed /\ moved.metadata = noted.metadata
      /\ moved.read = noted.read /\ moved.approvals = noted.approvals
      /\ moved.blocking = noted.blocking
  BY <1>6 DEF Run
<1>9. collector' = [collector EXCEPT ![c] = moved]
  BY <1>4 DEF noted
<1>. HIDE DEF moved, nodes
<1>10. /\ connection = "reviews" => nodes \subseteq DOMAIN PullRequest.reviews
       /\ connection = "threads" => nodes \subseteq DOMAIN PullRequest.threads
  BY <1>5
<1>11. pc = "threads" =>
          \A i \in 1 .. cursor :
              connection = "threads" /\ (i \in 1 .. collector[c].cursor \/ i \in nodes)
  <2>1. pc = "threads" => connection = "threads" \/ cursor = 0
    BY <1>4
  <2>. QED  BY <1>5, <2>1
<1>12. pc = "collected" =>
          /\ connection = "threads"
          /\ \A i \in DOMAIN PullRequest.threads : i \in 1 .. collector[c].cursor \/ i \in nodes
  <2>1. pc = "collected" => connection = "threads" /\ cursor = 0
    BY <1>4 DEF Connections
  <2>. QED  BY <1>5, <2>1
<1>13. collector[c].pc = connection /\ StableMetadata(c) /\ past' = past
  BY <1>4
<1>14. /\ moved.observed = collector[c].observed /\ moved.metadata = PullRequest.facts
       /\ moved.read = collector[c].read \cup {Now}
  BY <1>6, <1>8
<1>15. /\ moved.approvals = collector[c].approvals
              \cup {i \in nodes : connection = "reviews" /\ PullRequest.reviews[i]}
       /\ moved.blocking = collector[c].blocking
              \cup {i \in nodes : connection = "threads" /\ ~PullRequest.threads[i]}
  BY <1>7, <1>8
<1>. QED
  BY <1>5, <1>8, <1>9, <1>10, <1>11, <1>12, <1>13, <1>14, <1>15, PageRead

LEMMA SensorStepKept == SensorInv /\ SensorNext => SensorInv'
<1>1. ASSUME SensorInv, NEW c \in Collectors, NEW connection \in Connections,
             RefusePage(c, connection)
      PROVE  SensorInv'
  BY <1>1, FailStep DEF RefusePage
<1>2. ASSUME SensorInv, NEW c \in Collectors, FailToCollect(c) \/ Sign(c) PROVE SensorInv'
  BY <1>2, FailStep DEF FailToCollect
<1>. QED  BY <1>1, <1>2, StartCollectionStep, ReadStep, PeopleStep DEF SensorNext

-----------------------------------------------------------------------------
\* The sensor and the imports together.

LEMMA SensorInvNext == SensorInv /\ [IntakeNext]_intakeVars => SensorInv'
<1>1. SensorInv /\ ImportStep => SensorInv'
  BY NothingHappens DEF ImportStep
<1>2. SensorInv /\ SensorStep => SensorInv'
  BY SensorStepKept DEF SensorStep
<1>3. SensorInv /\ UNCHANGED intakeVars => SensorInv'
  BY NothingHappens DEF intakeVars
<1>. QED  BY <1>1, <1>2, <1>3 DEF IntakeNext

\* A signed snapshot shows no thread and no approval that GitHub did not show while it
\* was collected, leaves out no thread that stood all the while, and was read under one
\* set of facts, whatever people did meanwhile and in whatever order pages were answered.
THEOREM SignedSnapshotsAreSound == Intake => []SnapshotsAreSound
<1>1. IntakeInit => SensorInv
  BY SensorInitial DEF IntakeInit
<1>2. ASSUME SensorInv PROVE SnapshotsAreSound
  <2>1. \A c \in Reports : UnderWay(c) /\ c \in Collectors
    BY DEF Reports, UnderWay
  <2>2. \A c \in Reports : SeenHeld(c) /\ StandingSeen(c)
    BY <1>2, <2>1 DEF SensorInv
  <2>3. ShownEvidenceHeld
    BY <2>2 DEF ShownEvidenceHeld, SeenHeld
  <2>4. \A i \in 1 .. MaxItems : i \in Nat
    BY SensorAssumption
  <2>5. StandingBlockersAreShown
    BY <2>2, <2>4 DEF StandingBlockersAreShown, StandingSeen, Standing, Reports
  <2>. QED  BY <2>3, <2>5 DEF SnapshotsAreSound
<1>. QED  BY <1>1, <1>2, SensorInvNext, PTL DEF Intake

\* What the sensor does leaves the stores of the import alone, and what the import does
\* is a step of it: the theorems about SignedImport hold of its packages too.
LEMMA IntakeImports == Intake => Spec
<1>1. IntakeInit => Init
  BY DEF IntakeInit
<1>2. [IntakeNext]_intakeVars => [Next]_vars
  BY DEF IntakeNext, intakeVars, ImportStep, SensorStep
<1>. QED  BY <1>1, <1>2, PTL DEF Intake, Spec

FromSensor(package) == \E c \in Collectors : collector[c].pc = "signed" /\ package = Receipt(c)

\* What is imported, and what is about to be, was signed by a run of the sensor.
SignedInv ==
    /\ TypeOK
    /\ SensorTyped
    /\ origin = "sensor" =>
          /\ \A i \in DOMAIN rows : FromSensor(rows[i])
          /\ \A p \in Importers : importer[p].pc # "idle" => FromSensor(importer[p].package)

LEMMA SignedStays ==
    ASSUME SensorTyped, SensorNext, NEW c \in Collectors, collector[c].pc = "signed"
    PROVE  collector'[c] = collector[c]
<1>1. collector \in [Collectors -> Run]
  BY DEF SensorTyped
<1>2. ASSUME NEW d \in Collectors, NEW moved, collector' = [collector EXCEPT ![d] = moved],
             collector[d].pc # "signed"
      PROVE  collector'[c] = collector[c]
  BY <1>1, <1>2
<1>3. ASSUME NEW d \in Collectors, StartCollection(d) PROVE collector'[c] = collector[c]
  BY <1>2, <1>3 DEF StartCollection
<1>4. ASSUME NEW d \in Collectors, NEW connection \in Connections,
             ReadPage(d, connection) \/ ReadLastPage(d, connection) \/ RefusePage(d, connection)
      PROVE  collector'[c] = collector[c]
  <2>1. collector[d].pc # "signed"
    BY <1>4 DEF ReadPage, ReadLastPage, RefusePage, Connections
  <2>2. \E moved : collector' = [collector EXCEPT ![d] = moved]
    BY <1>4 DEF ReadPage, ReadLastPage, RefusePage, Fail
  <2>. QED  BY <1>2, <2>1, <2>2
<1>5. ASSUME NEW d \in Collectors, FailToCollect(d) PROVE collector'[c] = collector[c]
  BY <1>2, <1>5 DEF FailToCollect, Fail, Connections
<1>6. ASSUME NEW d \in Collectors, Sign(d) PROVE collector'[c] = collector[c]
  BY <1>2, <1>6 DEF Sign
<1>7. CASE ChangeFacts
  BY <1>7 DEF ChangeFacts, Change
<1>8. CASE \E connection \in Connections : AddItem(connection) \/ ChangeItem(connection)
  BY <1>8 DEF AddItem, ChangeItem, Change
<1>. QED  BY <1>3, <1>4, <1>5, <1>6, <1>7, <1>8 DEF SensorNext

\* An import begins with a package and ends with it.
LEMMA PackageKept ==
    ASSUME TypeOK, Next
    PROVE  /\ \A p \in Importers : importer'[p].pc # "idle" =>
                 \/ importer'[p].pc = "append"
                 \/ importer[p].pc # "idle" /\ importer'[p].package = importer[p].package
           /\ \/ rows' = rows
              \/ \E p \in Importers :
                    importer[p].pc = "commit" /\ rows' = Append(rows, importer[p].package)
<1>1. importer \in [Importers -> Import]
  BY DEF TypeOK
<1>2. NoImport.pc = "idle"
  BY DEF NoImport
<1>3. CASE MoveSession
  BY <1>3 DEF MoveSession
<1>4. ASSUME NEW p \in Importers, Prepare(p)
      PROVE  /\ rows' = rows /\ importer'[p].pc = "append"
             /\ \A q \in Importers \ {p} : importer'[q] = importer[q]
  BY <1>1, <1>4 DEF Prepare
<1>5. ASSUME NEW p \in Importers,
             FindImported(p) \/ RefuseImport(p) \/ FailToPromote(p) \/ Cleanup(p) \/ Crash(p)
      PROVE  /\ rows' = rows /\ importer'[p].pc = "idle"
             /\ \A q \in Importers \ {p} : importer'[q] = importer[q]
  BY <1>1, <1>2, <1>5
     DEF FindImported, RefuseImport, FailToPromote, Cleanup, Crash, Finish
<1>6. ASSUME NEW p \in Importers, InsertRow(p) \/ PromotePackage(p)
      PROVE  /\ rows' = rows /\ importer[p].pc # "idle"
             /\ importer'[p].package = importer[p].package
             /\ \A q \in Importers \ {p} : importer'[q] = importer[q]
  BY <1>1, <1>6 DEF InsertRow, PromotePackage, Import
<1>7. ASSUME NEW p \in Importers, FailToCommit(p)
      PROVE  /\ rows' = rows /\ importer[p].pc # "idle"
             /\ importer'[p].pc = "idle" \/ importer'[p].package = importer[p].package
             /\ \A q \in Importers \ {p} : importer'[q] = importer[q]
  BY <1>1, <1>2, <1>7 DEF FailToCommit, Import
<1>8. ASSUME NEW p \in Importers, Commit(p)
      PROVE  /\ importer[p].pc = "commit" /\ rows' = Append(rows, importer[p].package)
             /\ importer'[p].pc = "idle"
             /\ \A q \in Importers \ {p} : importer'[q] = importer[q]
  BY <1>1, <1>2, <1>8 DEF Commit, Finish
<1>. QED  BY <1>3, <1>4, <1>5, <1>6, <1>7, <1>8 DEF Next

LEMMA SignedNext == SignedInv /\ [IntakeNext]_intakeVars /\ SensorInv => SignedInv'
<1>. SUFFICES ASSUME SignedInv, [IntakeNext]_intakeVars, SensorInv PROVE SignedInv'
  OBVIOUS
<1>1. TypeOK' /\ SensorTyped'
  <2>1. [Next]_vars
    BY DEF IntakeNext, intakeVars, ImportStep, SensorStep
  <2>2. SensorInv'
    BY SensorInvNext
  <2>. QED  BY <2>1, <2>2, TypeNext DEF SignedInv, SensorInv
<1>2. CASE ImportStep
  <2>1. origin' = origin /\ collector' = collector
    BY <1>2 DEF ImportStep, sensorVars
  <2>2. \A package : FromSensor(package) => FromSensor(package)'
    BY <2>1 DEF FromSensor, Receipt
  <2>. SUFFICES ASSUME origin = "sensor"
                PROVE  /\ \A i \in DOMAIN rows' : FromSensor(rows'[i])
                       /\ \A p \in Importers :
                             importer'[p].pc # "idle" => FromSensor(importer'[p].package)
    BY <1>1, <2>1, <2>2 DEF SignedInv, FromSensor, Receipt
  <2>3. /\ \A p \in Importers : importer'[p].pc # "idle" =>
              \/ importer'[p].pc = "append"
              \/ importer[p].pc # "idle" /\ importer'[p].package = importer[p].package
        /\ \/ rows' = rows
           \/ \E p \in Importers :
                 importer[p].pc = "commit" /\ rows' = Append(rows, importer[p].package)
    BY <1>2, PackageKept DEF SignedInv, ImportStep
  <2>4. \A p \in Importers : importer'[p].pc = "append" => FromSensor(importer'[p].package)
    BY <1>2 DEF ImportStep, Available, FromSensor
  <2>5. \A p \in Importers : importer'[p].pc # "idle" => FromSensor(importer'[p].package)
    BY <2>3, <2>4 DEF SignedInv
  <2>6. \A i \in DOMAIN rows' : FromSensor(rows'[i])
    <3>1. CASE rows' = rows
      BY <3>1 DEF SignedInv
    <3>2. ASSUME NEW p \in Importers, importer[p].pc = "commit",
                 rows' = Append(rows, importer[p].package)
          PROVE  \A i \in DOMAIN rows' : FromSensor(rows'[i])
      <4>1. FromSensor(importer[p].package) /\ rows \in Seq(Packages)
        BY <3>2 DEF SignedInv, TypeOK
      <4>2. \A i \in DOMAIN rows' :
               rows'[i] = IF i \in DOMAIN rows THEN rows[i] ELSE importer[p].package
        BY <3>2, <4>1
      <4>. QED  BY <4>1, <4>2 DEF SignedInv
    <3>. QED  BY <2>3, <3>1, <3>2
  <2>. QED  BY <2>5, <2>6
<1>3. CASE SensorStep
  <2>1. /\ origin' = origin /\ rows' = rows /\ importer' = importer
    BY <1>3 DEF SensorStep, vars
  <2>2. \A package : FromSensor(package) => FromSensor(package)'
    <3>1. \A c \in Collectors : collector[c].pc = "signed" => collector'[c] = collector[c]
      BY <1>3, SignedStays DEF SensorStep, SignedInv
    <3>. QED  BY <3>1 DEF FromSensor, Receipt
  <2>. QED  BY <1>1, <2>1, <2>2 DEF SignedInv
<1>4. CASE UNCHANGED intakeVars
  <2>1. origin' = origin /\ rows' = rows /\ importer' = importer /\ collector' = collector
    BY <1>4 DEF intakeVars, vars, sensorVars
  <2>. QED  BY <1>1, <2>1 DEF SignedInv, FromSensor, Receipt
<1>. QED  BY <1>2, <1>3, <1>4 DEF IntakeNext

\* A thread that an earlier snapshot shows and a later one does not was settled while
\* the later one was collected: it stood before the later one began.
LEMMA BlockersStand ==
    ASSUME ~Overlap, SensorInv, SignedInv, NewestIsMostRecent
    PROVE  NoBlockerIsHidden
<1>. SUFFICES ASSUME origin = "sensor", NEW i \in DOMAIN rows, NEW j \in DOMAIN rows, i < j,
                     NEW thread \in collector[rows[i].id].blocking \ collector[rows[j].id].blocking
              PROVE  \E k \in During(rows[i].id) \cup During(rows[j].id) : Settled(thread, k)
  BY DEF NoBlockerIsHidden
<1>1. PICK c \in Collectors : collector[c].pc = "signed" /\ rows[i] = Receipt(c)
  BY DEF SignedInv, FromSensor
<1>2. PICK d \in Collectors : collector[d].pc = "signed" /\ rows[j] = Receipt(d)
  BY DEF SignedInv, FromSensor
<1>3. rows[i].id = c /\ rows[j].id = d /\ collector[c].observed <= collector[d].observed
  BY <1>1, <1>2 DEF NewestIsMostRecent, Rows, Receipt
<1>4. /\ past \in Seq(PullRequests) /\ Now \in Nat /\ DOMAIN past = 1 .. Now
      /\ collector \in [Collectors -> Run] /\ thread \in Nat
  BY <1>1, <1>3 DEF SensorInv, SensorTyped, Now, Run
<1>5. UnderWay(c) /\ UnderWay(d) /\ c # d
  BY <1>1, <1>2, <1>3 DEF UnderWay
<1>6. SeenHeld(c) /\ SeenHeld(d) /\ StandingSeen(d)
  BY <1>5 DEF SensorInv
<1>7. PICK seen \in During(c) : Unsettled(thread, seen)
  BY <1>3, <1>6 DEF SeenHeld
<1>8. PICK k \in During(d) : ~Unsettled(thread, k)
  <2>1. ~Standing(d, thread)
    BY <1>2, <1>3, <1>4, <1>6 DEF StandingSeen
  <2>. QED  BY <2>1 DEF Standing
<1>9. collector[c].observed \in 1 .. Now /\ collector[d].observed \in 1 .. Now
      /\ collector[c].read \subseteq 1 .. Now
  BY <1>6 DEF SeenHeld
<1>10. seen \in 1 .. Now /\ k \in 1 .. Now /\ collector[d].observed <= k
  BY <1>4, <1>9 DEF During
<1>11. seen <= collector[d].observed
  <2>1. PICK last \in collector[c].read : seen <= last
    BY <1>7 DEF During
  <2>2. last <= collector[d].observed
    BY <1>3, <1>5 DEF SensorInv, OneAfterAnother
  <2>. QED  BY <1>9, <1>10, <2>1, <2>2
<1>12. Len(past[seen].threads) <= Len(past[k].threads)
  BY <1>4, <1>9, <1>10, <1>11 DEF SensorInv, ThreadsStay
<1>13. thread \in DOMAIN past[k].threads
  <2>1. past[seen].threads \in Seq(BOOLEAN) /\ past[k].threads \in Seq(BOOLEAN)
    <3>1. past[seen] \in PullRequests /\ past[k] \in PullRequests
      BY <1>4, <1>10
    <3>. QED  BY <3>1 DEF PullRequests
  <2>2. /\ DOMAIN past[seen].threads = 1 .. Len(past[seen].threads)
        /\ DOMAIN past[k].threads = 1 .. Len(past[k].threads)
        /\ Len(past[seen].threads) \in Nat /\ Len(past[k].threads) \in Nat
    BY <2>1
  <2>3. thread \in 1 .. Len(past[seen].threads)
    BY <1>7, <2>2 DEF Unsettled
  <2>. QED  BY <1>12, <2>2, <2>3
<1>14. Settled(thread, k)
  BY <1>8, <1>13 DEF Unsettled, Settled, Item
<1>. QED  BY <1>3, <1>14

\* While runs of the job do not overlap, an approval that is imported later hides no
\* blocker that an earlier snapshot shows, in whatever order the two were signed and
\* brought: what it does not show had been settled.
THEOREM NoBlockerHides == ASSUME ~Overlap PROVE Intake => []NoBlockerIsHidden
<1>1. IntakeInit => SensorInv /\ SignedInv
  <2>1. IntakeInit => SensorInv
    BY SensorInitial DEF IntakeInit
  <2>2. IntakeInit => TypeOK
    BY TypeInit DEF IntakeInit
  <2>. QED  BY <2>1, <2>2 DEF IntakeInit, Init, SignedInv, SensorInv, NoImport
<1>2. SensorInv /\ SignedInv /\ [IntakeNext]_intakeVars => (SensorInv /\ SignedInv)'
  BY SensorInvNext, SignedNext
<1>3. SensorInv /\ SignedInv /\ NewestIsMostRecent => NoBlockerIsHidden
  BY BlockersStand
<1>. QED  BY <1>1, <1>2, <1>3, IntakeImports, NewestSnapshotIsMostRecent, PTL DEF Intake
=============================================================================
