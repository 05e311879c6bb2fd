---------------------------- MODULE GaapStateProofs ----------------------------
(***************************************************************************)
(* Proofs about GaapState, for every set of writers: honest answers, the   *)
(* fence, and that the database implements FencedRegister.                 *)
(***************************************************************************)
EXTENDS GaapState, TLAPS

Registering(w) == writer[w].registers /\ writer[w].pc \in {"create", "open"}

\* A writer inside a transaction holds the lock, and only one does.
LockInv ==
    /\ \A w \in Writers : writer[w].pc = "open" => w \in lock
    /\ \A w \in lock : writer[w].pc \in {"open", "lost"}
    /\ \A v, w \in lock : v = w

\* Operations in flight have tokens of their own, not answered before and not
\* committed before COMMIT.
TokenInv ==
    /\ \A i \in DOMAIN commits : commits[i].token \in 1 .. issued
    /\ \A w \in Writers : writer[w].reply.token \in 0 .. issued
    /\ \A v, w \in Writers : writer[v].pc # "idle" =>
          /\ writer[w].reply.token # writer[v].token
          /\ writer[w].pc # "idle" /\ writer[w].token = writer[v].token => v = w
    /\ \A w \in Writers :
          /\ writer[w].pc \in {"create", "ready", "open"} => ~Committed(writer[w].token)
          /\ writer[w].pc = "committed" => Committed(writer[w].token)

\* One registration creates the file, and a mutation in its transaction has the
\* stored revision as its basis.
FileInv ==
    /\ commits = <<>> => revision = 0
    /\ \A w \in Writers :
          /\ writer[w].pc = "create" => writer[w].registers
          /\ writer[w].pc = "ready" => ~writer[w].registers
          /\ Registering(w) => file = "empty" /\ writer[w].basis = 0
          /\ writer[w].pc \in {"ready", "open"} /\ ~writer[w].registers => file = "registered"
          /\ writer[w].pc = "open" /\ ~writer[w].registers => revision = writer[w].basis
    /\ \A v, w \in Writers : Registering(v) /\ Registering(w) => v = w

StateInv ==
    /\ TypeOK
    /\ LockInv
    /\ TokenInv
    /\ FileInv
    /\ CommitsBuildOnEachOther
    /\ AnswersAreHonest

LEMMA StateInit == Init => StateInv
BY StateAssumption
   DEF Init, StateInv, TypeOK, LockInv, TokenInv, FileInv, Registering, CommitsBuildOnEachOther,
       AnswersAreHonest, Committed, NoOperation, NoAnswer, Operation, Steps, Answers, Tokens,
       NoToken
-----------------------------------------------------------------------------
\* Steps that draw a token.
LEMMA StartStep ==
    ASSUME StateInv, NEW w \in Writers, CreateFile(w) \/ Read(w)
    PROVE  StateInv'
<1>. DEFINE step == IF file = "absent" THEN "create" ELSE "ready"
            new == [pc |-> step, registers |-> file = "absent", token |-> issued + 1,
                    basis |-> revision, reply |-> NoAnswer]
<1>1. /\ writer[w].pc = "idle" /\ issued < MaxTokens /\ issued' = issued + 1
      /\ revision' = revision /\ marker' = marker /\ commits' = commits /\ lock' = lock
      /\ file' = IF file = "absent" THEN "empty" ELSE file
      /\ file \in {"absent", "registered"}
      /\ writer' = [writer EXCEPT ![w] = new]
  BY DEF CreateFile, Read, Start
<1>2. TypeOK
  BY DEF StateInv
<1>3. /\ issued \in Nat /\ issued + 1 \in Tokens /\ revision \in Nat
      /\ writer \in [Writers -> Operation]
      /\ \A v \in Writers : writer[v].pc # "idle" => writer[v].token \in 1 .. issued
  BY <1>1, <1>2, StateAssumption DEF TypeOK, Tokens
<1>4. new \in Operation
  BY <1>3 DEF Operation, Steps, NoAnswer, Answers, NoToken
<1>5. \A v \in Writers : writer'[v] = IF v = w THEN new ELSE writer[v]
  BY <1>1, <1>3
<1>6. /\ new.pc = step /\ step \in {"create", "ready"} /\ new.token = issued + 1
      /\ new.registers = (file = "absent") /\ new.basis = revision
      /\ new.reply = NoAnswer /\ NoAnswer.token = 0 /\ NoAnswer.answer = "none"
      /\ step = "create" <=> file = "absent"
  BY DEF NoAnswer, NoToken
<1>. HIDE DEF new, step
<1>7. TypeOK'
  <2>1. issued' \in Tokens \cup {0} /\ writer' \in [Writers -> Operation]
    BY <1>1, <1>3, <1>4
  <2>2. \A v \in Writers : writer'[v].pc # "idle" => writer'[v].token \in 1 .. issued'
    BY <1>1, <1>3, <1>5, <1>6
  <2>. QED  BY <1>1, <1>2, <2>1, <2>2 DEF TypeOK
<1>8. LockInv'
  BY <1>1, <1>5, <1>6 DEF StateInv, LockInv
<1>9. \A token : Committed(token)' <=> Committed(token)
  BY <1>1 DEF Committed
<1>10. ~Committed(issued + 1)
  BY <1>3 DEF StateInv, TokenInv, Committed
<1>11. TokenInv'
  <2>1. \A i \in DOMAIN commits' : commits'[i].token \in 1 .. issued'
    BY <1>1, <1>3 DEF StateInv, TokenInv
  <2>2. \A v \in Writers : writer'[v].reply.token \in 0 .. issued'
    BY <1>1, <1>3, <1>5, <1>6 DEF StateInv, TokenInv
  <2>3. ASSUME NEW u \in Writers, NEW v \in Writers, writer'[u].pc # "idle"
        PROVE  /\ writer'[v].reply.token # writer'[u].token
               /\ writer'[v].pc # "idle" /\ writer'[v].token = writer'[u].token => u = v
    <3>1. writer[v].reply.token \in 0 .. issued
      BY DEF StateInv, TokenInv
    <3>2. u # w => /\ writer[u].token \in 1 .. issued
                   /\ writer[v].reply.token # writer[u].token
      BY <1>3, <1>5, <2>3 DEF StateInv, TokenInv
    <3>3. v # w /\ writer[v].pc # "idle" => writer[v].token \in 1 .. issued
      BY <1>3
    <3>. QED  BY <1>3, <1>5, <1>6, <2>3, <3>1, <3>2, <3>3 DEF StateInv, TokenInv
  <2>4. ASSUME NEW v \in Writers
        PROVE  /\ writer'[v].pc \in {"create", "ready", "open"} => ~Committed(writer[v].token)'
               /\ writer'[v].pc = "committed" => Committed(writer[v].token)'
    BY <1>5, <1>6, <1>9, <1>10 DEF StateInv, TokenInv
  <2>. QED  BY <2>1, <2>2, <2>3, <2>4 DEF TokenInv
<1>12. FileInv' /\ CommitsBuildOnEachOther'
  <2>1. file = "absent" => commits = <<>> /\ \A v \in Writers : ~Registering(v)
    BY DEF StateInv, FileInv, CommitsBuildOnEachOther
  <2>2. CommitsBuildOnEachOther'
    BY <1>1 DEF StateInv, CommitsBuildOnEachOther
  <2>3. commits' = <<>> => revision' = 0
    BY <1>1 DEF StateInv, FileInv
  <2>4. ASSUME NEW v \in Writers, v # w
        PROVE  /\ writer'[v] = writer[v]
               /\ Registering(v)' <=> Registering(v)
               /\ Registering(v) => file = "empty"
               /\ writer[v].pc \in {"ready", "open"} /\ ~writer[v].registers => file = file'
    BY <1>1, <1>5, <2>1, <2>4 DEF StateInv, FileInv, Registering
  <2>5. /\ writer'[w] = new
        /\ Registering(w)' => file = "absent" /\ file' = "empty" /\ revision = 0
        /\ file # "absent" => file' = "registered"
    BY <1>1, <1>5, <1>6, <2>1 DEF StateInv, FileInv, Registering
  <2>6. ASSUME NEW v \in Writers
        PROVE  /\ writer'[v].pc = "create" => writer'[v].registers
               /\ writer'[v].pc = "ready" => ~writer'[v].registers
               /\ Registering(v)' => file' = "empty" /\ writer'[v].basis = 0
               /\ writer'[v].pc \in {"ready", "open"} /\ ~writer'[v].registers
                    => file' = "registered"
               /\ writer'[v].pc = "open" /\ ~writer'[v].registers => revision' = writer'[v].basis
    <3>1. CASE v = w
      BY <1>1, <1>6, <2>5, <3>1
    <3>2. CASE v # w
      <4>1. Registering(v)' => file' = "empty"
        BY <1>1, <2>4, <3>2
      <4>. QED  BY <1>1, <2>4, <3>2, <4>1 DEF StateInv, FileInv
    <3>. QED  BY <3>1, <3>2
  <2>7. \A u, v \in Writers : Registering(u)' /\ Registering(v)' => u = v
    <3>1. \A v \in Writers : v # w /\ Registering(v)' => Registering(v) /\ file = "empty"
      BY <2>4
    <3>. QED  BY <2>5, <3>1 DEF StateInv, FileInv
  <2>. QED  BY <2>2, <2>3, <2>6, <2>7 DEF FileInv
<1>13. AnswersAreHonest'
  BY <1>5, <1>6, <1>9 DEF StateInv, AnswersAreHonest
<1>. QED  BY <1>7, <1>8, <1>11, <1>12, <1>13 DEF StateInv

\* Steps that end an operation with an answer, or without one in a crash.
Answered(w, token, answer) ==
    /\ token \in {NoToken, writer[w].token}
    /\ token = NoToken => answer \in {"none", "failed"}
    /\ writer[w].pc # "idle" \/ token = NoToken
    /\ writer' = [writer EXCEPT ![w] =
           [NoOperation EXCEPT !.reply = [token |-> token, answer |-> answer]]]
    /\ UNCHANGED <<revision, marker, commits, issued>>
    /\ lock' = lock \ {w}
    /\ file' = file \/ (Registering(w) /\ file' = "absent")
    /\ answer \in {"ok", "warning"} => Committed(token)
    /\ answer = "failed" => ~Committed(token)

LEMMA AnswerStep ==
    ASSUME StateInv, NEW w \in Writers, NEW token, NEW answer \in Answers,
           Answered(w, token, answer)
    PROVE  StateInv'
<1>. USE DEF Answered
<1>. DEFINE new == [NoOperation EXCEPT !.reply = [token |-> token, answer |-> answer]]
<1>1. TypeOK
  BY DEF StateInv
<1>2. /\ issued \in Tokens \cup {0} /\ issued \in Nat /\ writer \in [Writers -> Operation]
      /\ \A v \in Writers : writer[v].pc # "idle" => writer[v].token \in 1 .. issued
  BY <1>1, StateAssumption DEF TypeOK, Tokens
<1>3. token \in 0 .. issued /\ token \in Tokens \cup {NoToken}
  <2>1. token # NoToken => token \in 1 .. issued
    BY <1>2
  <2>. QED  BY <1>2, <2>1, StateAssumption DEF NoToken, Tokens
<1>4. /\ new \in Operation /\ new.pc = "idle" /\ new.registers = FALSE
      /\ new.reply.token = token /\ new.reply.answer = answer
  BY <1>3 DEF NoOperation, NoAnswer, Operation, Steps, NoToken
<1>5. \A v \in Writers : writer'[v] = IF v = w THEN new ELSE writer[v]
  BY <1>2
<1>6. writer' \in [Writers -> Operation]
  BY <1>2, <1>4
<1>. HIDE DEF new
<1>7. TypeOK'
  <2>1. file' \in {"absent", "empty", "registered"}
    BY <1>1 DEF TypeOK
  <2>2. \A v \in Writers : writer'[v].pc # "idle" => writer'[v].token \in 1 .. issued'
    BY <1>2, <1>4, <1>5
  <2>. QED  BY <1>1, <1>6, <2>1, <2>2 DEF TypeOK
<1>8. LockInv'
  BY <1>1, <1>4, <1>5 DEF StateInv, LockInv, TypeOK
<1>9. \A t : Committed(t)' <=> Committed(t)
  BY DEF Committed
<1>10. TokenInv'
  <2>1. \A v \in Writers : writer'[v].reply.token \in 0 .. issued'
    BY <1>3, <1>4, <1>5 DEF StateInv, TokenInv
  <2>2. ASSUME NEW u \in Writers, NEW v \in Writers, writer'[u].pc # "idle"
        PROVE  /\ writer'[v].reply.token # writer'[u].token
               /\ writer'[v].pc # "idle" /\ writer'[v].token = writer'[u].token => u = v
    <3>1. u # w /\ writer'[u] = writer[u] /\ writer[u].pc # "idle"
      BY <1>4, <1>5, <2>2
    <3>2. writer[u].token \in 1 .. issued
      BY <1>2, <3>1
    <3>3. token # writer[u].token
      BY <1>2, <3>1, <3>2 DEF StateInv, TokenInv, NoToken
    <3>4. v # w => /\ writer[v].reply.token # writer[u].token
                   /\ writer[v].pc # "idle" /\ writer[v].token = writer[u].token => u = v
      BY <3>1 DEF StateInv, TokenInv
    <3>. QED  BY <1>4, <1>5, <3>1, <3>3, <3>4
  <2>3. ASSUME NEW v \in Writers
        PROVE  /\ writer'[v].pc \in {"create", "ready", "open"} => ~Committed(writer[v].token)'
               /\ writer'[v].pc = "committed" => Committed(writer[v].token)'
    BY <1>4, <1>5, <1>9 DEF StateInv, TokenInv
  <2>. QED  BY <2>1, <2>2, <2>3 DEF StateInv, TokenInv
<1>11. FileInv' /\ CommitsBuildOnEachOther'
  <2>1. CASE file' = file
    <3>1. CommitsBuildOnEachOther'
      BY <2>1 DEF StateInv, CommitsBuildOnEachOther
    <3>2. \A v \in Writers : Registering(v)' => v # w /\ Registering(v)
      BY <1>4, <1>5 DEF Registering
    <3>3. ASSUME NEW v \in Writers
          PROVE  /\ writer'[v].pc = "create" => writer'[v].registers
                 /\ writer'[v].pc = "ready" => ~writer'[v].registers
                 /\ Registering(v)' => file' = "empty" /\ writer'[v].basis = 0
                 /\ writer'[v].pc \in {"ready", "open"} /\ ~writer'[v].registers
                      => file' = "registered"
                 /\ writer'[v].pc = "open" /\ ~writer'[v].registers => revision' = writer'[v].basis
      <4>1. CASE v = w
        BY <1>4, <1>5, <3>2, <4>1
      <4>2. CASE v # w
        BY <1>5, <2>1, <3>2, <4>2 DEF StateInv, FileInv
      <4>. QED  BY <4>1, <4>2
    <3>4. commits' = <<>> => revision' = 0
      BY DEF StateInv, FileInv
    <3>5. \A u, v \in Writers : Registering(u)' /\ Registering(v)' => u = v
      BY <3>2 DEF StateInv, FileInv
    <3>. QED  BY <3>1, <3>3, <3>4, <3>5 DEF FileInv
  <2>2. CASE Registering(w) /\ file' = "absent"
    <3>1. file = "empty" /\ commits = <<>>
      BY <2>2 DEF StateInv, FileInv, CommitsBuildOnEachOther
    <3>2. \A v \in Writers \ {w} :
             ~Registering(v) /\ ~(writer[v].pc \in {"ready", "open"} /\ ~writer[v].registers)
      BY <2>2, <3>1 DEF StateInv, FileInv
    <3>3. CommitsBuildOnEachOther'
      BY <2>2, <3>1 DEF StateInv, CommitsBuildOnEachOther
    <3>4. \A v \in Writers : ~Registering(v)'
      BY <1>4, <1>5, <3>2 DEF Registering
    <3>. QED  BY <1>4, <1>5, <2>2, <3>1, <3>2, <3>3, <3>4 DEF StateInv, FileInv
  <2>. QED  BY <2>1, <2>2
<1>12. AnswersAreHonest'
  BY <1>4, <1>5, <1>9 DEF StateInv, AnswersAreHonest
<1>. QED  BY <1>7, <1>8, <1>10, <1>11, <1>12 DEF StateInv

\* Steps inside an operation that neither answer nor commit.
LEMMA ContinueStep ==
    ASSUME StateInv, NEW w \in Writers, Begin(w) \/ LoseCommit(w)
    PROVE  StateInv'
<1>. DEFINE step == IF writer[w].pc = "open" THEN "lost" ELSE "open"
<1>1. TypeOK
  BY DEF StateInv
<1>2. /\ writer \in [Writers -> Operation] /\ lock \subseteq Writers /\ issued \in Nat
      /\ \A v \in Writers : writer[v].pc # "idle" => writer[v].token \in 1 .. issued
  BY <1>1, StateAssumption DEF TypeOK, Tokens
<1>3. /\ UNCHANGED <<file, revision, marker, commits, issued>>
      /\ writer[w].pc \in {"create", "ready", "open"}
      /\ writer[w].pc = "ready" => revision = writer[w].basis
      /\ writer[w].pc = "open" => lock' \in {lock, lock \ {w}}
      /\ writer[w].pc # "open" => lock = {} /\ lock' = {w}
      /\ writer' = [writer EXCEPT ![w].pc = step]
  BY DEF Begin, LoseCommit, Continue, RevisionMatches
<1>4. step \in {"open", "lost"} /\ (step = "open" <=> writer[w].pc # "open")
  OBVIOUS
<1>. HIDE DEF step
<1>5. /\ \A v \in Writers : v # w => writer'[v] = writer[v]
      /\ writer'[w] = [writer[w] EXCEPT !.pc = step]
      /\ writer'[w].pc = step /\ writer'[w].registers = writer[w].registers
      /\ writer'[w].token = writer[w].token /\ writer'[w].basis = writer[w].basis
      /\ writer'[w].reply = writer[w].reply
      /\ writer' \in [Writers -> Operation]
  BY <1>2, <1>3, <1>4 DEF Operation, Steps
<1>6. TypeOK'
  <2>1. \A v \in Writers : writer'[v].pc # "idle" => writer'[v].token \in 1 .. issued'
    BY <1>2, <1>3, <1>5
  <2>2. lock' \subseteq Writers
    BY <1>2, <1>3
  <2>. QED  BY <1>1, <1>3, <1>5, <2>1, <2>2 DEF TypeOK
<1>7. LockInv'
  BY <1>2, <1>3, <1>4, <1>5 DEF StateInv, LockInv
<1>8. TokenInv' /\ AnswersAreHonest' /\ CommitsBuildOnEachOther'
  <2>1. \A t : Committed(t)' <=> Committed(t)
    BY <1>3 DEF Committed
  <2>2. \A v \in Writers : /\ writer'[v].token = writer[v].token
                           /\ writer'[v].reply = writer[v].reply
                           /\ writer'[v].pc # "idle" => writer[v].pc # "idle"
    BY <1>3, <1>5
  <2>3. ASSUME NEW v \in Writers
        PROVE  /\ writer'[v].pc \in {"create", "ready", "open"} => ~Committed(writer[v].token)'
               /\ writer'[v].pc = "committed" => Committed(writer[v].token)'
    BY <1>3, <1>4, <1>5, <2>1, <2>2 DEF StateInv, TokenInv
  <2>4. AnswersAreHonest'
    <3>. SUFFICES ASSUME NEW v \in Writers
                  PROVE  /\ writer'[v].reply.answer \in {"ok", "warning"}
                              => Committed(writer[v].reply.token)'
                         /\ writer'[v].reply.answer = "failed"
                              => ~Committed(writer[v].reply.token)'
      BY DEF AnswersAreHonest
    <3>1. writer'[v].reply = writer[v].reply
      BY <2>2
    <3>. QED  BY <1>3, <3>1 DEF StateInv, AnswersAreHonest, Committed
  <2>5. CommitsBuildOnEachOther'
    BY <1>3 DEF StateInv, CommitsBuildOnEachOther
  <2>. QED  BY <1>3, <2>2, <2>3, <2>4, <2>5 DEF StateInv, TokenInv
<1>9. FileInv'
  <2>1. \A v \in Writers : Registering(v)' => Registering(v)
    BY <1>3, <1>4, <1>5 DEF StateInv, FileInv, Registering
  <2>2. ASSUME NEW v \in Writers
        PROVE  /\ writer'[v].pc = "create" => writer'[v].registers
               /\ writer'[v].pc = "ready" => ~writer'[v].registers
               /\ Registering(v)' => file' = "empty" /\ writer'[v].basis = 0
               /\ writer'[v].pc \in {"ready", "open"} /\ ~writer'[v].registers
                    => file' = "registered"
               /\ writer'[v].pc = "open" /\ ~writer'[v].registers => revision' = writer'[v].basis
    BY <1>3, <1>4, <1>5, <2>1 DEF StateInv, FileInv
  <2>. QED  BY <1>3, <2>1, <2>2 DEF StateInv, FileInv
<1>. QED  BY <1>6, <1>7, <1>8, <1>9 DEF StateInv

\* COMMIT.
LEMMA CommitStep ==
    ASSUME StateInv, NEW w \in Writers, Commit(w)
    PROVE  StateInv'
<1>. DEFINE entry == [token |-> writer[w].token, basis |-> writer[w].basis]
<1>1. TypeOK
  BY DEF StateInv
<1>2. /\ writer \in [Writers -> Operation] /\ lock \subseteq Writers /\ issued \in Nat
      /\ 1 .. issued \subseteq Tokens /\ revision \in Nat
      /\ \A v \in Writers : writer[v].pc # "idle" => writer[v].token \in 1 .. issued
      /\ commits \in Seq([token : Tokens, basis : Nat])
  BY <1>1, StateAssumption DEF TypeOK, Tokens
<1>3. PICK step \in {"committed", "lost"} : writer' = [writer EXCEPT ![w].pc = step]
  BY DEF Commit, Continue
<1>4. /\ writer[w].pc = "open" /\ file' = "registered" /\ UNCHANGED issued
      /\ revision' = IF writer[w].registers THEN 0 ELSE revision + 1
      /\ marker' = writer[w].token /\ lock' = lock \ {w} /\ commits' = Append(commits, entry)
  BY DEF Commit, NextMarker
<1>5. /\ \A v \in Writers : v # w => writer'[v] = writer[v]
      /\ writer'[w].pc = step /\ writer'[w].registers = writer[w].registers
      /\ writer'[w].token = writer[w].token /\ writer'[w].reply = writer[w].reply
      /\ writer' \in [Writers -> Operation]
  BY <1>2, <1>3 DEF Operation, Steps
<1>6. /\ entry \in [token : Tokens, basis : Nat] /\ entry.token = writer[w].token
      /\ entry.basis = writer[w].basis /\ writer[w].token \in 1 .. issued
  BY <1>2, <1>4 DEF Operation
<1>. HIDE DEF entry
<1>7. /\ commits' \in Seq([token : Tokens, basis : Nat]) /\ Len(commits') = Len(commits) + 1
      /\ Len(commits) \in Nat /\ commits'[Len(commits) + 1] = entry
      /\ DOMAIN commits = 1 .. Len(commits) /\ DOMAIN commits' = 1 .. Len(commits) + 1
      /\ \A i \in DOMAIN commits : commits'[i] = commits[i]
      /\ commits' # <<>> /\ (commits = <<>> <=> Len(commits) = 0)
  BY <1>2, <1>4, <1>6
<1>8. TypeOK'
  <2>1. \A v \in Writers : writer'[v].pc # "idle" => writer'[v].token \in 1 .. issued'
    BY <1>2, <1>4, <1>5, <1>6
  <2>2. revision' \in Nat
    BY <1>2, <1>4
  <2>. QED  BY <1>1, <1>4, <1>5, <1>6, <1>7, <2>1, <2>2 DEF TypeOK
<1>9. LockInv'
  BY <1>2, <1>4, <1>5 DEF StateInv, LockInv
<1>10. \A t : Committed(t)' <=> Committed(t) \/ t = writer[w].token
  <2>1. \A i \in DOMAIN commits' : i \in DOMAIN commits \/ i = Len(commits) + 1
    BY <1>7
  <2>2. DOMAIN commits \subseteq DOMAIN commits' /\ Len(commits) + 1 \in DOMAIN commits'
    BY <1>7
  <2>. QED  BY <1>6, <1>7, <2>1, <2>2 DEF Committed
<1>11. TokenInv' /\ AnswersAreHonest'
  <2>1. \A v \in Writers : /\ writer'[v].token = writer[v].token
                           /\ writer'[v].reply = writer[v].reply
                           /\ writer'[v].pc # "idle" => writer[v].pc # "idle"
    BY <1>4, <1>5
  <2>2. ASSUME NEW v \in Writers
        PROVE  /\ writer'[v].pc \in {"create", "ready", "open"} => ~Committed(writer[v].token)'
               /\ writer'[v].pc = "committed" => Committed(writer[v].token)'
    <3>1. CASE v = w
      BY <1>4, <1>5, <1>10, <3>1
    <3>2. CASE v # w
      BY <1>4, <1>5, <1>10, <3>2 DEF StateInv, TokenInv
    <3>. QED  BY <3>1, <3>2
  <2>3. \A v \in Writers : writer[v].reply.token # writer[w].token
    BY <1>4 DEF StateInv, TokenInv
  <2>4. AnswersAreHonest'
    <3>. SUFFICES ASSUME NEW v \in Writers
                  PROVE  /\ writer'[v].reply.answer \in {"ok", "warning"}
                              => Committed(writer[v].reply.token)'
                         /\ writer'[v].reply.answer = "failed"
                              => ~Committed(writer[v].reply.token)'
      BY DEF AnswersAreHonest
    <3>1. writer'[v].reply = writer[v].reply /\ writer[v].reply.token # writer[w].token
      BY <2>1, <2>3
    <3>2. Committed(writer[v].reply.token)' <=> Committed(writer[v].reply.token)
      BY <1>10, <3>1
    <3>. QED  BY <3>1, <3>2 DEF StateInv, AnswersAreHonest
  <2>5. \A i \in DOMAIN commits' : commits'[i].token \in 1 .. issued'
    BY <1>4, <1>6, <1>7 DEF StateInv, TokenInv
  <2>6. /\ \A v \in Writers : writer'[v].reply.token \in 0 .. issued'
        /\ \A u, v \in Writers : writer'[u].pc # "idle" =>
              /\ writer'[v].reply.token # writer'[u].token
              /\ writer'[v].pc # "idle" /\ writer'[v].token = writer'[u].token => u = v
    <3>1. \A v \in Writers : writer[v].reply.token \in 0 .. issued
      BY DEF StateInv, TokenInv
    <3>2. \A u, v \in Writers : writer[u].pc # "idle" =>
              /\ writer[v].reply.token # writer[u].token
              /\ writer[v].pc # "idle" /\ writer[v].token = writer[u].token => u = v
      BY DEF StateInv, TokenInv
    <3>. QED  BY <1>4, <2>1, <3>1, <3>2
  <2>. QED  BY <2>1, <2>2, <2>4, <2>5, <2>6 DEF TokenInv
<1>12. CommitsBuildOnEachOther'
  <2>1. CASE writer[w].registers
    <3>1. commits = <<>>
      BY <1>4, <2>1 DEF StateInv, FileInv, Registering, CommitsBuildOnEachOther
    <3>. QED  BY <1>4, <1>7, <2>1, <3>1 DEF CommitsBuildOnEachOther
  <2>2. CASE ~writer[w].registers
    <3>1. revision = Len(commits) - 1 /\ writer[w].basis = revision
      BY <1>4, <2>2 DEF StateInv, FileInv, CommitsBuildOnEachOther
    <3>2. \A i \in DOMAIN commits : i > 1 => commits[i].basis = i - 2
      BY DEF StateInv, CommitsBuildOnEachOther
    <3>. QED  BY <1>2, <1>4, <1>6, <1>7, <2>2, <3>1, <3>2 DEF CommitsBuildOnEachOther
  <2>. QED  BY <2>1, <2>2
<1>13. FileInv'
  <2>1. ASSUME NEW v \in Writers, v # w
        PROVE  writer[v].pc # "open" /\ ~Registering(v)
    <3>1. writer[v].pc # "open"
      BY <1>4, <2>1 DEF StateInv, LockInv
    <3>2. ~Registering(v)
      BY <1>4, <2>1 DEF StateInv, FileInv, Registering
    <3>. QED  BY <3>1, <3>2
  <2>2. \A v \in Writers : ~Registering(v)' /\ writer'[v].pc # "open"
    BY <1>3, <1>5, <2>1 DEF Registering
  <2>3. ASSUME NEW v \in Writers
        PROVE  /\ writer'[v].pc = "create" => writer'[v].registers
               /\ writer'[v].pc = "ready" => ~writer'[v].registers
    <3>1. CASE v = w
      BY <1>3, <1>5, <3>1
    <3>2. CASE v # w
      BY <1>5, <3>2 DEF StateInv, FileInv
    <3>. QED  BY <3>1, <3>2
  <2>. QED  BY <1>4, <1>7, <2>2, <2>3 DEF FileInv
<1>. QED  BY <1>8, <1>9, <1>11, <1>12, <1>13 DEF StateInv
-----------------------------------------------------------------------------
\* Every step that ends an operation answers honestly.
LEMMA EndingStep ==
    ASSUME StateInv, NEW w \in Writers,
           RefuseState(w) \/ Fail(w) \/ Report(w) \/ ReadBack(w) \/ Crash(w)
    PROVE  \E token \in {NoToken, writer[w].token}, answer \in Answers :
               Answered(w, token, answer)
<1>1. ~Committed(NoToken)
  BY DEF StateInv, TokenInv, Committed, NoToken
<1>2. writer[w].pc \in {"create", "ready", "open"} => ~Committed(writer[w].token)
  BY DEF StateInv, TokenInv
<1>3. writer[w].pc = "idle" => w \notin lock
  BY DEF StateInv, LockInv
<1>4. writer[w].pc # "idle" => writer[w].token # NoToken
  BY DEF StateInv, TypeOK, NoToken
<1>5. CASE RefuseState(w)
  <2>1. Answered(w, NoToken, "failed")
    BY <1>1, <1>3, <1>5 DEF Answered, RefuseState
  <2>. QED  BY <2>1 DEF Answers
<1>6. CASE Fail(w)
  <2>1. file' = file \/ (Registering(w) /\ file' = "absent")
    BY <1>6 DEF Fail, FileAfterRollback, Registering, StateInv, FileInv
  <2>2. Answered(w, writer[w].token, "failed")
    BY <1>2, <1>4, <1>6, <2>1 DEF Answered, Fail, Answer
  <2>. QED  BY <2>2 DEF Answers
<1>7. CASE Report(w)
  <2>1. PICK answer \in {"ok", "warning"} : Answer(w, answer)
    BY <1>7 DEF Report
  <2>2. Committed(writer[w].token) /\ w \notin lock
    BY <1>7 DEF Report, StateInv, TokenInv, LockInv
  <2>3. Answered(w, writer[w].token, answer)
    BY <1>4, <1>7, <2>1, <2>2 DEF Answered, Report, Answer
  <2>. QED  BY <2>1, <2>3 DEF Answers
<1>8. CASE ReadBack(w)
  <2>1. PICK answer \in {"warning", "uncertain"} :
           Answer(w, answer) /\ (answer = "warning" => PersistedGeneration(w))
    BY <1>8 DEF ReadBack
  <2>2. PersistedGeneration(w) => Committed(writer[w].token)
    <3>1. PersistedGeneration(w) => marker = writer[w].token /\ marker # NoToken
      BY <1>4, <1>8 DEF PersistedGeneration, ReadBack
    <3>2. marker # NoToken => Len(commits) \in DOMAIN commits /\ commits[Len(commits)].token = marker
      <4>1. commits \in Seq([token : Tokens, basis : Nat])
        BY DEF StateInv, TypeOK
      <4>2. marker # NoToken => commits # <<>> /\ marker = commits[Len(commits)].token
        BY DEF StateInv, TypeOK
      <4>. QED  BY <4>1, <4>2
    <3>. QED  BY <3>1, <3>2 DEF Committed
  <2>3. Answered(w, writer[w].token, answer)
    BY <1>4, <1>8, <2>1, <2>2 DEF Answered, ReadBack, Answer, FileRetained
  <2>. QED  BY <2>1, <2>3 DEF Answers
<1>9. CASE Crash(w)
  <2>1. writer' = [writer EXCEPT ![w] =
           [NoOperation EXCEPT !.reply = [token |-> NoToken, answer |-> "none"]]]
    BY <1>9 DEF Crash, NoOperation, NoAnswer
  <2>2. Answered(w, NoToken, "none")
    BY <1>9, <2>1 DEF Answered, Crash
  <2>. QED  BY <2>2 DEF Answers
<1>. QED  BY <1>5, <1>6, <1>7, <1>8, <1>9

LEMMA StateNext == StateInv /\ [Next]_vars => StateInv'
<1>. SUFFICES ASSUME StateInv, [Next]_vars  PROVE StateInv'
  OBVIOUS
<1>1. CASE Next
  <2>1. PICK w \in Writers :
           \/ CreateFile(w) \/ Read(w)
           \/ Begin(w) \/ LoseCommit(w)
           \/ Commit(w)
           \/ RefuseState(w) \/ Fail(w) \/ Report(w) \/ ReadBack(w) \/ Crash(w)
    BY <1>1 DEF Next
  <2>2. CASE CreateFile(w) \/ Read(w)
    BY <2>2, StartStep
  <2>3. CASE Begin(w) \/ LoseCommit(w)
    BY <2>3, ContinueStep
  <2>4. CASE Commit(w)
    BY <2>4, CommitStep
  <2>5. CASE RefuseState(w) \/ Fail(w) \/ Report(w) \/ ReadBack(w) \/ Crash(w)
    BY <2>5, EndingStep, AnswerStep
  <2>. QED  BY <2>1, <2>2, <2>3, <2>4, <2>5
<1>2. CASE UNCHANGED vars
  BY <1>2 DEF vars, StateInv, TypeOK, LockInv, TokenInv, FileInv, Registering,
              CommitsBuildOnEachOther, AnswersAreHonest, Committed
<1>. QED  BY <1>1, <1>2

LEMMA StateInvariant == Spec => []StateInv
<1>1. Init => StateInv
  BY StateInit
<1>2. StateInv /\ [Next]_vars => StateInv'
  BY StateNext
<1>. QED  BY <1>1, <1>2, PTL DEF Spec

\* The variables keep their shapes and the marker names the newest commit.
THEOREM TypeCorrect == Spec => []TypeOK
<1>1. StateInv => TypeOK
  BY DEF StateInv
<1>. QED  BY <1>1, StateInvariant, PTL

\* No caller is told that something was, or was not, committed when the
\* opposite is the case, whichever COMMIT, ROLLBACK or read-back fails.
THEOREM HonestAnswers == Spec => []AnswersAreHonest
<1>1. StateInv => AnswersAreHonest
  BY DEF StateInv
<1>. QED  BY <1>1, StateInvariant, PTL

\* No commit overwrites one that its author had not read.
THEOREM CommitsBuild == Spec => []CommitsBuildOnEachOther
<1>1. StateInv => CommitsBuildOnEachOther
  BY DEF StateInv
<1>. QED  BY <1>1, StateInvariant, PTL

\* No failing registration removes a registered state.
THEOREM RegisteredStateIsNotRemoved == Spec => RegisteredStateStays
<1>1. StateInv /\ [Next]_vars => [file = "registered" => file' = "registered"]_vars
  <2>. SUFFICES ASSUME StateInv, Next, file = "registered"  PROVE file' = "registered"
    BY DEF vars
  <2>1. PICK w \in Writers :
           \/ CreateFile(w) \/ Read(w)
           \/ Begin(w) \/ LoseCommit(w)
           \/ Commit(w)
           \/ RefuseState(w) \/ Fail(w) \/ Report(w) \/ ReadBack(w) \/ Crash(w)
    BY DEF Next
  <2>2. CASE CreateFile(w) \/ Read(w) \/ Begin(w) \/ LoseCommit(w) \/ Commit(w)
    BY <2>2 DEF CreateFile, Read, Begin, LoseCommit, Commit
  <2>3. CASE RefuseState(w) \/ Fail(w) \/ Report(w) \/ ReadBack(w) \/ Crash(w)
    <3>1. file' = file \/ (Registering(w) /\ file' = "absent")
      BY <2>3, EndingStep DEF Answered
    <3>2. ~Registering(w)
      BY DEF StateInv, FileInv
    <3>. QED  BY <3>1, <3>2
  <2>. QED  BY <2>1, <2>2, <2>3
<1>. QED  BY <1>1, StateInvariant, PTL DEF Spec, RegisteredStateStays
-----------------------------------------------------------------------------
LEMMA InitRefines == Init => Promise!Init
BY DEF Init, Promise!Init, NoOperation, NoAnswer

LEMMA StepRefines ==
    ASSUME StateInv, [Next]_vars
    PROVE  [Promise!Next]_(Promise!vars)
<1>. DEFINE replies == [w \in Writers |-> writer[w].reply]
<1>1. writer \in [Writers -> Operation]
  BY DEF StateInv, TypeOK
<1>2. \A t : Promise!Committed(t) <=> Committed(t)
  BY DEF Promise!Committed, Committed
<1>3. ASSUME NEW w \in Writers, NEW token \in Tokens \cup {NoToken}, NEW answer \in Answers,
             writer'[w].reply = [token |-> token, answer |-> answer],
             \A v \in Writers : v # w => writer'[v] = writer[v],
             answer \in {"ok", "warning"} => Committed(token),
             answer = "failed" => ~Committed(token),
             commits' = commits
      PROVE  Promise!Next
  <2>1. replies' = [replies EXCEPT ![w] = [token |-> token, answer |-> answer]]
    BY <1>3
  <2>2. Promise!Reply(w, token, answer)
    BY <1>2, <1>3, <2>1 DEF Promise!Reply, Promise!Honest
  <2>. QED  BY <2>2 DEF Promise!Next, Answers
<1>4. CASE Next
  <2>1. PICK w \in Writers :
           \/ CreateFile(w) \/ Read(w)
           \/ Begin(w) \/ LoseCommit(w)
           \/ Commit(w)
           \/ RefuseState(w) \/ Fail(w) \/ Report(w) \/ ReadBack(w) \/ Crash(w)
    BY <1>4 DEF Next
  <2>2. CASE CreateFile(w) \/ Read(w)
    <3>1. /\ writer'[w].reply = [token |-> NoToken, answer |-> "none"] /\ commits' = commits
          /\ \A v \in Writers : v # w => writer'[v] = writer[v]
      BY <1>1, <2>2 DEF CreateFile, Read, Start, NoAnswer
    <3>2. "none" \in Answers /\ NoToken \in Tokens \cup {NoToken}
      BY DEF Answers
    <3>. QED  BY <1>3, <3>1, <3>2
  <2>3. CASE Begin(w) \/ LoseCommit(w)
    <3>1. commits' = commits /\ \A v \in Writers : writer'[v].reply = writer[v].reply
      BY <1>1, <2>3 DEF Begin, LoseCommit, Continue, Operation
    <3>. QED  BY <3>1 DEF Promise!vars
  <2>4. CASE Commit(w)
    <3>1. /\ commits' = Append(commits, [token |-> writer[w].token, basis |-> writer[w].basis])
          /\ \A v \in Writers : writer'[v].reply = writer[v].reply
          /\ writer[w].pc = "open"
      BY <1>1, <2>4 DEF Commit, Continue, Operation
    <3>2. ~Committed(writer[w].token)
      BY <3>1 DEF StateInv, TokenInv
    <3>3. writer[w].token \in Tokens /\ Len(commits) \in Nat
      BY <3>1, StateAssumption DEF StateInv, TypeOK, Tokens
    <3>4. /\ writer[w].basis \in 0 .. Len(commits)
          /\ commits = <<>> \/ writer[w].basis = Len(commits) - 1
      <4>1. CASE writer[w].registers
        <5>1. commits = <<>> /\ writer[w].basis = 0
          BY <3>1, <4>1 DEF StateInv, FileInv, Registering, CommitsBuildOnEachOther
        <5>. QED  BY <3>3, <5>1
      <4>2. CASE ~writer[w].registers
        <5>1. writer[w].basis = Len(commits) - 1 /\ writer[w].basis \in Nat
          BY <3>1, <4>2 DEF StateInv, TypeOK, FileInv, CommitsBuildOnEachOther
        <5>. QED  BY <3>3, <5>1
      <4>. QED  BY <4>1, <4>2
    <3>5. Promise!Commit(writer[w].token, writer[w].basis)
      BY <1>2, <3>1, <3>2, <3>4 DEF Promise!Commit
    <3>. QED  BY <3>3, <3>4, <3>5 DEF Promise!Next
  <2>5. CASE RefuseState(w) \/ Fail(w) \/ Report(w) \/ ReadBack(w) \/ Crash(w)
    <3>1. PICK token \in {NoToken, writer[w].token}, answer \in Answers :
             Answered(w, token, answer)
      BY <2>5, EndingStep
    <3>2. token \in Tokens \cup {NoToken}
      BY <1>1, <3>1 DEF Operation
    <3>3. /\ writer'[w].reply = [token |-> token, answer |-> answer] /\ commits' = commits
          /\ \A v \in Writers : v # w => writer'[v] = writer[v]
      BY <1>1, <3>1 DEF Answered, NoOperation
    <3>. QED  BY <1>3, <3>1, <3>2, <3>3 DEF Answered
  <2>. QED  BY <2>1, <2>2, <2>3, <2>4, <2>5
<1>5. CASE UNCHANGED vars
  BY <1>5 DEF vars, Promise!vars
<1>. QED  BY <1>4, <1>5

\* The executor state, with every COMMIT that fails in every way, implements
\* the register that callers rely on.
THEOREM RegisterImplemented == Spec => ImplementsFencedRegister
<1>1. Init => Promise!Init
  BY InitRefines
<1>2. StateInv /\ [Next]_vars => [Promise!Next]_(Promise!vars)
  BY StepRefines
<1>. QED  BY <1>1, <1>2, StateInvariant, PTL DEF Spec, ImplementsFencedRegister, Promise!Register
=============================================================================
