----------------------------- MODULE ReviewSensor -----------------------------
(***************************************************************************)
(* The review sensor (src/src/adapters/github/review-sensor.ts, run by     *)
(* .github/workflows/threadloop-review-sensor.yml): a job reads the        *)
(* reviews and then the review threads of a pull request from GitHub, a    *)
(* page at a time, and signs what it has read as one snapshot.  People     *)
(* review, answer and merge meanwhile, and other runs of the job may be    *)
(* under way.                                                              *)
(*                                                                         *)
(* A review approves or it does not; a thread is settled when it is        *)
(* resolved or outdated.  facts stands for the number, url, head, base,    *)
(* merge and decision that every query returns with its page.              *)
(***************************************************************************)
EXTENDS Naturals, Sequences, FiniteSets

CONSTANTS
    Collectors,     \* runs of the job
    PageSize,       \* items on a page of GitHub's
    Facts,
    NoFacts,        \* no query has been answered yet
    MaxItems,       \* bound: reviews, and threads
    MaxChanges,     \* bound: changes of the pull request
    Overlap         \* whether runs of the job may be under way together

ASSUME SensorAssumption ==
    /\ Collectors \subseteq Nat
    /\ PageSize \in Nat \ {0}
    /\ Facts # {} /\ NoFacts \notin Facts
    /\ MaxItems \in Nat
    /\ MaxChanges \in Nat
    /\ Overlap \in BOOLEAN

VARIABLES
    past,           \* history: the pull request at each instant, the present one last
    collector       \* what each run has read, and at which instants

Now == Len(past)
PullRequest == past[Now]

Connections == {"reviews", "threads"}
\* The steps of a job: a connection while it is read, then "collected", "signed".
Idle == [pc |-> "idle", observed |-> 0, metadata |-> NoFacts, cursor |-> 0, seen |-> {},
         approvals |-> {}, blocking |-> {}, read |-> {}]

Untouched == [facts |-> CHOOSE facts \in Facts : TRUE, reviews |-> <<>>, threads |-> <<>>]

Started == {c \in Collectors : collector[c].pc # "idle"}

SensorInit ==
    /\ past \in {<<[Untouched EXCEPT !.reviews = reviews, !.threads = threads]>> :
                    reviews \in {<<>>, <<TRUE>>}, threads \in {<<>>, <<FALSE, TRUE>>}}
    /\ collector = [c \in Collectors |-> Idle]
-----------------------------------------------------------------------------
\* observedAt is taken before the first query.
StartCollection(c) ==
    /\ collector[c].pc = "idle"
    /\ Overlap \/ \A d \in Collectors : collector[d].pc \notin Connections
    /\ past' = Append(past, PullRequest)
    /\ collector' = [collector EXCEPT ![c].pc = "reviews", ![c].observed = Now + 1]

\* GitHub's answer: the items after the cursor, and the next cursor, or 0.
Page(connection, cursor) ==
    LET items == PullRequest[connection]
        last == IF cursor + PageSize < Len(items) THEN cursor + PageSize ELSE Len(items)
    IN  [nodes |-> cursor + 1 .. last, next |-> IF last < Len(items) THEN last ELSE 0]

\* A page with the right items may still lead back to a cursor it gave before.
Replies(connection, cursor) ==
    LET page == Page(connection, cursor)
    IN  {page} \cup [nodes : {page.nodes}, next : 1 .. cursor]

\* Slip: the facts of a connection's first page are taken anew.
StableWithinConnection(c) ==
    collector[c].cursor = 0 \/ collector[c].metadata = PullRequest.facts

\* assertStableMetadata.
StableMetadata(c) == collector[c].metadata \in {NoFacts, PullRequest.facts}

FreshCursor(c, next) == next \notin collector[c].seen

\* What a page adds to the snapshot.
WithNodes(c, connection, nodes) ==
    LET items == PullRequest[connection]
    IN  [collector[c] EXCEPT
            !.metadata = PullRequest.facts,
            !.read = @ \cup {Now},
            !.approvals = @ \cup {i \in nodes : connection = "reviews" /\ items[i]},
            !.blocking = @ \cup {i \in nodes : connection = "threads" /\ ~items[i]}]

\* Slip: the first page is all there is.
NoPageLeft(reply) == TRUE

LastPage(reply) == reply.next = 0

ReadPage(c, connection) ==
    /\ collector[c].pc = connection
    /\ StableMetadata(c)
    /\ \E reply \in Replies(connection, collector[c].cursor) :
          /\ ~LastPage(reply)
          /\ FreshCursor(c, reply.next)
          /\ collector' = [collector EXCEPT ![c] =
                [WithNodes(c, connection, reply.nodes) EXCEPT
                    !.cursor = reply.next, !.seen = @ \cup {reply.next}]]
    /\ UNCHANGED past

ReadLastPage(c, connection) ==
    /\ collector[c].pc = connection
    /\ StableMetadata(c)
    /\ \E reply \in Replies(connection, collector[c].cursor) :
          /\ LastPage(reply)
          /\ collector' = [collector EXCEPT ![c] =
                [WithNodes(c, connection, reply.nodes) EXCEPT
                    !.pc = IF connection = "reviews" THEN "threads" ELSE "collected",
                    !.cursor = 0,
                    !.seen = {}]]
    /\ UNCHANGED past

Fail(c) ==
    /\ collector' = [collector EXCEPT ![c] = [Idle EXCEPT !.pc = "failed"]]
    /\ UNCHANGED past

\* The pull request changed while it was read, or GitHub repeats a cursor.
RefusePage(c, connection) ==
    /\ collector[c].pc = connection
    /\ \/ ~StableMetadata(c)
       \/ \E reply \in Replies(connection, collector[c].cursor) :
             ~LastPage(reply) /\ ~FreshCursor(c, reply.next)
    /\ Fail(c)

\* A query is not answered, or with errors; the job is cancelled.
FailToCollect(c) ==
    /\ collector[c].pc \in Connections \cup {"collected"}
    /\ Fail(c)

\* authorizeReviewReportForSigning: the report is signed as it was collected.
Sign(c) ==
    /\ collector[c].pc = "collected"
    /\ collector' = [collector EXCEPT ![c].pc = "signed"]
    /\ UNCHANGED past
-----------------------------------------------------------------------------
\* People, and GitHub itself.

Change(pullRequest) ==
    /\ Now <= MaxChanges + Cardinality(Started)
    /\ past' = Append(past, pullRequest)
    /\ UNCHANGED collector

\* A push, a merge, a review decision.
ChangeFacts == \E facts \in Facts \ {PullRequest.facts} : Change([PullRequest EXCEPT !.facts = facts])

\* An item is added: an approval, or a thread that is open.
AddItem(connection) ==
    /\ Len(PullRequest[connection]) < MaxItems
    /\ Change([PullRequest EXCEPT ![connection] = Append(@, connection = "reviews")])

\* An approval is dismissed; a thread is settled, or opened again.
ChangeItem(connection) ==
    \E i \in DOMAIN PullRequest[connection] :
        /\ connection = "reviews" => PullRequest[connection][i]
        /\ Change([PullRequest EXCEPT ![connection][i] = ~@])

SensorNext ==
    \/ \E c \in Collectors :
          \/ StartCollection(c)
          \/ \E connection \in Connections :
                ReadPage(c, connection) \/ ReadLastPage(c, connection)
                    \/ RefusePage(c, connection)
          \/ FailToCollect(c)
          \/ Sign(c)
    \/ ChangeFacts
    \/ \E connection \in Connections : AddItem(connection) \/ ChangeItem(connection)

sensorVars == <<past, collector>>
-----------------------------------------------------------------------------
Item(connection, i, k) == i \in DOMAIN past[k][connection] /\ past[k][connection][i]
Settled(i, k) == Item("threads", i, k)
Unsettled(i, k) == i \in DOMAIN past[k].threads /\ ~past[k].threads[i]

Reports == {c \in Collectors : collector[c].pc \in {"collected", "signed"}}

\* The instants from observed_at to the last query.
During(c) == {k \in collector[c].observed .. Now : \E last \in collector[c].read : k <= last}

\* A report shows every thread that stood unsettled from its observed_at until
\* its last query, on whatever page, and however the pull request changed.
StandingBlockersAreShown ==
    \A c \in Reports : \A i \in 1 .. MaxItems :
        (\A k \in During(c) : Unsettled(i, k)) => i \in collector[c].blocking

\* Nothing a report shows is older than its observed_at: an approval stood, a
\* thread was unsettled, at some instant since.  All of it was read while the head,
\* the merge and the decision were those the report names.
ShownEvidenceHeld ==
    \A c \in Reports :
        /\ \A i \in collector[c].approvals : \E k \in During(c) : Item("reviews", i, k)
        /\ \A i \in collector[c].blocking : \E k \in During(c) : Unsettled(i, k)
        /\ \A k \in collector[c].read : past[k].facts = collector[c].metadata

\* A signed snapshot, which is authenticated and never looked into again, shows
\* what GitHub said between its observed_at and its last query: nothing that stood
\* is missing, and nothing else is there.
SnapshotsAreSound == StandingBlockersAreShown /\ ShownEvidenceHeld
=============================================================================
