---------------------------- MODULE FencedRegister ----------------------------
(***************************************************************************)
(* What a caller of the executor state relies on: a state that is          *)
(* registered once and then changed by one commit at a time, each built on *)
(* the one before it, and an answer that never misreports a commit.        *)
(***************************************************************************)
EXTENDS Naturals, Sequences

CONSTANTS Writers, Tokens, NoToken

VARIABLES
    commits,    \* [token, basis] of each commit, the registration first
    replies     \* the last answer given to each writer, and to which operation

vars == <<commits, replies>>

Committed(token) == \E i \in DOMAIN commits : commits[i].token = token

Init ==
    /\ commits = <<>>
    /\ replies = [w \in Writers |-> [token |-> NoToken, answer |-> "none"]]

\* basis is the revision an operation was decided on.  The registration
\* produces revision 0.
Commit(token, basis) ==
    /\ ~Committed(token)
    /\ commits = <<>> \/ basis = Len(commits) - 1
    /\ commits' = Append(commits, [token |-> token, basis |-> basis])
    /\ UNCHANGED replies

\* "ok" and "warning" confirm a commit, "failed" denies one that will never
\* take effect, "uncertain" does neither.
Honest(token, answer) ==
    /\ answer \in {"ok", "warning"} => Committed(token)
    /\ answer = "failed" => ~Committed(token)

Reply(w, token, answer) ==
    /\ Honest(token, answer)
    /\ replies' = [replies EXCEPT ![w] = [token |-> token, answer |-> answer]]
    /\ UNCHANGED commits

Next ==
    \/ \E token \in Tokens, basis \in 0 .. Len(commits) : Commit(token, basis)
    \/ \E w \in Writers, token \in Tokens \cup {NoToken},
          answer \in {"none", "ok", "warning", "failed", "uncertain"} : Reply(w, token, answer)

Register == Init /\ [][Next]_vars
=============================================================================
