----------------------------- MODULE GetService -----------------------------
(***************************************************************************)
(* What getData promises its caller, without connections, requests or      *)
(* timers: a call ends with an error or with a version of the data that    *)
(* the server held after the call and that no earlier completion is newer  *)
(* than; or it is lost and its completion is never called.  No call        *)
(* completes twice.  The download of the start screen relies on no more.   *)
(***************************************************************************)
EXTENDS Integers, Sequences

CONSTANTS
    NumGets,     \* calls of getData, a bound
    MaxVersion,  \* versions of the data, a bound
    Failure      \* the result of a call that ends with an error

VARIABLES
    published,   \* the version on the server
    status,      \* of each call
    askedAt,     \* the version on the server when the call was made
    completed    \* completions, in the order they are delivered

vars == <<published, status, askedAt, completed>>

Gets == 1..NumGets
Versions == 1..MaxVersion

TypeOK ==
    /\ published \in Versions
    /\ status \in [Gets -> {"idle", "pending", "done", "lost"}]
    /\ askedAt \in [Gets -> 0..MaxVersion]
    /\ completed \in Seq([get : Gets, result : Versions \cup {Failure}])

Init ==
    /\ published = 1
    /\ status = [g \in Gets |-> "idle"]
    /\ askedAt = [g \in Gets |-> 0]
    /\ completed = <<>>

Publish ==
    /\ published < MaxVersion
    /\ published' = published + 1
    /\ UNCHANGED <<status, askedAt, completed>>

CallGet(g) ==
    /\ status[g] = "idle"
    /\ status' = [status EXCEPT ![g] = "pending"]
    /\ askedAt' = [askedAt EXCEPT ![g] = published]
    /\ UNCHANGED <<published, completed>>

\* The versions a call may still return.
Fresh(g) ==
    {v \in Versions :
        /\ askedAt[g] <= v /\ v <= published
        /\ \A i \in DOMAIN completed :
               completed[i].result \in Versions => completed[i].result <= v}

Return(g, result) ==
    /\ status[g] = "pending"
    /\ result \in Fresh(g) \cup {Failure}
    /\ status' = [status EXCEPT ![g] = "done"]
    /\ completed' = Append(completed, [get |-> g, result |-> result])
    /\ UNCHANGED <<published, askedAt>>

\* One broken connection can lose several calls.
Lose(calls) ==
    /\ \A g \in calls : status[g] = "pending"
    /\ status' = [g \in Gets |-> IF g \in calls THEN "lost" ELSE status[g]]
    /\ UNCHANGED <<published, askedAt, completed>>

Next ==
    \/ Publish
    \/ \E g \in Gets :
          CallGet(g) \/ \E result \in Versions \cup {Failure} : Return(g, result)
    \/ \E calls \in SUBSET Gets : Lose(calls)

Spec == Init /\ [][Next]_vars
=============================================================================
