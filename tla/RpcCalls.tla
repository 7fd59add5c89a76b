------------------------------- MODULE RpcCalls -------------------------------
(***************************************************************************)
(* What a caller may rely on when it sends a request to a stdio server,    *)
(* with neither queues, processes nor wire IDs: the server executes it at  *)
(* most once, and the caller gets one outcome, which stays: it is refused, *)
(* or leaves, or is told the result of its own request and of no other,    *)
(* or that the server is stopping, or an error.                            *)
(***************************************************************************)
EXTENDS Naturals

CONSTANT Requests

VARIABLES
  outcome,     \* of each request: new, open, refused, left, or what it was told
  executions   \* how often the child has been given it

callVars == <<outcome, executions>>

Init == /\ outcome = [r \in Requests |-> <<"new">>]
        /\ executions = [r \in Requests |-> 0]

Becomes(rs, from, to) ==
  /\ \A r \in rs : outcome[r] = from
  /\ outcome' = [r \in Requests |-> IF r \in rs THEN to ELSE outcome[r]]
  /\ UNCHANGED executions

Open(r)   == Becomes({r}, <<"new">>, <<"open">>)
Refuse(r) == Becomes({r}, <<"new">>, <<"refused">>)
Leave(r)  == Becomes({r}, <<"open">>, <<"left">>)

\* Also when its caller has left; never when it was refused, nor twice.
Execute(r) ==
  /\ outcome[r] \notin {<<"new">>, <<"refused">>} /\ executions[r] = 0
  /\ executions' = [executions EXCEPT ![r] = 1]
  /\ UNCHANGED outcome

TellResult(r) == executions[r] = 1 /\ Becomes({r}, <<"open">>, <<"result", r>>)
TellError(r)  == Becomes({r}, <<"open">>, <<"error">>)

\* Those that are not in the hands of the child, or all, are told together.
TellStopping(rs) == Becomes(rs, <<"open">>, <<"stopping">>)

Next == \/ \E rs \in SUBSET Requests : TellStopping(rs)
        \/ \E r \in Requests : \/ Open(r) \/ Refuse(r) \/ Leave(r)
                               \/ Execute(r) \/ TellResult(r) \/ TellError(r)

Spec == Init /\ [][Next]_callVars
=============================================================================
