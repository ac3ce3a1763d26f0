----------------------------- MODULE MCSipLive -----------------------------
(***************************************************************************)
(* What SIP promises will happen: the calls of the manager and, on its     *)
(* own, the endpoint under them, with its registration and its Close.  The *)
(* first state chooses which of the two runs.                              *)
(***************************************************************************)
EXTENDS SipManager, SipEndpoint

VARIABLE part   \* the part that runs

\* An endpoint that was closed: where it stays while the calls run.
EndpointClosed ==
    /\ loop = "stopped" /\ closeAt = "closed"
    /\ known = FALSE /\ link = FALSE /\ registered = FALSE /\ up = TRUE
    /\ flexRestarts = 0 /\ flexFailures = 0
    /\ handler = [h \in Inbound |-> "over"]

LiveInit ==
    /\ Init
    /\ \/ part = "calls" /\ EndpointClosed
       \/ part = "endpoint" /\ EndpointInit

CallsRun == part = "calls" /\ Next /\ UNCHANGED <<part, endpointVars>>

EndpointRuns == part = "endpoint" /\ EndpointNext /\ UNCHANGED <<part, vars>>

\* The part that stands still has no fair action enabled.
LiveSpec ==
    /\ LiveInit /\ [][CallsRun \/ EndpointRuns]_<<part, vars, endpointVars>>
    /\ Fairness /\ EndpointFairness
=============================================================================
