---------------------------- MODULE SharedStream ----------------------------
(***************************************************************************)
(* What media.StreamCoordinator promises its consumers: one stream at a    *)
(* time, which starts for the consumer that reserved it, is shared with    *)
(* others once it is live, and takes nobody in from the moment it ends.    *)
(* The last one out ends it in the step of leaving, whoever is still on it *)
(* may be told that it is over, and only then is the intercom's single     *)
(* source free for the next one.                                           *)
(*                                                                         *)
(* A stream is named after the consumer that reserves it.                  *)
(* StreamCoordinator implements this specification.                        *)
(***************************************************************************)
CONSTANT Consumers

VARIABLES
    life,      \* per stream: how far it is
    members,   \* per stream: the consumers on it
    told       \* consumers told that their stream is over

shareVars == <<life, members, told>>

ShareInit ==
    /\ life = [s \in Consumers |-> "none"]
    /\ members = [s \in Consumers |-> {}]
    /\ told = {}

Lives(s, stage) == life' = [life EXCEPT ![s] = stage]

\* The source is free: c reserves it.
Reserves(c) ==
    /\ life[c] = "none"
    /\ \A s \in Consumers : life[s] \in {"none", "over"}
    /\ Lives(c, "starting")
    /\ UNCHANGED <<members, told>>

\* c goes on stream s: its own while that starts, another's once it is live.
Enters(c, s) ==
    /\ life[s] = IF s = c THEN "starting" ELSE "live"
    /\ \A t \in Consumers : c \notin members[t]
    /\ members' = [members EXCEPT ![s] = @ \cup {c}]
    /\ UNCHANGED <<life, told>>

GoesLive(s) ==
    /\ life[s] = "starting"
    /\ Lives(s, "live")
    /\ UNCHANGED <<members, told>>

\* c leaves stream s; a live stream ends with the last one out.
Leaves(c, s) ==
    /\ c \in members[s] /\ life[s] # "starting"
    /\ members' = [members EXCEPT ![s] = @ \ {c}]
    /\ IF life[s] = "live" /\ members[s] = {c} THEN Lives(s, "ending") ELSE UNCHANGED life
    /\ UNCHANGED told

\* Something else ends the stream: a BYE, a failure, a stall, the end of the ring.
Ends(s) ==
    /\ life[s] \in {"starting", "live"}
    /\ Lives(s, "ending")
    /\ UNCHANGED <<members, told>>

\* The teardown is over and the source is free.
Frees(s) ==
    /\ life[s] = "ending"
    /\ Lives(s, "over")
    /\ UNCHANGED <<members, told>>

\* No source could be made for the stream, on which nobody else is yet.
Aborts(s) ==
    /\ life[s] = "starting" /\ members[s] \subseteq {s}
    /\ Lives(s, "over")
    /\ UNCHANGED <<members, told>>

\* Whoever is on a stream that ends, or has ended, hears of it.
HearsOfEnd(s) ==
    /\ life[s] \in {"ending", "over"}
    /\ told' = told \cup members[s]
    /\ UNCHANGED <<life, members>>

ShareNext ==
    \/ \E c \in Consumers : Reserves(c)
    \/ \E c \in Consumers, s \in Consumers : Enters(c, s) \/ Leaves(c, s)
    \/ \E s \in Consumers :
          GoesLive(s) \/ Ends(s) \/ Frees(s) \/ Aborts(s) \/ HearsOfEnd(s)

ShareSpec == ShareInit /\ [][ShareNext]_shareVars
=============================================================================
