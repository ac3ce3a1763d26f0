----------------------------- MODULE RingHolder -----------------------------
(***************************************************************************)
(* app.ringHolder: while the door rings the companion itself holds the     *)
(* ringing preview, so that the ring is recorded whether or not a card is  *)
(* open.  It follows the events of the line (CallLine), one at a time, as  *)
(* the manager's drain delivers them; the stream is acquired on a          *)
(* goroutine of its own, which may come back after its ring is over.       *)
(* A lease and its clip are named by the generation that acquired them.    *)
(***************************************************************************)
EXTENDS CallLine

CONSTANTS
    Streaming,       \* the entrypoints with the stream capability
    MaxGeneration,   \* bound on ring events
    MaxPending       \* bound on events committed and not yet delivered

ASSUME HolderAssumption ==
    /\ Streaming \subseteq Entrypoints
    /\ MaxGeneration \in Nat /\ MaxPending \in Nat

VARIABLES
    generation,   \* changes with every ring and every end of one
    lease,        \* the lease held, 0 for nil; its clip goes with it
    acquiring,    \* generation -> where its acquire goroutine stands
    leaving,      \* what the drain has taken and not yet left, 0 for nothing
    leases,       \* the leases that are open in the coordinator
    clips         \* the clips that are open in the recorder

holderVars == <<callVars, generation, lease, acquiring, leaving, leases, clips>>
ownHolderVars == <<generation, lease, acquiring, leaving, leases, clips>>

Generations == 1 .. MaxGeneration
AcquireSteps == {"none", "spawned", "starting", "acquired", "stale", "done"}

HolderType ==
    /\ CallType
    /\ generation \in 0 .. MaxGeneration
    /\ lease \in 0 .. MaxGeneration
    /\ acquiring \in [Generations -> AcquireSteps]
    /\ leaving \in 0 .. MaxGeneration
    /\ leases \subseteq Generations
    /\ clips \subseteq Generations

HolderInit ==
    /\ CallInit
    /\ generation = 0 /\ lease = 0 /\ leaving = 0
    /\ acquiring = [g \in Generations |-> "none"]
    /\ leases = {} /\ clips = {}

\* The call manager commits events; the holder is not involved.
LineMoves ==
    /\ Len(queue) < MaxPending
    /\ CallNext
    /\ Len(queue') > Len(queue)
    /\ UNCHANGED ownHolderVars

\* Both hold and release begin by taking what is held, under the lock, and
\* close its clip and leave its lease after it.
TakeHeld ==
    /\ generation' = generation + 1
    /\ leaving' = lease
    /\ lease' = 0

\* hold, up to the start of the acquire goroutine.
Hold(ep) ==
    /\ TakeHeld
    /\ acquiring' = IF ep \in Streaming
                      THEN [acquiring EXCEPT ![generation + 1] = "spawned"]
                      ELSE acquiring
    /\ clips' = clips \ {lease}
    /\ UNCHANGED leases

Release ==
    /\ TakeHeld
    /\ clips' = clips \ {lease}
    /\ UNCHANGED <<acquiring, leases>>

EndsRing(e) ==
    e.type \in {"call.answered", "call.incoming_ended", "call.declined",
                "call.hung_up"}

\* route: the drain delivers one event, and the next one only when the holder
\* has left the previous lease.
RouteEvent ==
    /\ leaving = 0 /\ generation < MaxGeneration
    /\ Delivered
    /\ LET e == Head(queue) IN
       IF e.type = "call.incoming" THEN Hold(e.entrypoint)
       ELSE IF EndsRing(e) THEN Release
       ELSE UNCHANGED ownHolderVars

LeaveTaken ==
    /\ leaving # 0
    /\ leases' = leases \ {leaving}
    /\ leaving' = 0
    /\ UNCHANGED <<callVars, generation, lease, acquiring, clips>>

\* The goroutine opens its clip before it asks for the stream; the recorder
\* closes the clip that is still open.
StartClip(g) ==
    /\ acquiring[g] = "spawned"
    /\ acquiring' = [acquiring EXCEPT ![g] = "starting"]
    /\ clips' = {g}
    /\ UNCHANGED <<callVars, generation, lease, leaving, leases>>

\* AcquireRingingPreview returns, at the latest after ringHolderStartupTimeout.
Acquire(g) ==
    /\ acquiring[g] = "starting"
    /\ \/ /\ acquiring' = [acquiring EXCEPT ![g] = "acquired"]
          /\ leases' = leases \cup {g}
          /\ UNCHANGED clips
       \/ /\ acquiring' = [acquiring EXCEPT ![g] = "done"]
          /\ clips' = clips \ {g}
          /\ UNCHANGED leases
    /\ UNCHANGED <<callVars, generation, lease, leaving>>

\* MUTANT of Current: a late acquire no longer sees that its ring is gone.
Current_Always(g) == TRUE

Current(g) == generation = g

\* The lease is stored only if the ring is still the one it was acquired for.
Store(g) ==
    /\ acquiring[g] = "acquired"
    /\ IF Current(g)
         THEN /\ lease' = g
              /\ acquiring' = [acquiring EXCEPT ![g] = "done"]
              /\ UNCHANGED clips
         ELSE /\ acquiring' = [acquiring EXCEPT ![g] = "stale"]
              /\ clips' = clips \ {g}
              /\ UNCHANGED lease
    /\ UNCHANGED <<callVars, generation, leaving, leases>>

LeaveStale(g) ==
    /\ acquiring[g] = "stale"
    /\ leases' = leases \ {g}
    /\ acquiring' = [acquiring EXCEPT ![g] = "done"]
    /\ UNCHANGED <<callVars, generation, lease, leaving, clips>>

\* The coordinator reports a BYE or a failure to its consumers: the clip is
\* closed, the lease stays the holder's to leave.
StreamLost(g) ==
    /\ g \in leases
    /\ clips' = clips \ {g}
    /\ UNCHANGED <<callVars, generation, lease, acquiring, leaving, leases>>

HolderNext ==
    \/ LineMoves \/ RouteEvent \/ LeaveTaken
    \/ \E g \in Generations :
           \/ StartClip(g) \/ Acquire(g) \/ Store(g)
           \/ LeaveStale(g) \/ StreamLost(g)

HolderSpec == HolderInit /\ [][HolderNext]_holderVars

-----------------------------------------------------------------------------

\* Whatever the holder has opened it will close: an open lease is the one held,
\* the one the drain is leaving, or one whose goroutine has not finished with
\* it, and no clip outlives the lease it records.  Once nothing rings and every
\* event is delivered, it holds nothing.  A second ring, an end or an answer
\* that comes while the stream starts never makes the holder forget either
\* (ringholder.go:121), which would keep the intercom's only stream up for good.
NothingForgotten ==
    /\ \A g \in leases :
           g \in {lease, leaving} \/ acquiring[g] \in {"acquired", "stale"}
    /\ \A g \in clips : acquiring[g] = "starting" \/ g \in leases
    /\ ringing = None /\ queue = <<>> => lease = 0
=============================================================================
