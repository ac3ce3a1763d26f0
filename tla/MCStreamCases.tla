--------------------------- MODULE MCStreamCases ---------------------------
(***************************************************************************)
(* Instances of StreamCoordinator explored in one run and chosen by the    *)
(* first state: one consumer, its calls and what goes wrong with its       *)
(* source, on the far end's side, on the bus or through the API's hangup;  *)
(* or all consumers, sharing streams while no call comes, with hangups or  *)
(* with startup budgets that run out.                                      *)
(***************************************************************************)
EXTENDS MCStreamCoordinator

CONSTANT First   \* the consumer that asks alone

VARIABLE case   \* the instance that runs

Works ==
    \/ \E c \in Consumers : ConsumerStep(c)
    \/ \E l \in Leases : TeardownStep(l) \/ SourceStep(l)
    \/ PromotionEnds \/ DrainStep \/ HangupStep
    \/ Rest

Asks(c) == ProbesRinging(c) \/ \E by \in {"released", "left"} : Leave(c, by)

TimesOut(c) == JoinTimesOut(c) \/ StartTimesOut(c)

Alone == Works \/ Asks(First) \/ TimesOut(First) \/ LineMoves

Together == Works \/ \E c \in Consumers : Asks(c) \/ Talk(c)

CasesInit == Init /\ case \in {"far end", "bus", "hangup", "share", "slow share"}

CasesNext ==
    /\ \/ /\ case = "far end"
          /\ Alone \/ RemoteBYE(First) \/ SourceFailure(First) \/ Reconcile(First)
       \/ /\ case = "bus"
          /\ \/ Alone \/ Reconcile(First) \/ ObserveControlStop
             \/ \E track \in Tracks : ObserveControlTrack(track)
       \/ case = "hangup" /\ (Alone \/ SourceFailure(First) \/ Hangup)
       \/ case = "share" /\ (Together \/ Hangup)
       \/ case = "slow share" /\ (Together \/ \E c \in Consumers : TimesOut(c))
    /\ UNCHANGED case

CasesSpec == CasesInit /\ [][CasesNext]_<<vars, case>> /\ Fairness
=============================================================================
