----------------------------- MODULE BusControl -----------------------------
(***************************************************************************)
(* openwebnet.Control: the commands sent to the intercom over a connection *)
(* of their own.  Every command runs in the goroutine of its HTTP request  *)
(* or HomeKit write, under that caller's context and under one deadline    *)
(* for the whole connection, the handshake, the answers and, for Unlock,   *)
(* the press of the button included.  The intercom is external: it takes   *)
(* its time, refuses, or stops answering.                                  *)
(***************************************************************************)
EXTENDS Integers

CONSTANTS
    Commanders,     \* callers that may have a command under way
    Budget          \* Control.timeout, in ticks

ASSUME ControlAssumption == Budget \in Nat \ {0}

VARIABLE session    \* caller -> its connection

controlVars == session

DefaultPress == Budget - 1      \* DefaultUnlockDurationMS, MaxUnlockDurationMS

\* left: ticks to the connection's deadline; due: ticks of the press to go;
\* down: the intercom has the open frame and not the close frame; gone: the
\* caller's context has ended; slow: an answer took a tick or more.
NoSession ==
    [at |-> "none", op |-> "none", left |-> 0, due |-> 0,
     down |-> FALSE, gone |-> FALSE, slow |-> FALSE, refused |-> FALSE]

\* Mute, Unmute, EndCall and the status queries are one frame and its answer;
\* Enable and Disable are two such sessions, the first of which asks the status,
\* and the frames of a diagnostic snapshot follow each other in one session, of
\* which any one stands for all.
Operations == {"unlock", "command"}

Connections ==
    [at : {"none", "handshake", "asks", "asked", "press", "close", "closed",
           "failed", "done"},
     op : Operations \cup {"none"}, left : 0 .. Budget, due : 0 .. Budget,
     down : BOOLEAN, gone : BOOLEAN, slow : BOOLEAN, refused : BOOLEAN]

ControlType == session \in [Commanders -> Connections]

ControlInit == session = [c \in Commanders |-> NoSession]

Move(c, stage) == session' = [session EXCEPT ![c].at = stage]

\* Unlock takes the default for a zero and refuses a press over the limit.
\* MUTANT of PressAllowed: the limit leaves no time for the close frame.
PressAllowed_WholeBudget(d) == d \in 1 .. Budget
PressAllowed(d) == d \in 1 .. DefaultPress

PressOf(d) == IF d = 0 THEN DefaultPress ELSE d

\* exec: dial, set the deadline, say hello.  d is the configured press.
Begin(c, op, d) ==
    /\ session[c].at \in {"none", "done"}
    /\ IF op = "unlock" THEN PressAllowed(PressOf(d)) ELSE d = 0
    /\ session' = [session EXCEPT ![c] =
           [NoSession EXCEPT !.at = "handshake", !.op = op, !.left = Budget,
                             !.due = IF op = "unlock" THEN PressOf(d) ELSE 0]]

\* The hello is acknowledged; anything else, a request for a password included,
\* ends the command before it is sent.
Handshake(c) ==
    /\ session[c].at = "handshake" /\ session[c].left > 0
    /\ Move(c, "asks") \/ Move(c, "failed")

\* The first frame of the command reaches the intercom, which carries it out,
\* unless it refuses it.
Ask(c) ==
    /\ session[c].at = "asks" /\ session[c].left > 0
    /\ \/ session' = [session EXCEPT ![c].at = "asked",
                                      ![c].down = session[c].op = "unlock"]
       \/ session' = [session EXCEPT ![c].at = "failed", ![c].refused = TRUE]

\* send and sendStatus: the answer, and the frames that follow it, are read.
\* An unexpected one fails the command although it was carried out.
CommandAnswered(c) ==
    /\ session[c].at = "asked" /\ session[c].left > 0
    /\ \/ session' = [session EXCEPT
              ![c].at = IF session[c].op = "unlock" THEN "press" ELSE "done"]
       \/ session' = [session EXCEPT ![c].at = "failed", ![c].refused = TRUE]

\* Unlock waits for the press to end, or for its caller to go away.
PressEnds(c) ==
    /\ session[c].at = "press"
    /\ \/ session[c].due = 0 /\ Move(c, "close")
       \/ session[c].gone /\ Move(c, "failed")

\* The close frame is written under the connection's deadline.
CloseFrame(c) ==
    /\ session[c].at = "close" /\ session[c].left > 0
    /\ session' = [session EXCEPT ![c].at = "closed", ![c].down = FALSE]

CloseAnswered(c) ==
    /\ session[c].at = "closed"
    /\ Move(c, "done") \/ Move(c, "failed")

\* The deadline of the connection passes: the next read or write fails.
Expires(c) ==
    /\ session[c].left = 0
    /\ session[c].at \in {"handshake", "asks", "asked", "close"}
    /\ Move(c, "failed")

\* The handler has answered; the caller may send another command.
Fails(c) ==
    /\ session[c].at = "failed" /\ Move(c, "done")

\* The HTTP client disconnects, or the caller's own timeout runs out.
CallerLeaves(c) ==
    /\ session[c].at \notin {"none", "done"} /\ ~session[c].gone
    /\ session' = [session EXCEPT ![c].gone = TRUE]

\* A tick: a press that is due now ends before the clock moves on.
ControlTick ==
    /\ \A c \in Commanders : session[c].at = "press" => session[c].due > 0
    /\ \E c \in Commanders : session[c].left > 0 \/ session[c].at = "press"
    /\ session' = [c \in Commanders |->
           [session[c] EXCEPT
               !.left = IF @ > 0 THEN @ - 1 ELSE 0,
               !.due = IF session[c].at = "press" THEN @ - 1 ELSE @,
               !.slow = @ \/ session[c].at \in {"handshake", "asks", "asked", "close"}]]

ControlNext ==
    \/ ControlTick
    \/ \E c \in Commanders :
          \/ Handshake(c) \/ Ask(c) \/ CommandAnswered(c) \/ PressEnds(c)
          \/ CloseFrame(c) \/ CloseAnswered(c)
          \/ Expires(c) \/ Fails(c) \/ CallerLeaves(c)
          \/ \E op \in Operations, d \in 0 .. Budget : Begin(c, op, d)

ControlSpec == ControlInit /\ [][ControlNext]_controlVars

LeftDown(c) == session[c].at = "done" /\ session[c].down

(***************************************************************************)
(* The press of an unlock fits its connection: when an unlock is over and  *)
(* the button is still down, its caller went away, the intercom answered   *)
(* something else, or an answer took a tick of the budget or more.  It is  *)
(* the limit of Unlock against the deadline that exec sets.                *)
(***************************************************************************)
PressFitsBudget ==
    \A c \in Commanders : LeftDown(c) =>
        session[c].gone \/ session[c].refused \/ session[c].slow
=============================================================================
