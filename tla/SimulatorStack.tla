---- MODULE SimulatorStack ----
(***************************************************************************)
(* The docker-compose stack of the TPM simulator and the Python object     *)
(* that drives it (simulator/docker_stack.py): up, down and the exit of    *)
(* the with-block, and the two polling loops wait_healthy and wait_exited. *)
(* Containers change state on their own while the driver waits, a compose  *)
(* command may fail or be killed at its timeout half done, and the loops   *)
(* measure a deadline on a clock that also runs during polls.              *)
(***************************************************************************)
EXTENDS Integers, FiniteSets

CONSTANTS Services,       \* compose services
          Checked,        \* the services with a healthcheck
          RemoveVolumes,  \* remove_volumes
          Timeout,        \* timeout argument of a wait, in clock ticks
          PollInterval,   \* poll_interval, in ticks
          PollMax,        \* longest a poll's subprocesses may take before TimeoutExpired
          None

ASSUME StackAssumption ==
    /\ Checked \subseteq Services /\ None \notin Services /\ None \notin Int
    /\ RemoveVolumes \in BOOLEAN
ASSUME TimesAssumption ==
    Timeout \in Nat /\ PollInterval \in Nat \ {0} /\ PollMax \in Nat

VARIABLES container,  \* service -> state of its container (docker's)
          volume,     \* whether the tpm-ca volume exists (docker's)
          broughtUp,  \* self._brought_up
          context,    \* "in" the with-block, "exiting" it, or it is "left"
          op,         \* the method call in progress
          result,     \* how the last wait ended
          faults      \* history only: commands that failed and no later one made up for

vars == <<container, volume, broughtUp, context, op, result, faults>>

States == {"absent", "starting", "healthy", "unhealthy", "running", "exited"}
Waits == {"wait_healthy", "wait_exited"}

\* Where a wait is: at the test of its deadline, in a poll, in one that has read that the
\* wait goes on, ends well or fails, asleep, or in the poll of the timeout's message.
Phases == {"test", "poll", "polled", "found", "refused", "sleep", "last"}

\* `todo`: services compose has not dealt with; the rest belongs to the waits:
\* ticks since the call, ticks in the present poll or sleep, the tick since which
\* the awaited service has been healthy, and the tick at which it last stopped being so.
NoOp == [name |-> "none", todo |-> {}, service |-> None, phase |-> "test",
         elapsed |-> 0, spent |-> 0, healthySince |-> None, healthyTill |-> None]
NoResult == [name |-> "none", outcome |-> "none", elapsed |-> 0,
             healthySince |-> None, healthyTill |-> None]

\* The clock of a wait stops here; see WaitIsBounded.
Bound == Timeout + PollInterval + 3 * PollMax + 1

TypeOK ==
    /\ container \in [Services -> States]
    /\ volume \in BOOLEAN /\ broughtUp \in BOOLEAN
    /\ context \in {"in", "exiting", "left"}
    /\ op \in [name : {"none", "up", "down"} \cup Waits, todo : SUBSET Services,
               service : Services \cup {None},
               phase : Phases,
               elapsed : 0 .. Bound, spent : 0 .. Bound,
               healthySince : 0 .. Bound \cup {None}, healthyTill : 0 .. Bound \cup {None}]
    /\ result \in [name : {"none"} \cup Waits,
                   outcome : {"none", "returned", "RuntimeError", "TimeoutError",
                              "SubprocessError"},
                   elapsed : 0 .. Bound, healthySince : 0 .. Bound \cup {None},
                   healthyTill : 0 .. Bound \cup {None}]
    /\ faults \subseteq {"up", "down"}

Init ==
    /\ container = [s \in Services |-> "absent"]
    /\ volume = FALSE
    /\ broughtUp = FALSE
    /\ context = "in"
    /\ op = NoOp
    /\ result = NoResult
    /\ faults = {}

----
(* Containers on their own: their healthchecks turn out well or badly, and each may exit
   or crash *)

\* What compose starts a service as.
Started(s) == IF s \in Checked THEN "starting" ELSE "running"

\* History: the awaited service's health, as the wait's clock sees it.
Watched(s, state) ==
    IF op.name = "wait_healthy" /\ op.service = s
    THEN [op EXCEPT !.healthySince = IF state = "healthy" THEN op.elapsed ELSE None,
                    !.healthyTill = IF container[s] = "healthy" THEN op.elapsed ELSE @]
    ELSE op

ContainerMoves(s, state) ==
    /\ \/ s \in Checked /\ container[s] = "starting" /\ state \in {"healthy", "unhealthy"}
       \/ container[s] = "healthy" /\ state = "unhealthy"
       \/ container[s] = "unhealthy" /\ state = "healthy"
       \/ container[s] \notin {"absent", "exited"} /\ state = "exited"
    /\ container' = [container EXCEPT ![s] = state]
    /\ op' = Watched(s, state)
    /\ UNCHANGED <<volume, broughtUp, context, result, faults>>

----
(* up *)

Up(S) ==
    /\ context = "in" /\ op.name = "none"
    /\ op' = [NoOp EXCEPT !.name = "up", !.todo = S]
    /\ UNCHANGED <<container, volume, broughtUp, context, result, faults>>

\* compose starts one service; a running one is left alone, an exited one restarted.
ComposeStarts(s) ==
    /\ op.name = "up" /\ s \in op.todo
    /\ container' = [container EXCEPT ![s] =
                        IF @ \in {"absent", "exited"} THEN Started(s) ELSE @]
    /\ volume' = TRUE
    /\ op' = [op EXCEPT !.todo = @ \ {s}]
    /\ UNCHANGED <<broughtUp, context, result, faults>>

\* Mutants: the flag is never set; it holds what the command returned.
FlagNotSet == broughtUp
FlagIsOutput == None

\* The flag after compose up has returned without an error.
FlagAfterUp == TRUE

UpReturns ==
    /\ op.name = "up" /\ op.todo = {}
    /\ broughtUp' = FlagAfterUp
    /\ op' = NoOp
    /\ faults' = faults \ {"up"}
    /\ UNCHANGED <<container, volume, context, result>>

\* CalledProcessError or TimeoutExpired, after part of the work.
UpRaises ==
    /\ op.name = "up"
    /\ op' = NoOp
    /\ faults' = faults \cup {"up"}
    /\ UNCHANGED <<container, volume, broughtUp, context, result>>

----
(* down and __exit__ *)

\* down() returns at once unless some up succeeded since the last one.
Down ==
    /\ context = "in" /\ op.name = "none" /\ broughtUp
    /\ op' = [NoOp EXCEPT !.name = "down", !.todo = Services]
    /\ UNCHANGED <<container, volume, broughtUp, context, result, faults>>

ExitContext ==
    /\ context = "in" /\ op.name = "none"
    /\ IF broughtUp
       THEN /\ op' = [NoOp EXCEPT !.name = "down", !.todo = Services]
            /\ context' = "exiting"
       ELSE context' = "left" /\ UNCHANGED op
    /\ UNCHANGED <<container, volume, broughtUp, result, faults>>

ComposeRemoves(s) ==
    /\ op.name = "down" /\ s \in op.todo
    /\ container' = [container EXCEPT ![s] = "absent"]
    /\ op' = [op EXCEPT !.todo = @ \ {s}]
    /\ UNCHANGED <<volume, broughtUp, context, result, faults>>

\* The call is over, and with it the with-block if __exit__ made it.
DownOver ==
    /\ op' = NoOp
    /\ context' = IF context = "exiting" THEN "left" ELSE context
    /\ UNCHANGED <<container, result>>

DownReturns ==
    /\ op.name = "down" /\ op.todo = {}
    /\ volume' = (volume /\ ~RemoveVolumes)
    /\ broughtUp' = FALSE
    /\ DownOver
    /\ faults' = {}

\* check=False: a compose that fails half way is taken for one that worked.
DownFails ==
    /\ op.name = "down"
    /\ broughtUp' = FALSE
    /\ DownOver
    /\ faults' = faults \cup {"down"}
    /\ UNCHANGED volume

\* TimeoutExpired leaves the flag set.
DownTimesOut ==
    /\ op.name = "down"
    /\ DownOver
    /\ faults' = faults \cup {"down"}
    /\ UNCHANGED <<volume, broughtUp>>

----
(* wait_healthy and wait_exited *)

\* health(): a container compose ps -q does not list, as one that is absent or has exited,
\* or inspect fails on, as one without a healthcheck, is "unknown".
Health(s) ==
    IF container[s] \in {"starting", "healthy", "unhealthy"} THEN container[s]
    ELSE "unknown"

Wait(name, s) ==
    /\ context = "in" /\ op.name = "none"
    /\ op' = [NoOp EXCEPT !.name = name, !.service = s,
                          !.healthySince = IF container[s] = "healthy" THEN 0 ELSE None]
    /\ result' = NoResult
    /\ UNCHANGED <<container, volume, broughtUp, context, faults>>

WaitEnds(outcome) ==
    /\ result' = [name |-> op.name, outcome |-> outcome, elapsed |-> op.elapsed,
                  healthySince |-> op.healthySince, healthyTill |-> op.healthyTill]
    /\ op' = NoOp
    /\ UNCHANGED <<container, volume, broughtUp, context, faults>>

Enter(phase) ==
    /\ op' = [op EXCEPT !.phase = phase, !.spent = 0]
    /\ UNCHANGED <<container, volume, broughtUp, context, result, faults>>

\* Mutant: the deadline is computed anew in every round.
DeadlineRenewed == op.spent < Timeout

\* while time.monotonic() < deadline
DeadlineAhead == op.elapsed < Timeout

\* At the deadline wait_healthy polls once more, for its message; wait_exited raises.
TestDeadline ==
    /\ op.name \in Waits /\ op.phase = "test"
    /\ IF DeadlineAhead THEN Enter("poll")
       ELSE IF op.name = "wait_healthy" THEN Enter("last")
       ELSE WaitEnds("TimeoutError")

\* Mutant: a container that is only starting counts.
ReadyTooEarly(s) == Health(s) \in {"starting", "healthy"}

Ready(s) == Health(s) = "healthy"

\* docker has read the state, which decides how the poll ends; its command may take some
\* time more, and the container may move on.
Reads(seen) ==
    /\ op.phase = "poll"
    /\ op' = [op EXCEPT !.phase = seen]
    /\ UNCHANGED <<container, volume, broughtUp, context, result, faults>>

PollHealth ==
    /\ op.name = "wait_healthy"
    /\ Reads(IF Ready(op.service) THEN "found"
             ELSE IF Health(op.service) = "unhealthy" THEN "refused" ELSE "polled")

PollExited ==
    /\ op.name = "wait_exited"
    /\ Reads(IF container[op.service] = "exited" THEN "found" ELSE "polled")

PollEnds ==
    \/ op.phase = "polled" /\ Enter("sleep")
    \/ op.phase = "found" /\ WaitEnds("returned")
    \/ op.phase = "refused" /\ WaitEnds("RuntimeError")

LastPoll ==
    /\ op.phase = "last"
    /\ WaitEnds("TimeoutError")

\* A poll's docker command exceeds its own timeout (any poll), or wait_exited's fails.
PollRaises ==
    /\ \/ op.phase \notin {"test", "sleep"} /\ op.spent = PollMax
       \/ op.name = "wait_exited" /\ op.phase = "poll"
    /\ WaitEnds("SubprocessError")

\* Mutant: the sleep is as long as the whole wait.
SleepWholeTimeout == Timeout

\* The argument of time.sleep.
SleepTime == PollInterval

SleepEnds ==
    /\ op.phase = "sleep" /\ op.spent = SleepTime
    /\ Enter("test")

\* Time passes in polls, up to their limit, and in sleeps.
TimeLeft ==
    IF op.phase = "sleep" THEN op.spent < SleepTime ELSE op.spent < PollMax

Tick ==
    /\ op.name \in Waits /\ op.phase # "test"
    /\ TimeLeft
    /\ op' = [op EXCEPT !.elapsed = IF @ < Bound THEN @ + 1 ELSE @, !.spent = @ + 1]
    /\ UNCHANGED <<container, volume, broughtUp, context, result, faults>>

----
Driver ==
    \/ UpReturns \/ UpRaises
    \/ \E s \in Services : ComposeStarts(s) \/ ComposeRemoves(s)
    \/ DownReturns \/ DownFails \/ DownTimesOut
    \/ TestDeadline \/ PollHealth \/ PollExited \/ PollEnds \/ LastPoll \/ PollRaises \/ SleepEnds
    \/ Tick

Next ==
    \/ \E s \in Services, state \in States : ContainerMoves(s, state)
    \/ \E S \in (SUBSET Services) \ {{}} : Up(S)
    \/ Down
    \/ ExitContext
    \/ \E name \in Waits, s \in Services : Wait(name, s)
    \/ Driver

Spec == Init /\ [][Next]_vars

\* The interpreter goes on, subprocesses end or are killed, time passes.
FairSpec == Spec /\ WF_vars(Driver)

----
(* What makes the stack driver correct *)

Leaked ==
    \/ \E s \in Services : container[s] # "absent"
    \/ RemoveVolumes /\ volume

\* When no compose command failed, or a later one made up for it, the with-block
\* leaves no container and, with remove_volumes, no volume behind.
CleanExit == (context = "left" /\ faults = {}) => ~Leaked

\* "Use as a context manager to guarantee teardown on exit": it does not, an up that
\* fails half way is never torn down.
TeardownGuaranteed == context = "left" => ~Leaked

\* What wait_healthy returns on is at most one poll old: the service may have failed or
\* gone while docker's command ended, but was healthy when that command began or later.
HealthyReturnIsFresh ==
    (result.name = "wait_healthy" /\ result.outcome = "returned") =>
        \/ result.healthySince # None
        \/ result.healthyTill # None /\ result.elapsed - result.healthyTill <= PollMax

\* A service healthy since one poll and one sleep before the deadline, or longer, is
\* noticed: the wait does not time out.
SteadyHealthIsNoticed ==
    (result.name = "wait_healthy" /\ result.outcome = "TimeoutError"
        /\ result.healthySince # None) =>
        result.healthySince >= Timeout - (PollInterval + PollMax)

\* TimeoutError "if the deadline is reached before the service transitions to healthy".
TimeoutMeansNotHealthy ==
    (result.name = "wait_healthy" /\ result.outcome = "TimeoutError") =>
        (result.healthySince = None \/ result.healthySince >= Timeout)

\* A wait outlasts its timeout by less than one sleep and two polls.
WaitIsBounded ==
    /\ result.elapsed < Timeout + PollInterval + 2 * PollMax
    /\ op.elapsed < Timeout + PollInterval + 2 * PollMax

\* Every method call ends.
CallsEnd == op.name # "none" ~> op.name = "none"
====
