---- MODULE StackProofs ----
(***************************************************************************)
(* The driver of the simulator stack, for any services, timeout, polling   *)
(* interval and length of a poll: how long a wait may take, what its end   *)
(* says of the service, and what the with-block leaves behind.             *)
(***************************************************************************)
EXTENDS SimulatorStack, TLAPS

USE DEF Waits, Phases

LEMMA TimesAreNumbers ==
    /\ Timeout \in Nat /\ PollInterval \in Nat /\ PollInterval >= 1 /\ PollMax \in Nat
    /\ Bound \in Nat /\ Bound = Timeout + PollInterval + 3 * PollMax + 1
BY TimesAssumption DEF Bound

\* How far a wait is past the tests of its deadline: a poll begins before it, a sleep
\* after at most one poll, the next test after that sleep, and the last poll after a test.
Paced ==
    LET late == Timeout - 1 + PollInterval + PollMax
    IN  /\ op.name \notin Waits => op.phase = "test" /\ op.elapsed = 0
        /\ op.name \in Waits => op.service \in Services
        /\ op.phase = "test" => op.elapsed <= late
        /\ op.phase \in {"poll", "polled", "found", "refused"} =>
               op.elapsed <= Timeout - 1 + op.spent /\ op.spent <= PollMax
        /\ op.phase = "sleep" =>
               op.elapsed <= Timeout - 1 + PollMax + op.spent /\ op.spent <= PollInterval
        /\ op.phase = "last" =>
               /\ op.elapsed <= late + op.spent /\ op.spent <= PollMax
               /\ op.elapsed - op.spent >= Timeout
               /\ op.name = "wait_healthy"

InTime == result.elapsed < Timeout + PollInterval + 2 * PollMax

PInv == TypeOK /\ Paced /\ InTime

OpType == [name : {"none", "up", "down"} \cup Waits, todo : SUBSET Services,
           service : Services \cup {None},
           phase : Phases,
           elapsed : 0 .. Bound, spent : 0 .. Bound,
           healthySince : 0 .. Bound \cup {None}, healthyTill : 0 .. Bound \cup {None}]

ResultType == [name : {"none"} \cup Waits,
               outcome : {"none", "returned", "RuntimeError", "TimeoutError",
                          "SubprocessError"},
               elapsed : 0 .. Bound, healthySince : 0 .. Bound \cup {None},
               healthyTill : 0 .. Bound \cup {None}]

\* Fields of a call may be replaced by values of their types.
LEMMA FieldsReplaced ==
    ASSUME NEW N, NEW T, NEW S, NEW P, NEW E, NEW H,
           NEW o \in [name : N, todo : T, service : S, phase : P, elapsed : E, spent : E,
                      healthySince : H, healthyTill : H]
    PROVE  LET all == [name : N, todo : T, service : S, phase : P, elapsed : E, spent : E,
                       healthySince : H, healthyTill : H]
           IN  /\ \A p \in P, n \in E : [o EXCEPT !.phase = p, !.spent = n] \in all
               /\ \A e \in E, n \in E : [o EXCEPT !.elapsed = e, !.spent = n] \in all
               /\ \A h \in H, w \in H : [o EXCEPT !.healthySince = h, !.healthyTill = w] \in all
               /\ \A p \in P : [o EXCEPT !.phase = p] \in all
               /\ \A t \in T : [o EXCEPT !.todo = t] \in all
OBVIOUS

LEMMA FieldsTyped ==
    ASSUME NEW o \in OpType
    PROVE  /\ \A p \in Phases, n \in 0 .. Bound :
                  [o EXCEPT !.phase = p, !.spent = n] \in OpType
           /\ \A e \in 0 .. Bound, n \in 0 .. Bound :
                  [o EXCEPT !.elapsed = e, !.spent = n] \in OpType
           /\ \A h \in 0 .. Bound \cup {None}, w \in 0 .. Bound \cup {None} :
                  [o EXCEPT !.healthySince = h, !.healthyTill = w] \in OpType
           /\ \A p \in Phases :
                  [o EXCEPT !.phase = p] \in OpType
           /\ \A t \in SUBSET Services : [o EXCEPT !.todo = t] \in OpType
BY FieldsReplaced, Zenon DEF OpType

LEMMA NothingTyped == NoOp \in OpType /\ NoResult \in ResultType
BY TimesAreNumbers DEF NoOp, NoResult, OpType, ResultType

LEMMA TypeParts ==
    TypeOK <=> /\ container \in [Services -> States]
               /\ volume \in BOOLEAN /\ broughtUp \in BOOLEAN
               /\ context \in {"in", "exiting", "left"}
               /\ op \in OpType /\ result \in ResultType
               /\ faults \subseteq {"up", "down"}
BY DEF TypeOK, OpType, ResultType

\* A wait that is in time is well within the clock's range and its result is too.
LEMMA BoundFar ==
    ASSUME PInv
    PROVE  op.elapsed < Timeout + PollInterval + 2 * PollMax
<1>1. op.elapsed \in Nat /\ op.spent \in Nat
  BY TimesAreNumbers, TypeParts DEF PInv, OpType
<1>2. op.phase \in Phases
  BY TypeParts DEF PInv, OpType
<1> QED BY <1>1, <1>2, TimesAreNumbers DEF PInv, Paced

\* The parts of a step that all actions have one of.
LEMMA EnterKeeps ==
    ASSUME PInv, NEW phase \in {"poll", "sleep", "last", "test"}, Enter(phase),
           op.name \in Waits,
           phase = "poll" => op.elapsed < Timeout,
           phase = "last" => /\ op.phase = "test" /\ op.elapsed >= Timeout
                             /\ op.name = "wait_healthy",
           phase = "sleep" => op.phase = "polled",
           phase = "test" => op.phase = "sleep"
    PROVE  PInv'
<1>1. op \in OpType /\ op.elapsed \in Nat /\ op.spent \in Nat
  BY TimesAreNumbers, TypeParts DEF PInv, OpType
<1>2. op' = [op EXCEPT !.phase = phase, !.spent = 0]
  BY DEF Enter
<1>3. op' \in OpType
  <2>1. 0 \in 0 .. Bound
    BY TimesAreNumbers
  <2> QED BY <1>1, <1>2, <2>1, FieldsTyped
<1>4. /\ op'.phase = phase /\ op'.spent = 0 /\ op'.elapsed = op.elapsed
      /\ op'.name = op.name /\ op'.service = op.service
  BY <1>1, <1>2 DEF OpType
<1>5. TypeOK'
  BY <1>3, TypeParts DEF Enter, PInv, TypeOK, OpType
<1>6. Paced'
  BY <1>1, <1>4, TimesAreNumbers DEF PInv, Paced
<1> QED BY <1>5, <1>6 DEF PInv, InTime, Enter

LEMMA WaitEndsKeeps ==
    ASSUME PInv, NEW outcome \in {"returned", "RuntimeError", "TimeoutError", "SubprocessError"},
           WaitEnds(outcome), op.name \in Waits
    PROVE  PInv'
<1>1. op \in OpType
  BY TypeParts DEF PInv
<1>2. result' \in ResultType /\ result'.elapsed = op.elapsed
  BY <1>1 DEF WaitEnds, OpType, ResultType
<1>3. op' = NoOp /\ UNCHANGED <<container, volume, broughtUp, context, faults>>
  BY DEF WaitEnds
<1>4. TypeOK'
  BY <1>2, <1>3, NothingTyped DEF PInv, TypeOK, OpType, ResultType
<1>5. Paced'
  BY <1>3, TimesAreNumbers DEF Paced, NoOp
<1>6. InTime'
  BY <1>2, BoundFar DEF InTime
<1> QED BY <1>4, <1>5, <1>6 DEF PInv

\* A step that leaves the driver with no wait, and the last result as it was.
LEMMA NoWaitKeeps ==
    ASSUME PInv, op' \in OpType, op'.name \notin Waits, op'.phase = "test", op'.elapsed = 0,
           UNCHANGED result, container' \in [Services -> States], volume' \in BOOLEAN,
           broughtUp' \in BOOLEAN, context' \in {"in", "exiting", "left"},
           faults' \subseteq {"up", "down"}
    PROVE  PInv'
<1>1. TypeOK'
  BY DEF PInv, TypeOK, OpType
<1>2. Paced'
  BY TimesAreNumbers DEF Paced
<1> QED BY <1>1, <1>2 DEF PInv, InTime

\* A step in which the call stays where it is, at the same time.
LEMMA StayKeeps ==
    ASSUME PInv, op' \in OpType, op'.name = op.name, op'.service = op.service,
           op'.phase = op.phase \/ (op.phase = "poll" /\ op'.phase \in {"polled", "found", "refused"}),
           op'.elapsed = op.elapsed, op'.spent = op.spent,
           UNCHANGED <<volume, broughtUp, context, result, faults>>,
           container' \in [Services -> States]
    PROVE  PInv'
<1>1. TypeOK'
  BY DEF PInv, TypeOK, OpType
<1>2. op.elapsed \in Nat /\ op.spent \in Nat
  BY TimesAreNumbers, TypeParts DEF PInv, OpType
<1>3. op.phase = "poll" => op.name \in Waits
  BY DEF PInv, Paced
<1>4. Paced'
  BY <1>2, <1>3, TimesAreNumbers DEF PInv, Paced
<1> QED BY <1>1, <1>4 DEF PInv, InTime

LEMMA ContainerKeeps ==
    ASSUME PInv, NEW s \in Services, NEW state \in States, ContainerMoves(s, state)
    PROVE  PInv'
<1>1. op \in OpType /\ op.elapsed \in 0 .. Bound
  BY TypeParts DEF PInv, OpType
<1>2. container' \in [Services -> States]
  BY DEF ContainerMoves, PInv, TypeOK
<1>3. UNCHANGED <<volume, broughtUp, context, result, faults>> /\ op' = Watched(s, state)
  BY DEF ContainerMoves
<1>4. CASE op' = op
  BY <1>1, <1>2, <1>3, <1>4, StayKeeps
<1>5. CASE op' # op
  <2>1. PICK h, w : h = (IF state = "healthy" THEN op.elapsed ELSE None)
                    /\ w = (IF container[s] = "healthy" THEN op.elapsed ELSE op.healthyTill)
    OBVIOUS
  <2>2. h \in 0 .. Bound \cup {None} /\ w \in 0 .. Bound \cup {None}
    BY <1>1, <2>1 DEF OpType
  <2>3. op' = [op EXCEPT !.healthySince = h, !.healthyTill = w]
    BY <1>3, <1>5, <2>1 DEF Watched
  <2>4. op' \in OpType
    BY <1>1, <2>2, <2>3, FieldsTyped
  <2>5. /\ op'.name = op.name /\ op'.service = op.service /\ op'.phase = op.phase
        /\ op'.elapsed = op.elapsed /\ op'.spent = op.spent
    BY <1>1, <2>3 DEF OpType
  <2> QED BY <1>2, <1>3, <2>4, <2>5, StayKeeps
<1> QED BY <1>4, <1>5

\* The compose commands.
LEMMA ComposeKeeps ==
    ASSUME PInv,
           \/ \E S \in (SUBSET Services) \ {{}} : Up(S)
           \/ Down \/ ExitContext \/ UpReturns \/ UpRaises
           \/ \E s \in Services : ComposeStarts(s) \/ ComposeRemoves(s)
           \/ DownReturns \/ DownFails \/ DownTimesOut
    PROVE  PInv'
<1>0. /\ op \in OpType /\ container \in [Services -> States] /\ volume \in BOOLEAN
      /\ broughtUp \in BOOLEAN /\ context \in {"in", "exiting", "left"}
      /\ faults \subseteq {"up", "down"}
  BY TypeParts DEF PInv
<1>1. ASSUME NEW name \in {"up", "down"}, NEW S \in SUBSET Services,
             op' = [NoOp EXCEPT !.name = name, !.todo = S]
      PROVE  op' \in OpType /\ op'.name \notin Waits /\ op'.phase = "test" /\ op'.elapsed = 0
  <2>1. op' = [name |-> name, todo |-> S, service |-> None, phase |-> "test",
               elapsed |-> 0, spent |-> 0, healthySince |-> None, healthyTill |-> None]
    BY <1>1 DEF NoOp
  <2> QED BY <2>1, TimesAreNumbers DEF OpType
<1>2. NoOp \in OpType /\ NoOp.name \notin Waits /\ NoOp.phase = "test" /\ NoOp.elapsed = 0
  BY NothingTyped DEF NoOp
<1>3. ASSUME NEW s \in Services, op' = [op EXCEPT !.todo = @ \ {s}],
             op.name \in {"up", "down"}
      PROVE  op' \in OpType /\ op'.name \notin Waits /\ op'.phase = "test" /\ op'.elapsed = 0
  <2>1. PICK t : t = op.todo \ {s}
    OBVIOUS
  <2>2. t \in SUBSET Services /\ op' = [op EXCEPT !.todo = t]
    BY <1>0, <1>3, <2>1 DEF OpType
  <2>3. op' \in OpType
    BY <1>0, <2>2, FieldsTyped
  <2>4. op'.name = op.name /\ op'.phase = op.phase /\ op'.elapsed = op.elapsed
    BY <1>0, <2>2 DEF OpType
  <2> QED BY <1>3, <2>3, <2>4 DEF PInv, Paced
<1>4. ASSUME NEW S \in (SUBSET Services) \ {{}}, Up(S) PROVE PInv'
  BY <1>0, <1>1, <1>4, NoWaitKeeps DEF Up
<1>5. CASE Down
  BY <1>0, <1>1, <1>5, NoWaitKeeps DEF Down
<1>6. CASE ExitContext
  <2>1. CASE broughtUp
    <3>1. op' = [NoOp EXCEPT !.name = "down", !.todo = Services]
      BY <1>6, <2>1 DEF ExitContext
    <3>2. op' \in OpType /\ op'.name \notin Waits /\ op'.phase = "test" /\ op'.elapsed = 0
      BY <1>1, <3>1
    <3> QED BY <1>0, <1>6, <2>1, <3>2, NoWaitKeeps DEF ExitContext
  <2>2. CASE ~broughtUp
    <3>1. op' = op /\ op.name = "none"
      BY <1>6, <2>2 DEF ExitContext
    <3>2. op'.name \notin Waits /\ op'.phase = "test" /\ op'.elapsed = 0
      BY <3>1 DEF PInv, Paced
    <3> QED BY <1>0, <1>6, <2>2, <3>1, <3>2, NoWaitKeeps DEF ExitContext
  <2> QED BY <2>1, <2>2
<1>7. CASE UpReturns
  <2>1. broughtUp' \in BOOLEAN /\ faults' \subseteq {"up", "down"} /\ op' = NoOp
    BY <1>0, <1>7 DEF UpReturns, FlagAfterUp
  <2> QED BY <1>0, <1>2, <1>7, <2>1, NoWaitKeeps DEF UpReturns
<1>8. CASE UpRaises
  BY <1>0, <1>2, <1>8, NoWaitKeeps DEF UpRaises
<1>9. ASSUME NEW s \in Services, ComposeStarts(s) PROVE PInv'
  <2>1. Started(s) \in States
    BY DEF Started, States
  <2>2. container' \in [Services -> States]
    BY <1>0, <1>9, <2>1 DEF ComposeStarts
  <2> QED BY <1>0, <1>3, <1>9, <2>2, NoWaitKeeps DEF ComposeStarts
<1>10. ASSUME NEW s \in Services, ComposeRemoves(s) PROVE PInv'
  <2>1. container' \in [Services -> States]
    BY <1>0, <1>10 DEF ComposeRemoves, States
  <2> QED BY <1>0, <1>3, <1>10, <2>1, NoWaitKeeps DEF ComposeRemoves
<1>11. CASE DownReturns \/ DownFails \/ DownTimesOut
  <2>1. /\ op' = NoOp /\ UNCHANGED <<container, result>>
        /\ context' \in {"in", "exiting", "left"}
    BY <1>0, <1>11 DEF DownReturns, DownFails, DownTimesOut, DownOver
  <2>2. volume' \in BOOLEAN /\ broughtUp' \in BOOLEAN /\ faults' \subseteq {"up", "down"}
    BY <1>0, <1>11, StackAssumption DEF DownReturns, DownFails, DownTimesOut
  <2> QED BY <1>0, <1>2, <2>1, <2>2, NoWaitKeeps
<1> QED BY <1>4, <1>5, <1>6, <1>7, <1>8, <1>9, <1>10, <1>11

LEMMA WaitKeeps ==
    ASSUME PInv, NEW name \in Waits, NEW s \in Services, Wait(name, s)
    PROVE  PInv'
<1>1. PICK h : h = (IF container[s] = "healthy" THEN 0 ELSE None)
  OBVIOUS
<1>2. h \in 0 .. Bound \cup {None}
  BY <1>1, TimesAreNumbers
<1>3. op' = [name |-> name, todo |-> {}, service |-> s, phase |-> "test", elapsed |-> 0,
             spent |-> 0, healthySince |-> h, healthyTill |-> None]
  BY <1>1 DEF Wait, NoOp
<1>4. op' \in OpType
  BY <1>2, <1>3, TimesAreNumbers DEF OpType
<1>5. TypeOK'
  BY <1>4, NothingTyped DEF Wait, PInv, TypeOK, OpType, ResultType
<1>6. Paced'
  BY <1>3, TimesAreNumbers DEF Paced
<1>7. InTime'
  BY TimesAreNumbers DEF Wait, InTime, NoResult
<1> QED BY <1>5, <1>6, <1>7 DEF PInv

LEMMA TickPaces ==
    ASSUME PInv, Tick
    PROVE  PInv'
<1>1. /\ op \in OpType /\ op.elapsed \in Nat /\ op.spent \in Nat /\ op.name \in Waits
      /\ op.phase \in Phases \ {"test"}
  BY TimesAreNumbers, TypeParts DEF PInv, OpType, Tick
<1>2. op.elapsed < Bound
  BY <1>1, BoundFar, TimesAreNumbers
<1>3. PICK e, n : e = op.elapsed + 1 /\ n = op.spent + 1
  OBVIOUS
<1>4. op' = [op EXCEPT !.elapsed = e, !.spent = n]
  BY <1>2, <1>3 DEF Tick
<1>5. /\ op.phase = "sleep" => n <= PollInterval
      /\ op.phase # "sleep" => n <= PollMax
  BY <1>1, <1>3, TimesAreNumbers DEF Tick, TimeLeft, SleepTime
<1>6. e \in 0 .. Bound /\ n \in 0 .. Bound
  BY <1>1, <1>2, <1>3, <1>5, TimesAreNumbers
<1>7. op' \in OpType
  BY <1>1, <1>4, <1>6, FieldsTyped
<1>8. /\ op'.name = op.name /\ op'.service = op.service /\ op'.phase = op.phase
      /\ op'.elapsed = e /\ op'.spent = n
  BY <1>1, <1>4 DEF OpType
<1>9. TypeOK'
  BY <1>7 DEF Tick, PInv, TypeOK, OpType
<1>10. Paced'
  BY <1>1, <1>3, <1>5, <1>8, TimesAreNumbers DEF PInv, Paced
<1> QED BY <1>9, <1>10 DEF PInv, InTime, Tick

LEMMA PollsKeep ==
    ASSUME PInv, TestDeadline \/ PollHealth \/ PollExited \/ PollEnds \/ LastPoll
                     \/ PollRaises \/ SleepEnds
    PROVE  PInv'
<1>0. /\ op \in OpType /\ op.elapsed \in Nat
      /\ op.phase # "test" => op.name \in Waits
  BY TimesAreNumbers, TypeParts DEF PInv, Paced, OpType
<1>1. ASSUME NEW seen \in {"polled", "found", "refused"}, Reads(seen) PROVE PInv'
  <2>1. op' = [op EXCEPT !.phase = seen] /\ op.phase = "poll"
    BY <1>1 DEF Reads
  <2>2. op' \in OpType
    BY <1>0, <2>1, FieldsTyped
  <2>3. /\ op'.name = op.name /\ op'.service = op.service /\ op'.phase = seen
        /\ op'.elapsed = op.elapsed /\ op'.spent = op.spent
    BY <1>0, <2>1 DEF OpType
  <2> QED BY <1>1, <2>1, <2>2, <2>3, StayKeeps DEF Reads, PInv, TypeOK
<1>2. CASE TestDeadline
  <2>1. CASE DeadlineAhead
    BY <1>0, <1>2, <2>1, EnterKeeps DEF TestDeadline, DeadlineAhead
  <2>2. CASE ~DeadlineAhead /\ op.name = "wait_healthy"
    <3>1. op.elapsed >= Timeout
      BY <1>0, <2>2, TimesAreNumbers DEF DeadlineAhead
    <3> QED BY <1>0, <1>2, <2>2, <3>1, EnterKeeps DEF TestDeadline
  <2>3. CASE ~DeadlineAhead /\ op.name # "wait_healthy"
    BY <1>2, <2>3, WaitEndsKeeps DEF TestDeadline
  <2> QED BY <2>1, <2>2, <2>3
<1>3. CASE PollHealth
  BY <1>1, <1>3 DEF PollHealth
<1>4. CASE PollExited
  BY <1>1, <1>4 DEF PollExited
<1>5. CASE PollEnds
  BY <1>0, <1>5, EnterKeeps, WaitEndsKeeps DEF PollEnds
<1>6. CASE LastPoll
  BY <1>0, <1>6, WaitEndsKeeps DEF LastPoll
<1>7. CASE PollRaises
  BY <1>0, <1>7, WaitEndsKeeps DEF PollRaises
<1>8. CASE SleepEnds
  BY <1>0, <1>8, EnterKeeps DEF SleepEnds
<1> QED BY <1>2, <1>3, <1>4, <1>5, <1>6, <1>7, <1>8

LEMMA PacedInvariant == Spec => []PInv
<1>1. Init => PInv
  <2> SUFFICES ASSUME Init PROVE PInv
    OBVIOUS
  <2>1. container \in [Services -> States]
    BY DEF Init, States
  <2>3. TypeOK
    BY <2>1, NothingTyped, TypeParts DEF Init
  <2>2. Paced /\ InTime
    BY TimesAreNumbers DEF Init, Paced, InTime, NoOp, NoResult
  <2> QED BY <2>2, <2>3 DEF PInv
<1>2. PInv /\ [Next]_vars => PInv'
  <2> SUFFICES ASSUME PInv, [Next]_vars PROVE PInv'
    OBVIOUS
  <2>1. CASE UNCHANGED vars
    BY <2>1 DEF vars, PInv, TypeOK, Paced, InTime
  <2> QED BY <2>1, ContainerKeeps, ComposeKeeps, WaitKeeps, TickPaces, PollsKeep
          DEF Next, Driver
<1> QED BY <1>1, <1>2, PTL DEF Spec

\* The driver's state has its type: its clocks do not reach the end of their range.
THEOREM StackTypes == Spec => []TypeOK
<1>1. PInv => TypeOK
  BY DEF PInv
<1> QED BY <1>1, PacedInvariant, PTL

\* A wait outlasts its timeout by less than one sleep and two polls, however long each
\* poll takes and whatever the containers do.
THEOREM WaitsAreBounded == Spec => []WaitIsBounded
<1>1. PInv => WaitIsBounded
  BY BoundFar DEF PInv, InTime, WaitIsBounded
<1> QED BY <1>1, PacedInvariant, PTL

----
(* What the end of a wait says of the service *)

\* The history of a wait_healthy is true, and a service that is healthy now has become so
\* no earlier than the last poll that saw it otherwise, or than the call.
Seen ==
    op.name = "wait_healthy" =>
        /\ container[op.service] = "healthy" <=> op.healthySince # None
        /\ op.phase = "found" =>
               \/ op.healthySince # None
               \/ op.healthyTill # None /\ op.healthyTill >= op.elapsed - op.spent
        /\ op.healthySince # None =>
               /\ op.phase = "polled" => op.healthySince >= op.elapsed - op.spent
               /\ op.phase = "sleep" => op.healthySince >= op.elapsed - op.spent - PollMax
               /\ op.phase = "test" =>
                      op.healthySince >= op.elapsed - PollInterval - PollMax
               /\ op.phase = "last" =>
                      op.healthySince >= op.elapsed - op.spent - PollInterval - PollMax

SInv == Seen /\ HealthyReturnIsFresh /\ SteadyHealthIsNoticed

LEMMA OpNumbers ==
    ASSUME PInv
    PROVE  /\ op \in OpType
           /\ op.elapsed \in Nat /\ op.spent \in Nat
           /\ op.healthySince # None => op.healthySince \in Nat
           /\ op.healthyTill # None => op.healthyTill \in Nat
BY TimesAreNumbers, TypeParts DEF PInv, OpType

\* A wait ends with what it knows: a return after a poll that has seen health, a timeout at
\* the deadline or in the last poll.
LEMMA EndsSeen ==
    ASSUME PInv, SInv, NEW outcome, WaitEnds(outcome),
           outcome = "returned" => op.name # "wait_healthy" \/ op.phase = "found",
           outcome = "TimeoutError" => op.name # "wait_healthy" \/ op.phase = "last"
    PROVE  SInv'
<1>1. /\ op' = NoOp /\ result'.name = op.name /\ result'.outcome = outcome
      /\ result'.healthySince = op.healthySince /\ result'.healthyTill = op.healthyTill
      /\ result'.elapsed = op.elapsed
  BY DEF WaitEnds
<1>2. Seen'
  BY <1>1 DEF Seen, NoOp
<1>3. HealthyReturnIsFresh'
  <2>1. ASSUME op.name = "wait_healthy", op.phase = "found"
        PROVE  \/ op.healthySince # None
               \/ op.healthyTill # None /\ op.elapsed - op.healthyTill <= PollMax
    <3>1. op.spent <= PollMax
      BY <2>1 DEF PInv, Paced
    <3>2. \/ op.healthySince # None
          \/ op.healthyTill # None /\ op.healthyTill >= op.elapsed - op.spent
      BY <2>1 DEF SInv, Seen
    <3> QED BY <3>1, <3>2, OpNumbers, TimesAreNumbers
  <2> QED BY <1>1, <2>1 DEF HealthyReturnIsFresh
<1>4. SteadyHealthIsNoticed'
  <2>1. ASSUME op.name = "wait_healthy", op.phase = "last", op.healthySince # None
        PROVE  op.healthySince >= Timeout - (PollInterval + PollMax)
    <3>1. op.elapsed - op.spent >= Timeout
      BY <2>1 DEF PInv, Paced
    <3>2. op.healthySince >= op.elapsed - op.spent - PollInterval - PollMax
      BY <2>1 DEF SInv, Seen
    <3> QED BY <2>1, <3>1, <3>2, OpNumbers, TimesAreNumbers
  <2> QED BY <1>1, <2>1 DEF SteadyHealthIsNoticed
<1> QED BY <1>2, <1>3, <1>4 DEF SInv

\* A step of the wait's own, with the service and the results as they are.
LEMMA OnSeen ==
    ASSUME PInv, SInv, UNCHANGED <<container, result>>,
           /\ op'.name = op.name /\ op'.service = op.service
           /\ op'.healthySince = op.healthySince /\ op'.healthyTill = op.healthyTill,
           (op.name = "wait_healthy" /\ op'.phase = "found") =>
               \/ op.healthySince # None
               \/ op.healthyTill # None /\ op.healthyTill >= op'.elapsed - op'.spent,
           (op.name = "wait_healthy" /\ op.healthySince # None) =>
               /\ op'.phase = "polled" => op.healthySince >= op'.elapsed - op'.spent
               /\ op'.phase = "sleep" => op.healthySince >= op'.elapsed - op'.spent - PollMax
               /\ op'.phase = "test" =>
                      op.healthySince >= op'.elapsed - PollInterval - PollMax
               /\ op'.phase = "last" =>
                      op.healthySince >= op'.elapsed - op'.spent - PollInterval - PollMax
    PROVE  SInv'
<1>1. Seen'
  BY DEF SInv, Seen
<1> QED BY <1>1 DEF SInv, HealthyReturnIsFresh, SteadyHealthIsNoticed

LEMMA EnterSeen ==
    ASSUME PInv, SInv, NEW phase, Enter(phase),
           phase = "sleep" => op.phase = "polled",
           phase = "test" => op.phase = "sleep" /\ op.spent = PollInterval,
           phase = "last" => op.phase = "test",
           phase \notin {"polled", "found", "refused"}
    PROVE  SInv'
<1>1. /\ op'.phase = phase /\ op'.spent = 0 /\ op'.elapsed = op.elapsed
      /\ op'.name = op.name /\ op'.service = op.service
      /\ op'.healthySince = op.healthySince /\ op'.healthyTill = op.healthyTill
  BY OpNumbers DEF Enter, OpType
<1>2. op.phase = "polled" => op.spent <= PollMax
  BY DEF PInv, Paced
<1>3. UNCHANGED <<container, result>>
  BY DEF Enter
<1>4. ASSUME op.name = "wait_healthy", op.healthySince # None
      PROVE  /\ op'.phase = "polled" => op.healthySince >= op'.elapsed - op'.spent
             /\ op'.phase = "sleep" => op.healthySince >= op'.elapsed - op'.spent - PollMax
             /\ op'.phase = "test" =>
                    op.healthySince >= op'.elapsed - PollInterval - PollMax
             /\ op'.phase = "last" =>
                    op.healthySince >= op'.elapsed - op'.spent - PollInterval - PollMax
  BY <1>1, <1>2, <1>4, OpNumbers, TimesAreNumbers DEF SInv, Seen
<1> QED BY <1>1, <1>3, <1>4, OnSeen

LEMMA ContainerSeen ==
    ASSUME PInv, SInv, NEW s \in Services, NEW state \in States, ContainerMoves(s, state)
    PROVE  SInv'
<1>1. UNCHANGED result /\ op' = Watched(s, state)
  BY DEF ContainerMoves
<1>2. Seen'
  <2>1. CASE op.name = "wait_healthy" /\ op.service = s
    <3>1. PICK h, w : h = (IF state = "healthy" THEN op.elapsed ELSE None)
                      /\ w = (IF container[s] = "healthy" THEN op.elapsed ELSE op.healthyTill)
      OBVIOUS
    <3>2. op' = [op EXCEPT !.healthySince = h, !.healthyTill = w]
      BY <1>1, <2>1, <3>1 DEF Watched
    <3>3. /\ op'.name = op.name /\ op'.service = s /\ op'.phase = op.phase
          /\ op'.elapsed = op.elapsed /\ op'.spent = op.spent
          /\ op'.healthySince = h /\ op'.healthyTill = w
      BY <2>1, <3>2, OpNumbers DEF OpType
    <3>4. container'[s] = state
      BY DEF ContainerMoves, PInv, TypeOK
    <3>5. state = "healthy" => h # None /\ h = op.elapsed
      <4>2. state = "healthy" => h = op.elapsed
        BY <3>1, Zenon
      <4>3. op.elapsed # None
        BY OpNumbers, StackAssumption
      <4> QED BY <4>2, <4>3
    <3>6. state # "healthy" => h = None
      BY <3>1
    <3>7. op.phase = "found" => (w # None /\ w >= op.elapsed - op.spent) \/ h # None
      <4>1. CASE container[s] = "healthy"
        <5>1. w = op.elapsed /\ op.elapsed # None
          BY <3>1, <4>1, OpNumbers, StackAssumption
        <5> QED BY <5>1, OpNumbers
      <4>2. CASE container[s] # "healthy"
        <5>1. w = op.healthyTill /\ op.healthySince = None
          BY <2>1, <3>1, <4>2 DEF SInv, Seen
        <5> QED BY <2>1, <5>1 DEF SInv, Seen
      <4> QED BY <4>1, <4>2
    <3> QED BY <3>3, <3>4, <3>5, <3>6, <3>7, OpNumbers, TimesAreNumbers DEF Seen
  <2>2. CASE op.name = "wait_healthy" /\ op.service # s
    <3>1. op' = op /\ container'[op.service] = container[op.service]
      BY <1>1, <2>2 DEF Watched, ContainerMoves, PInv, TypeOK
    <3> QED BY <3>1 DEF SInv, Seen
  <2>3. CASE op.name # "wait_healthy"
    BY <1>1, <2>3 DEF Watched, Seen
  <2> QED BY <2>1, <2>2, <2>3
<1> QED BY <1>1, <1>2 DEF SInv, HealthyReturnIsFresh, SteadyHealthIsNoticed

LEMMA ComposeSeen ==
    ASSUME PInv, SInv,
           \/ \E S \in (SUBSET Services) \ {{}} : Up(S)
           \/ Down \/ ExitContext \/ UpReturns \/ UpRaises
           \/ \E s \in Services : ComposeStarts(s) \/ ComposeRemoves(s)
           \/ DownReturns \/ DownFails \/ DownTimesOut
    PROVE  SInv'
<1>1. UNCHANGED result
  BY DEF Up, Down, ExitContext, UpReturns, UpRaises, ComposeStarts, ComposeRemoves,
         DownReturns, DownFails, DownTimesOut, DownOver
<1>2. op'.name # "wait_healthy"
  <2>1. ASSUME NEW s, op' = [op EXCEPT !.todo = @ \ {s}] PROVE op'.name = op.name
    BY <2>1, OpNumbers DEF OpType
  <2>2. ASSUME NEW name, NEW S, op' = [NoOp EXCEPT !.name = name, !.todo = S]
        PROVE  op'.name = name
    BY <2>2 DEF NoOp
  <2>3. NoOp.name = "none"
    BY DEF NoOp
  <2>4. CASE \/ \E S \in (SUBSET Services) \ {{}} : Up(S)
             \/ Down \/ ExitContext
    BY <2>2, <2>4 DEF Up, Down, ExitContext
  <2>5. CASE \E s \in Services : ComposeStarts(s) \/ ComposeRemoves(s)
    BY <2>1, <2>5 DEF ComposeStarts, ComposeRemoves
  <2>6. CASE UpReturns \/ UpRaises \/ DownReturns \/ DownFails \/ DownTimesOut
    BY <2>3, <2>6 DEF UpReturns, UpRaises, DownReturns, DownFails, DownTimesOut, DownOver
  <2> QED BY <2>4, <2>5, <2>6
<1> QED BY <1>1, <1>2 DEF SInv, Seen, HealthyReturnIsFresh, SteadyHealthIsNoticed

LEMMA WaitSeen ==
    ASSUME PInv, NEW name \in Waits, NEW s \in Services, Wait(name, s)
    PROVE  SInv'
<1>1. PICK h : h = (IF container[s] = "healthy" THEN 0 ELSE None)
  OBVIOUS
<1>2. op' = [name |-> name, todo |-> {}, service |-> s, phase |-> "test", elapsed |-> 0,
             spent |-> 0, healthySince |-> h, healthyTill |-> None]
  BY <1>1 DEF Wait, NoOp
<1>3. result'.name = "none" /\ container' = container
  BY DEF Wait, NoResult
<1>4. container[s] = "healthy" => h = 0 /\ h # None
  <2>2. container[s] = "healthy" => h = 0
    BY <1>1, Zenon
  <2>3. 0 # None
    BY StackAssumption
  <2> QED BY <2>2, <2>3
<1>5. container[s] # "healthy" => h = None
  BY <1>1
<1>6. Seen'
  BY <1>2, <1>3, <1>4, <1>5, TimesAreNumbers DEF Seen
<1> QED BY <1>3, <1>6 DEF SInv, HealthyReturnIsFresh, SteadyHealthIsNoticed

LEMMA TickSeen ==
    ASSUME PInv, SInv, Tick
    PROVE  SInv'
<1>1. op.elapsed < Bound
  BY BoundFar, OpNumbers, TimesAreNumbers
<1>2. PICK e, n : e = op.elapsed + 1 /\ n = op.spent + 1
  OBVIOUS
<1>3. op' = [op EXCEPT !.elapsed = e, !.spent = n]
  BY <1>1, <1>2 DEF Tick
<1>4. /\ op'.name = op.name /\ op'.service = op.service /\ op'.phase = op.phase
      /\ op'.healthySince = op.healthySince /\ op'.healthyTill = op.healthyTill
      /\ op'.elapsed = e /\ op'.spent = n
  BY <1>3, OpNumbers DEF OpType
<1>5. e - n = op.elapsed - op.spent
  BY <1>2, OpNumbers
<1>6. op.phase # "test" /\ UNCHANGED <<container, result>>
  BY DEF Tick
<1>7. e \in Nat /\ n \in Nat
  BY <1>2, OpNumbers
<1>8. ASSUME op.name = "wait_healthy", op.healthySince # None
      PROVE  /\ op'.phase = "polled" => op.healthySince >= op'.elapsed - op'.spent
             /\ op'.phase = "sleep" => op.healthySince >= op'.elapsed - op'.spent - PollMax
             /\ op'.phase = "test" =>
                    op.healthySince >= op'.elapsed - PollInterval - PollMax
             /\ op'.phase = "last" =>
                    op.healthySince >= op'.elapsed - op'.spent - PollInterval - PollMax
  BY <1>4, <1>5, <1>6, <1>7, <1>8, OpNumbers, TimesAreNumbers DEF SInv, Seen
<1>9. ASSUME op.name = "wait_healthy", op'.phase = "found"
      PROVE  \/ op.healthySince # None
             \/ op.healthyTill # None /\ op.healthyTill >= op'.elapsed - op'.spent
  BY <1>4, <1>5, <1>9 DEF SInv, Seen
<1> QED BY <1>4, <1>6, <1>8, <1>9, OnSeen

LEMMA PollsSeen ==
    ASSUME PInv, SInv, TestDeadline \/ PollHealth \/ PollExited \/ PollEnds \/ LastPoll
                           \/ PollRaises \/ SleepEnds
    PROVE  SInv'
<1>1. ASSUME NEW seen \in {"polled", "found", "refused"}, Reads(seen),
             op.name = "wait_healthy" => (seen = "found") = (Health(op.service) = "healthy")
      PROVE  SInv'
  <2>1. op' = [op EXCEPT !.phase = seen] /\ UNCHANGED <<container, result>>
    BY <1>1 DEF Reads
  <2>2. /\ op'.name = op.name /\ op'.service = op.service /\ op'.phase = seen
        /\ op'.healthySince = op.healthySince /\ op'.healthyTill = op.healthyTill
    BY <2>1, OpNumbers DEF OpType
  <2>3. op.name = "wait_healthy" => (op.healthySince # None) = (seen = "found")
    BY <1>1 DEF SInv, Seen, Health
  <2> QED BY <2>1, <2>2, <2>3, OnSeen
<1>2. CASE TestDeadline
  <2>1. Enter("poll") \/ Enter("last") \/ (WaitEnds("TimeoutError") /\ op.name # "wait_healthy")
    BY <1>2 DEF TestDeadline
  <2> QED BY <1>2, <2>1, EnterSeen, EndsSeen DEF TestDeadline
<1>3. CASE PollHealth
  <2>1. \/ Reads("found") /\ Health(op.service) = "healthy"
        \/ Reads("refused") /\ Health(op.service) # "healthy"
        \/ Reads("polled") /\ Health(op.service) # "healthy"
    BY <1>3 DEF PollHealth, Ready
  <2> QED BY <1>1, <2>1
<1>4. CASE PollExited
  <2>1. op.name # "wait_healthy" /\ (Reads("found") \/ Reads("polled"))
    BY <1>4 DEF PollExited
  <2> QED BY <1>1, <2>1
<1>5. CASE PollEnds
  BY <1>5, EnterSeen, EndsSeen DEF PollEnds
<1>6. CASE LastPoll
  BY <1>6, EndsSeen DEF LastPoll
<1>7. CASE PollRaises
  BY <1>7, EndsSeen DEF PollRaises
<1>8. CASE SleepEnds
  BY <1>8, EnterSeen DEF SleepEnds, SleepTime
<1> QED BY <1>2, <1>3, <1>4, <1>5, <1>6, <1>7, <1>8

LEMMA SeenInvariant == Spec => []SInv
<1>1. Init => SInv
  BY DEF Init, SInv, Seen, HealthyReturnIsFresh, SteadyHealthIsNoticed, NoOp, NoResult
<1>2. PInv /\ SInv /\ [Next]_vars => SInv'
  <2> SUFFICES ASSUME PInv, SInv, [Next]_vars PROVE SInv'
    OBVIOUS
  <2>1. CASE UNCHANGED vars
    BY <2>1 DEF vars, SInv, Seen, HealthyReturnIsFresh, SteadyHealthIsNoticed
  <2> QED BY <2>1, ContainerSeen, ComposeSeen, WaitSeen, TickSeen, PollsSeen
          DEF Next, Driver
<1> QED BY <1>1, <1>2, PacedInvariant, PTL DEF Spec

\* What wait_healthy returns on is at most one poll old, whatever the service does meanwhile.
THEOREM HealthyReturnsAreFresh == Spec => []HealthyReturnIsFresh
<1>1. SInv => HealthyReturnIsFresh
  BY DEF SInv
<1> QED BY <1>1, SeenInvariant, PTL

\* Health that has lasted one poll and one sleep before the deadline is noticed, for any
\* timeout and interval: the gap of the last sleep is the only one.
THEOREM SteadyHealthNoticed == Spec => []SteadyHealthIsNoticed
<1>1. SInv => SteadyHealthIsNoticed
  BY DEF SInv
<1> QED BY <1>1, SeenInvariant, PTL

----
(* What the with-block leaves behind *)

\* While no fault is open, something can be there only if the flag says so or up is at
\* work; down leaves nothing of the services it has dealt with.
Teardown ==
    /\ context = "exiting" => op.name = "down"
    /\ context = "left" => op.name = "none" /\ (faults = {} => ~broughtUp)
    /\ (faults = {} /\ ~broughtUp /\ op.name # "up") => ~Leaked
    /\ op.name = "down" => \A s \in Services \ op.todo : container[s] = "absent"

\* The waits leave the stack alone.
LEMMA WaitsTearNothing ==
    ASSUME Teardown, UNCHANGED <<container, volume, broughtUp, context, faults>>,
           op.name \notin {"up", "down"}, op'.name \notin {"up", "down"},
           op.name # "none" \/ context = "in"
    PROVE  Teardown'
BY DEF Teardown, Leaked

LEMMA WaitStepsTearNothing ==
    ASSUME PInv, Teardown,
           \/ \E name \in Waits, s \in Services : Wait(name, s)
           \/ TestDeadline \/ PollHealth \/ PollExited \/ PollEnds \/ LastPoll
           \/ PollRaises \/ SleepEnds \/ Tick
    PROVE  Teardown'
<1>1. ASSUME NEW name \in Waits, NEW s \in Services, Wait(name, s) PROVE Teardown'
  <2>1. op'.name = name
    BY <1>1 DEF Wait, NoOp
  <2> QED BY <1>1, <2>1, WaitsTearNothing DEF Wait
<1>2. ASSUME op.name \in Waits, op'.name \in {op.name, "none"},
             UNCHANGED <<container, volume, broughtUp, context, faults>>
      PROVE  Teardown'
  BY <1>2, WaitsTearNothing
<1>3. ASSUME NEW outcome, op.name \in Waits, WaitEnds(outcome) PROVE Teardown'
  BY <1>2, <1>3 DEF WaitEnds, NoOp
<1>4. ASSUME NEW phase, op.name \in Waits, Enter(phase) PROVE Teardown'
  <2>1. op'.name = op.name
    BY <1>4, OpNumbers DEF Enter, OpType
  <2> QED BY <1>2, <1>4, <2>1 DEF Enter
<1>5. ASSUME NEW seen, op.name \in Waits, Reads(seen) PROVE Teardown'
  <2>1. op'.name = op.name
    BY <1>5, OpNumbers DEF Reads, OpType
  <2> QED BY <1>2, <1>5, <2>1 DEF Reads
<1>6. CASE Tick
  <2>1. op'.name = op.name
    BY <1>6, OpNumbers DEF Tick, OpType
  <2> QED BY <1>2, <1>6, <2>1 DEF Tick
<1>7. op.phase # "test" => op.name \in Waits
  BY DEF PInv, Paced
<1>8. CASE TestDeadline
  BY <1>3, <1>4, <1>8 DEF TestDeadline
<1>9. CASE PollHealth \/ PollExited
  BY <1>5, <1>9 DEF PollHealth, PollExited
<1>10. CASE PollEnds \/ LastPoll \/ PollRaises \/ SleepEnds
  BY <1>3, <1>4, <1>7, <1>10 DEF PollEnds, LastPoll, PollRaises, SleepEnds
<1> QED BY <1>1, <1>6, <1>8, <1>9, <1>10

\* A container that moves is there, so it is none that down has dealt with.
LEMMA ContainerTearsNothing ==
    ASSUME PInv, Teardown, NEW s \in Services, NEW state \in States, ContainerMoves(s, state)
    PROVE  Teardown'
<1>1. container[s] # "absent" /\ UNCHANGED <<volume, broughtUp, context, faults>>
  BY DEF ContainerMoves
<1>2. \A r \in Services : r # s => container'[r] = container[r]
  BY DEF ContainerMoves, PInv, TypeOK
<1>3. op'.name = op.name /\ (op.name = "down" => op'.todo = op.todo)
  BY OpNumbers DEF ContainerMoves, Watched, OpType
<1>4. Leaked
  BY <1>1 DEF Leaked
<1>5. op'.name = "down" => \A r \in Services \ op'.todo : container'[r] = "absent"
  BY <1>1, <1>2, <1>3 DEF Teardown
<1> QED BY <1>1, <1>3, <1>4, <1>5 DEF Teardown

LEMMA ComposeTearsDown ==
    ASSUME PInv, Teardown,
           \/ \E S \in (SUBSET Services) \ {{}} : Up(S)
           \/ Down \/ ExitContext \/ UpReturns \/ UpRaises
           \/ \E s \in Services : ComposeStarts(s) \/ ComposeRemoves(s)
           \/ DownReturns \/ DownFails \/ DownTimesOut
    PROVE  Teardown'
<1>1. ASSUME NEW name, NEW S, op' = [NoOp EXCEPT !.name = name, !.todo = S]
      PROVE  op'.name = name /\ op'.todo = S
  BY <1>1 DEF NoOp
<1>2. ASSUME NEW s, op' = [op EXCEPT !.todo = @ \ {s}]
      PROVE  op'.name = op.name /\ op'.todo = op.todo \ {s}
  BY <1>2, OpNumbers DEF OpType
<1>3. NoOp.name = "none"
  BY DEF NoOp
<1>4. ASSUME NEW S \in (SUBSET Services) \ {{}}, Up(S) PROVE Teardown'
  <2>1. op'.name = "up" /\ context' = "in"
    BY <1>1, <1>4 DEF Up
  <2> QED BY <2>1 DEF Teardown
<1>5. CASE Down
  <2>1. op'.name = "down" /\ op'.todo = Services
    BY <1>1, <1>5 DEF Down
  <2> QED BY <1>5, <2>1 DEF Down, Teardown
<1>6. CASE ExitContext
  <2>1. CASE broughtUp
    <3>1. op'.name = "down" /\ op'.todo = Services /\ context' = "exiting"
      BY <1>1, <1>6, <2>1 DEF ExitContext
    <3> QED BY <1>6, <2>1, <3>1 DEF ExitContext, Teardown
  <2>2. CASE ~broughtUp
    <3>1. op' = op /\ context' = "left"
      BY <1>6, <2>2 DEF ExitContext
    <3>2. UNCHANGED <<container, volume, broughtUp, faults>> /\ op.name = "none"
      BY <1>6 DEF ExitContext
    <3>3. Leaked' = Leaked
      BY <3>2 DEF Leaked
    <3> QED BY <2>2, <3>1, <3>2, <3>3 DEF Teardown
  <2> QED BY <2>1, <2>2
<1>7. CASE UpReturns
  BY <1>3, <1>7 DEF UpReturns, FlagAfterUp, Teardown
<1>8. CASE UpRaises
  <2>1. faults' # {} /\ op'.name = "none" /\ context' = context /\ op.name = "up"
    BY <1>3, <1>8 DEF UpRaises
  <2> QED BY <2>1 DEF Teardown
<1>9. ASSUME NEW s \in Services, ComposeStarts(s) PROVE Teardown'
  <2>1. op'.name = "up" /\ context' = context /\ op.name = "up"
    BY <1>2, <1>9 DEF ComposeStarts
  <2> QED BY <2>1 DEF Teardown
<1>10. ASSUME NEW s \in Services, ComposeRemoves(s) PROVE Teardown'
  <2>1. /\ op'.name = "down" /\ op'.todo = op.todo \ {s} /\ op.name = "down"
        /\ UNCHANGED <<volume, broughtUp, context, faults>>
    BY <1>2, <1>10 DEF ComposeRemoves
  <2>2. /\ container'[s] = "absent"
        /\ \A r \in Services : r # s => container'[r] = container[r]
    BY <1>10 DEF ComposeRemoves, PInv, TypeOK
  <2>3. Leaked' => Leaked
    BY <2>1, <2>2 DEF Leaked
  <2> QED BY <2>1, <2>2, <2>3 DEF Teardown
<1>11. CASE DownReturns
  <2>1. /\ op.todo = {} /\ op.name = "down" /\ op'.name = "none" /\ ~broughtUp'
        /\ volume' = (volume /\ ~RemoveVolumes) /\ container' = container
        /\ context' = IF context = "exiting" THEN "left" ELSE context
    BY <1>3, <1>11 DEF DownReturns, DownOver
  <2>2. \A s \in Services : container'[s] = "absent"
    BY <2>1 DEF Teardown
  <2>3. ~Leaked'
    BY <2>1, <2>2 DEF Leaked
  <2> QED BY <2>1, <2>3 DEF Teardown
<1>12. CASE DownFails \/ DownTimesOut
  <2>1. /\ faults' # {} /\ op'.name = "none" /\ op.name = "down"
        /\ context' = IF context = "exiting" THEN "left" ELSE context
    BY <1>3, <1>12 DEF DownFails, DownTimesOut, DownOver
  <2> QED BY <2>1 DEF Teardown
<1> QED BY <1>4, <1>5, <1>6, <1>7, <1>8, <1>9, <1>10, <1>11, <1>12

\* When every compose command that failed was made up for, the with-block leaves no
\* container and, with remove_volumes, no volume behind, for any services.
THEOREM ExitsAreClean == Spec => []CleanExit
<1>1. Init => Teardown
  BY DEF Init, Teardown, Leaked, NoOp
<1>2. PInv /\ Teardown /\ [Next]_vars => Teardown'
  <2> SUFFICES ASSUME PInv, Teardown, [Next]_vars PROVE Teardown'
    OBVIOUS
  <2>1. CASE UNCHANGED vars
    BY <2>1 DEF vars, Teardown, Leaked
  <2> QED BY <2>1, ContainerTearsNothing, ComposeTearsDown, WaitStepsTearNothing
          DEF Next, Driver
<1>3. Teardown => CleanExit
  BY DEF Teardown, CleanExit
<1> QED BY <1>1, <1>2, <1>3, PacedInvariant, PTL DEF Spec
====
