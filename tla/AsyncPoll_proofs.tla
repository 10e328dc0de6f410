--------------------------- MODULE AsyncPoll_proofs ---------------------------
(***************************************************************************)
(* Proofs about the polling loop, for every budget, every set of failures  *)
(* and every set of completion codes.                                      *)
(***************************************************************************)
EXTENDS AsyncPoll, TLAPS

(* The verdicts the loop can return are verdicts.                          *)
LEMMA PlainIsVerdict ==
  /\ \A k \in {"none", "ok", "broken", "deadline", "cancelled"} :
       Plain(k) \in Verdict /\ Plain(k).kind = k /\ Plain(k).code = 0
  /\ \A c \in Statuses :
       /\ asyncFailedError(c) \in Verdict
       /\ asyncFailedError(c).kind = "failed"
       /\ asyncFailedError(c).code = c
BY DEF Plain, asyncFailedError, Verdict

(* What a giving-up loop returns for the failures of the environment: any  *)
(* of them may be a deadline, and "cancelled" is the context's own.        *)
LEMMA GivenUpVerdict ==
  ASSUME ctx \in {"live", "deadline", "cancelled"},
         NEW f \in CallFailures
  PROVE  /\ f \in Failure
         /\ f.wraps = "cancelled" => ctx = "cancelled"
         /\ (IF f.wraps = "none" THEN "broken" ELSE f.wraps)
              \in {"broken", "deadline", "cancelled"}
<1>1. CASE f \in Failures
  <2>1. f \in Failure /\ f.wraps # "cancelled"
    BY <1>1, FailuresAssumption
  <2> QED BY <2>1 DEF Failure
<1>2. CASE f \notin Failures
  <2>1. ctx # "live" /\ f \in [resp : {0}, fragment : BOOLEAN, wraps : {ctx}]
    BY <1>2 DEF CallFailures
  <2>2. f \in Failure /\ f.wraps = ctx
    BY <2>1 DEF Failure, Statuses
  <2> QED BY <2>1, <2>2 DEF Failure
<1> QED BY <1>1, <1>2

-----------------------------------------------------------------------------
(* Type correctness.  Init and every action keep every variable in its     *)
(* type; the budget never goes below zero nor above what it started at.    *)
LEMMA InitTypeOK == Init => TypeOK
<1> SUFFICES ASSUME Init PROVE TypeOK
  OBVIOUS
<1> USE BudgetAssumption, PlainIsVerdict
<1>1. LoopTypeOK
  BY DEF Init, LoopInit, LoopTypeOK
<1>2. job \in Job(Codes) /\ resource \in BOOLEAN /\ shown \in BOOLEAN
  BY DEF Init, Running, Job
<1> QED BY <1>1, <1>2 DEF TypeOK

LEMMA NextTypeOK == TypeOK /\ [Next]_vars => TypeOK'
<1> SUFFICES ASSUME TypeOK, [Next]_vars PROVE TypeOK'
  OBVIOUS
<1> USE BudgetAssumption, CodesAssumption
<1>1. CASE NameObject
  BY <1>1 DEF NameObject, TypeOK, LoopTypeOK, loopVars, Job
<1>2. ASSUME NEW code \in Codes, NEW named \in BOOLEAN, Complete(code, named)
      PROVE  TypeOK'
  <2>1. job' \in Job(Codes)
    BY <1>2 DEF Complete, TypeOK, Job
  <2> QED BY <1>2, <2>1 DEF Complete, TypeOK, LoopTypeOK, loopVars
<1>3. CASE ContextEnds /\ UNCHANGED <<job, resource, shown>>
  BY <1>3 DEF ContextEnds, TypeOK, LoopTypeOK
<1>4. CASE StatusPending
  BY <1>4
  DEF StatusPending, StatusArrives, CaptureResource, TypeOK, LoopTypeOK, Job
<1>5. CASE StatusSucceeded
  BY <1>5, PlainIsVerdict
  DEF StatusSucceeded, StatusArrives, CaptureResource, Return, TypeOK,
      LoopTypeOK, Job
<1>6. CASE StatusFailed
  <2>1. job.code \in Statuses
    BY DEF TypeOK, Job, Statuses
  <2>2. asyncFailedError(job.code) \in Verdict
    BY <2>1, PlainIsVerdict
  <2> QED
    BY <1>6, <2>2
    DEF StatusFailed, StatusArrives, CaptureResource, Return, TypeOK,
        LoopTypeOK, Job
<1>7. ASSUME NEW f \in CallFailures, Retry(f), UNCHANGED <<job, resource, shown>>
      PROVE  TypeOK'
  BY <1>7 DEF Retry, CountBlip, TypeOK, LoopTypeOK
<1>8. ASSUME NEW f \in CallFailures, GiveUp(f), UNCHANGED <<job, resource, shown>>
      PROVE  TypeOK'
  <2>1. verdict' \in Verdict
    BY <1>8, GivenUpVerdict, PlainIsVerdict
    DEF GiveUp, Return, TypeOK, LoopTypeOK
  <2> QED BY <1>8, <2>1 DEF GiveUp, Return, TypeOK, LoopTypeOK
<1>9. CASE Sleep
  BY <1>9, PlainIsVerdict
  DEF Sleep, Wait, TimerFires, SleepInterrupted, Return, TypeOK, LoopTypeOK
<1>10. CASE UNCHANGED vars
  BY <1>10 DEF vars, TypeOK, LoopTypeOK
<1> QED
  BY <1>1, <1>2, <1>3, <1>4, <1>5, <1>6, <1>7, <1>8, <1>9, <1>10
  DEF Next, Backend, Poll, CallFails, Returned

(* Every variable of the loop and of the operation keeps to its type, for  *)
(* every budget, set of failures and set of completion codes.              *)
THEOREM TypeCorrect == Spec => []TypeOK
BY InitTypeOK, NextTypeOK, PTL DEF Spec

-----------------------------------------------------------------------------
(* The inductive invariant.  A poll that has not returned has no verdict,  *)
(* so a verdict is only ever compared with the operation at the moment it  *)
(* is returned; a completed operation and an ended context stay as they    *)
(* are, so it remains right.  What the closure holds is at every moment    *)
(* what the last status showed.                                            *)
IInv ==
  /\ TypeOK
  /\ resource = shown
  /\ pc # "done" => verdict = Plain("none")
  /\ VerdictIsTheServers
  /\ BudgetIsPerOperation

LEMMA InitIInv == Init => IInv
<1> SUFFICES ASSUME Init PROVE IInv
  OBVIOUS
<1>1. VerdictIsTheServers
  BY DEF Init, LoopInit, Plain, VerdictIsTheServers
<1>2. BudgetIsPerOperation
  BY BudgetAssumption DEF Init, LoopInit, BudgetIsPerOperation
<1> QED BY <1>1, <1>2, InitTypeOK DEF IInv, Init, LoopInit

LEMMA NextVerdict == IInv /\ [Next]_vars => VerdictIsTheServers'
<1> SUFFICES ASSUME IInv, [Next]_vars PROVE VerdictIsTheServers'
  OBVIOUS
<1> USE DEF IInv
<1>1. CASE NameObject
  BY <1>1 DEF NameObject, loopVars, VerdictIsTheServers
<1>2. ASSUME NEW code \in Codes, NEW named \in BOOLEAN, Complete(code, named)
      PROVE  VerdictIsTheServers'
  BY <1>2 DEF Complete, loopVars, VerdictIsTheServers
<1>3. CASE ContextEnds /\ UNCHANGED <<job, resource, shown>>
  BY <1>3 DEF ContextEnds, VerdictIsTheServers, Plain
<1>4. CASE StatusPending
  BY <1>4 DEF StatusPending, StatusArrives, VerdictIsTheServers, Plain
<1>5. CASE StatusSucceeded
  BY <1>5
  DEF StatusSucceeded, StatusArrives, CaptureResource, Return,
      VerdictIsTheServers, Plain
<1>6. CASE StatusFailed
  BY <1>6
  DEF StatusFailed, StatusArrives, CaptureResource, Return,
      VerdictIsTheServers, asyncFailedError
<1>7. ASSUME NEW f \in CallFailures, Retry(f), UNCHANGED <<job, resource, shown>>
      PROVE  VerdictIsTheServers'
  BY <1>7 DEF Retry, VerdictIsTheServers, Plain
<1>8. ASSUME NEW f \in CallFailures, GiveUp(f), UNCHANGED <<job, resource, shown>>
      PROVE  VerdictIsTheServers'
  BY <1>8, GivenUpVerdict
  DEF GiveUp, Return, VerdictIsTheServers, Plain, TypeOK, LoopTypeOK
<1>9. CASE Sleep
  BY <1>9
  DEF Sleep, Wait, TimerFires, SleepInterrupted, Return, VerdictIsTheServers,
      Plain, TypeOK, LoopTypeOK
<1>10. CASE UNCHANGED vars
  BY <1>10 DEF vars, VerdictIsTheServers
<1> QED
  BY <1>1, <1>2, <1>3, <1>4, <1>5, <1>6, <1>7, <1>8, <1>9, <1>10
  DEF Next, Backend, Poll, CallFails, Returned

LEMMA NextBudget == IInv /\ [Next]_vars => BudgetIsPerOperation'
<1> SUFFICES ASSUME IInv, [Next]_vars PROVE BudgetIsPerOperation'
  OBVIOUS
<1> USE BudgetAssumption DEF IInv, BudgetIsPerOperation
<1>1. ASSUME NEW f \in CallFailures, Retry(f) PROVE BudgetIsPerOperation'
  BY <1>1 DEF Retry, CountBlip, TypeOK, LoopTypeOK
<1>2. ASSUME UNCHANGED <<blips, remaining>> PROVE BudgetIsPerOperation'
  BY <1>2
<1>3. \/ UNCHANGED <<blips, remaining>>
      \/ \E f \in CallFailures : Retry(f)
  BY DEF Next, Backend, NameObject, Complete, loopVars, ContextEnds, Poll,
     StatusPending, StatusSucceeded, StatusFailed, CallFails, GiveUp, Return,
     Sleep, Wait, TimerFires, SleepInterrupted, Returned, vars
<1> QED BY <1>1, <1>2, <1>3

LEMMA NextIInv == IInv /\ [Next]_vars => IInv'
<1> SUFFICES ASSUME IInv, [Next]_vars PROVE IInv'
  OBVIOUS
<1>1. TypeOK'
  BY NextTypeOK DEF IInv
<1>2. (pc # "done" => verdict = Plain("none"))'
  BY DEF IInv, Next, Backend, NameObject, Complete, loopVars, ContextEnds,
     Poll, StatusPending, StatusArrives, StatusSucceeded, StatusFailed,
     CallFails, Retry, GiveUp, Return, Sleep, Wait, TimerFires,
     SleepInterrupted, Returned, vars
<1>3. (resource = shown)'
  BY DEF IInv, Next, Backend, NameObject, Complete, loopVars, ContextEnds,
     Poll, StatusPending, StatusArrives, CaptureResource, StatusSucceeded,
     StatusFailed, CallFails, Sleep, Returned, vars
<1> QED BY <1>1, <1>2, <1>3, NextVerdict, NextBudget DEF IInv

LEMMA AlwaysIInv == Spec => []IInv
BY InitIInv, NextIInv, PTL DEF Spec

(* pollAsync never credits or blames the backend for what it did not do,   *)
(* and reports a deadline only for a context that reached it.              *)
THEOREM VerdictCorrect == Spec => []VerdictIsTheServers
BY AlwaysIInv, PTL DEF IInv

(* One operation survives at most Budget transient failures, however many  *)
(* statuses arrive between them.                                           *)
THEOREM BudgetCorrect == Spec => []BudgetIsPerOperation
BY AlwaysIInv, PTL DEF IInv

-----------------------------------------------------------------------------
(* The contract speaks of statuses and verdicts in the same words.         *)
LEMMA ContractWords ==
  /\ Contract!Running = Running
  /\ Contract!Job(Codes) = Job(Codes)
  /\ \A k : Contract!Plain(k) = Plain(k)
  /\ \A v, j, c : Justified(v, j, c) => Contract!Justified(v, j, c)
<1>1. Contract!Running = Running
  BY DEF Running, Contract!Running
<1>2. Contract!Job(Codes) = Job(Codes)
  BY DEF Job, Contract!Job, Statuses, Contract!Statuses
<1>3. \A k : Contract!Plain(k) = Plain(k)
  BY DEF Plain, Contract!Plain
<1>4. \A c : /\ isSuccessStatus(c) <=> Contract!isSuccessStatus(c)
             /\ Contract!asyncFailedError(c) = asyncFailedError(c)
  BY DEF isSuccessStatus, Contract!isSuccessStatus, asyncFailedError,
     Contract!asyncFailedError
<1>5. \A v, j, c : Justified(v, j, c) => Contract!Justified(v, j, c)
  BY <1>3, <1>4 DEF Justified, Contract!Justified
<1> QED BY <1>1, <1>2, <1>3, <1>5

(* Refinement: every step of the loop is a step of the contract.           *)
LEMMA StepKeepsContract ==
  IInv /\ [Next]_vars => [Contract!Next]_(Contract!contractVars)
<1> SUFFICES ASSUME IInv, [Next]_vars
             PROVE  Contract!Next \/ UNCHANGED <<job, ctx, shown, resource, verdict>>
  BY DEF Contract!contractVars
<1> USE ContractWords DEF IInv
<1>1. CASE NameObject
  <2>1. job' \in Job(Codes)
    BY <1>1, NextTypeOK DEF TypeOK
  <2> QED
    BY <1>1, <2>1
    DEF NameObject, loopVars, TypeOK, Job, Contract!Next, Contract!JobMoves
<1>2. ASSUME NEW code \in Codes, NEW named \in BOOLEAN, Complete(code, named)
      PROVE  Contract!Next
  <2>1. job' \in Job(Codes)
    BY NextTypeOK DEF TypeOK
  <2> QED
    BY <1>2, <2>1 DEF Complete, loopVars, Contract!Next, Contract!JobMoves
<1>3. CASE ContextEnds /\ UNCHANGED <<job, resource, shown>>
  BY <1>3 DEF ContextEnds, Contract!Next, Contract!ContextEnds
<1>4. CASE StatusPending
  BY <1>4
  DEF StatusPending, StatusArrives, CaptureResource, Contract!Next,
      Contract!Learn
<1>5. CASE StatusSucceeded
  BY <1>5
  DEF StatusSucceeded, StatusArrives, CaptureResource, Return, Justified,
      Contract!Next, Contract!Conclude
<1>6. CASE StatusFailed
  BY <1>6, PlainIsVerdict
  DEF StatusFailed, StatusArrives, CaptureResource, Return, Justified,
      asyncFailedError, Contract!Next, Contract!Conclude
<1>7. ASSUME NEW f \in CallFailures, Retry(f), UNCHANGED <<job, resource, shown>>
      PROVE  UNCHANGED <<job, ctx, shown, resource, verdict>>
  BY <1>7 DEF Retry
<1>8. ASSUME NEW f \in CallFailures, GiveUp(f), UNCHANGED <<job, resource, shown>>
      PROVE  Contract!Next
  BY <1>8, GivenUpVerdict
  DEF GiveUp, Return, Plain, Justified, TypeOK, LoopTypeOK,
      Contract!Next, Contract!Conclude
<1>9. CASE Sleep
  BY <1>9
  DEF Sleep, Wait, TimerFires, SleepInterrupted, Return, Plain, Justified,
      TypeOK, LoopTypeOK, Contract!Next, Contract!Conclude
<1>10. CASE UNCHANGED vars
  BY <1>10 DEF vars
<1> QED
  BY <1>1, <1>2, <1>3, <1>4, <1>5, <1>6, <1>7, <1>8, <1>9, <1>10
  DEF Next, Backend, Poll, CallFails, Returned

(* The polling loop implements what the handlers rely on, whatever the     *)
(* budget, the failures and the completion codes.                          *)
THEOREM ContractImplemented == Spec => ImplementsContract
<1>1. Init => Contract!Init
  BY ContractWords DEF Init, LoopInit, Contract!Init
<1> QED
  BY <1>1, AlwaysIInv, StepKeepsContract, PTL
  DEF Spec, ImplementsContract, Contract!Spec
=============================================================================
