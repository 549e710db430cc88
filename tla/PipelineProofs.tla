--------------------------- MODULE PipelineProofs ---------------------------
(***************************************************************************)
(* Theorems about Pipeline, for any size of dump, any numbers of hooks and *)
(* any hook budget.                                                        *)
(*                                                                         *)
(* Three invariants carry the argument.  Control says where Run can be in  *)
(* relation to its goroutines, Flow what each stage may have received and  *)
(* what a clean eof means, Blame that every error anywhere can be traced   *)
(* to a fault outside Run.                                                 *)
(***************************************************************************)
EXTENDS Pipeline, TLAPS

StageStates == {"off", "run", "smoke", "copy", "end", "abort", "ok", "err"}

-----------------------------------------------------------------------------
(***************************************************************************)
(* The inductive invariant.                                                *)
(***************************************************************************)
\* Before the stages start nothing has moved; once Run is past Collect they
\* are all over and the temp file is gone.
Control ==
  /\ pc \in {"start", "pre"} => ~preOk
  /\ pc \in {"create", "stage", "put", "collect", "post"} => preOk
  /\ ~preOk => \A s \in Stages : stage[s] = "off"
  /\ staged => pc \in {"stage", "put", "collect"}
  /\ preOk /\ pc \in {"post", "returned"} =>
       \A s \in Stages : stage[s] \in Ended

\* The hooks of the list under way: none of the post-hooks before Run is over,
\* never more than there are.
HookCount ==
  /\ pc \in {"create", "stage", "put", "collect"} => hook = 0
  /\ pc = "post" => hook <= Least(PostHooks, HooksMaxCount)
  /\ pc = "returned" /\ preOk => hook = Least(PostHooks, HooksMaxCount)

\* Nobody has received more than was sent, and a clean eof, unlike an end
\* frame, is only met after everything before it.
Flow ==
  /\ got["main"] <= got["enc"] /\ got["enc"] <= got["comp"]
  /\ wend["dump"] = "eof" <=> stage["dump"] = "ok"
  /\ wend["comp"] = "eof" <=> stage["comp"] = "ok"
  /\ wend["enc"] = "eof" <=> stage["enc"] = "ok"
  /\ wend["dump"] = "eof" => got["comp"] = Chunks
  /\ stage["comp"] \in {"end", "ok"} => wend["dump"] = "eof"
  /\ stage["comp"] = "ok" => fin["enc"]
  /\ fin["enc"] => /\ got["enc"] = got["comp"]
                   /\ stage["comp"] \in {"end", "abort", "ok", "err"}
  /\ ~encrypted => ~mark
  /\ stage["enc"] = "ok" =>
       /\ wend["comp"] = "eof"
       /\ got["main"] = got["enc"] /\ fin["main"] = fin["enc"]
       /\ mark = encrypted

\* What is in the bucket, and that an upload without error put it there.
Stored ==
  /\ pc = "put" => wend["enc"] = "eof"
  /\ object \in {"none", "whole"}
  /\ pc = "collect" /\ ~uploadErr => object = "whole"
  /\ result = "completed" => object = "whole"

\* Every error can be traced to a fault.
Blame ==
  \/ fault
  \/ /\ ~ctxDone /\ ~uploadErr
     /\ result # "failed"
     /\ \A s \in Stages :
          /\ stage[s] \notin {"err", "abort"}
          /\ wend[s] # "err" /\ rend[s] # "err"

IInv == TypeOK /\ Control /\ HookCount /\ Flow /\ Stored /\ Blame

-----------------------------------------------------------------------------
(***************************************************************************)
(* Every step preserves it, part by part.                                  *)
(***************************************************************************)
\* What a hook may change, its time and its count apart: a failed pre-hook
\* ends the run.
LEMMA HookFrame ==
  ASSUME HookNext
  PROVE  /\ UNCHANGED <<flowVars, uploadErr, staged, object, preOk, kindVars,
                        ctxVars>>
         /\ \/ UNCHANGED <<pc, result, fault>>
            \/ /\ pc = "pre" /\ pc' = "returned"
               /\ result' = "failed" /\ fault'
<1> USE DEF mainVars
<1>1. ASSUME NEW shell \in 0 .. HookTimeoutMax,
            NEW held \in 0 .. HookHold, PreHookFail(shell, held)
     PROVE  pc = "pre" /\ pc' = "returned" /\ result' = "failed" /\ fault'
  BY <1>1 DEF PreHookFail
<1>2. ASSUME NEW shell \in 0 .. HookTimeoutMax,
            NEW held \in 0 .. HookHold, PreHookFail(shell, held)
     PROVE  UNCHANGED <<flowVars, uploadErr, staged, object, preOk, kindVars,
                        ctxVars>>
  BY <1>2 DEF PreHookFail
<1>3. ASSUME NEW shell \in 0 .. HookTimeoutMax,
            NEW held \in 0 .. HookHold, PreHookOk(shell, held)
     PROVE  UNCHANGED <<flowVars, mainVars, preOk, kindVars, ctxVars, fault>>
  BY <1>3 DEF PreHookOk
<1>4. ASSUME NEW shell \in 0 .. HookTimeoutMax,
            NEW held \in 0 .. HookHold, NEW ok \in BOOLEAN,
            PostHook(shell, held, ok)
     PROVE  UNCHANGED <<flowVars, mainVars, preOk, kindVars, ctxVars, fault>>
  BY <1>4 DEF PostHook
<1> QED
  BY <1>1, <1>2, <1>3, <1>4 DEF HookNext

\* Only StartStages moves preOk, and only Collect passes to the post-hooks.
LEMMA ControlStep ==
  ASSUME TypeOK, Control, [Next]_vars
  PROVE  Control'
<1> USE DEF TypeOK, Control, Stages, Ended,
            flowVars, mainVars, hookVars, kindVars, ctxVars
<1>1. CASE HookNext
  BY <1>1, HookFrame
<1>2. CASE DumpNext
  BY <1>2 DEF DumpNext, DumpWrite, DumpOk, DumpFail
<1>3. CASE CompNext
  BY <1>3 DEF CompNext, SmokePass, SmokeFail, CompReadEnd, CompWrite,
       CompEndFrame, CompOk, CompFail, StageFails
<1>4. CASE EncNext
  BY <1>4 DEF EncNext, EncWrite, EncMark, EncOk, EncFail, StageFails
<1>5. CASE EnvNext
  BY <1>5 DEF EnvNext, ToolFail, NonceFail, DiskFail, ContextDone, HookHangs,
       CallHangs, DumpHangs, StageFails, UploadFails
<1>6. CASE StartStages
  BY <1>6 DEF StartStages
<1>7. CASE Collect
  BY <1>7 DEF Collect
<1>8. CASE Prepare \/ Reject \/ CreateTemp \/ StagedAll \/ PutOk \/ Return
  BY <1>8 DEF Prepare, Reject, CreateTemp, StagedAll, PutOk, Return
<1>9. CASE CreateTempFail \/ StageFail \/ PutFail
  BY <1>9 DEF CreateTempFail, StageFail, PutFail, UploadFails
<1>10. CASE UNCHANGED vars
  BY <1>10 DEF vars
<1> QED
  BY <1>1, <1>2, <1>3, <1>4, <1>5, <1>6, <1>7, <1>8, <1>9, <1>10 DEF Next,
       MainNext

\* Each list of hooks is gone through once, up to HooksMaxCount.
LEMMA HookStep ==
  ASSUME TypeOK, Control, HookCount, [Next]_vars
  PROVE  HookCount'
<1> USE DEF TypeOK, Control, HookCount, Least,
            flowVars, mainVars, hookVars, kindVars, ctxVars
<1>1. ASSUME NEW shell \in 0 .. HookTimeoutMax,
            NEW held \in 0 .. HookHold, PreHookFail(shell, held)
     PROVE  HookCount'
  BY <1>1, PipelineAssumption DEF PreHookFail
<1>2. ASSUME NEW shell \in 0 .. HookTimeoutMax,
            NEW held \in 0 .. HookHold, PreHookOk(shell, held)
     PROVE  HookCount'
  BY <1>2, PipelineAssumption DEF PreHookOk
<1>3. ASSUME NEW shell \in 0 .. HookTimeoutMax,
            NEW held \in 0 .. HookHold, NEW ok \in BOOLEAN, PostHook(shell, held, ok)
     PROVE  HookCount'
  BY <1>3, PipelineAssumption DEF PostHook
<1>4. CASE DumpNext
  BY <1>4, PipelineAssumption DEF DumpNext, DumpWrite, DumpOk, DumpFail
<1>5. CASE CompNext
  BY <1>5, PipelineAssumption DEF CompNext, SmokePass, SmokeFail, CompReadEnd,
       CompWrite, CompEndFrame, CompOk, CompFail
<1>6. CASE EncNext
  BY <1>6, PipelineAssumption DEF EncNext, EncWrite, EncMark, EncOk, EncFail
<1>7. CASE EnvNext
  BY <1>7, PipelineAssumption DEF EnvNext, ToolFail, NonceFail, DiskFail,
       ContextDone, HookHangs, CallHangs, DumpHangs, UploadFails
<1>8. CASE StartStages
  BY <1>8, PipelineAssumption DEF StartStages
<1>9. CASE Prepare \/ Reject \/ CreateTemp \/ StagedAll \/ PutOk \/ Collect
  BY <1>9, PipelineAssumption DEF Prepare, Reject, CreateTemp, StagedAll,
       PutOk, Collect
<1>10. CASE CreateTempFail \/ StageFail \/ PutFail
  BY <1>10, PipelineAssumption DEF CreateTempFail, StageFail, PutFail,
       UploadFails
<1>11. CASE Return
  BY <1>11, PipelineAssumption DEF Return
<1>12. CASE UNCHANGED vars
  BY <1>12 DEF vars
<1> QED
  BY <1>1, <1>2, <1>3, <1>4, <1>5, <1>6, <1>7, <1>8, <1>9, <1>10, <1>11, <1>12
       DEF Next, HookNext, MainNext

\* A stage only ever moves a stream on, and closes with eof when it is whole.
LEMMA FlowStep ==
  ASSUME TypeOK, Control, Flow, [Next]_vars
  PROVE  Flow'
<1> USE DEF TypeOK, Control, Flow, Stages, Ended,
            flowVars, mainVars, hookVars, kindVars, ctxVars
<1>1. CASE HookNext
  BY <1>1, HookFrame
<1>2. CASE DumpWrite
  BY <1>2 DEF DumpWrite
<1>3. CASE DumpOk
  BY <1>3 DEF DumpOk
<1>4. CASE DumpFail
  BY <1>4 DEF DumpFail
<1>5. CASE SmokePass
  BY <1>5 DEF SmokePass
<1>6. CASE SmokeFail
  BY <1>6 DEF SmokeFail, StageFails
<1>7. CASE CompReadEnd
  BY <1>7 DEF CompReadEnd
<1>8. CASE CompWrite
  BY <1>8 DEF CompWrite
<1>9. CASE CompEndFrame
  BY <1>9 DEF CompEndFrame
<1>10. CASE CompOk
  BY <1>10 DEF CompOk
<1>11. CASE CompFail
  BY <1>11 DEF CompFail, StageFails
<1>12. CASE EncWrite
  BY <1>12 DEF EncWrite
<1>13. CASE EncMark
  BY <1>13 DEF EncMark, EncDrained
<1>14. CASE EncOk
  BY <1>14 DEF EncOk, EncDrained
<1>15. CASE EncFail
  BY <1>15 DEF EncFail, StageFails
<1>16. CASE StartStages
  BY <1>16 DEF StartStages
<1>17. CASE Prepare \/ Reject \/ CreateTemp \/ StagedAll \/ PutOk \/ Collect
     \/ Return
  BY <1>17 DEF Prepare, Reject, CreateTemp, StagedAll, PutOk, Collect, Return
<1>18. CASE CreateTempFail \/ StageFail \/ PutFail \/ DiskFail
  BY <1>18 DEF CreateTempFail, StageFail, PutFail, DiskFail, UploadFails
<1>19. CASE ToolFail
  BY <1>19 DEF ToolFail
<1>20. CASE NonceFail
  BY <1>20 DEF NonceFail, StageFails
<1>21. CASE ContextDone \/ HookHangs \/ CallHangs \/ DumpHangs
  BY <1>21 DEF ContextDone, HookHangs, CallHangs, DumpHangs
<1>22. CASE UNCHANGED vars
  BY <1>22 DEF vars
<1> QED
  BY <1>1, <1>2, <1>3, <1>4, <1>5, <1>6, <1>7, <1>8, <1>9, <1>10, <1>11,
       <1>12, <1>13, <1>14, <1>15, <1>16, <1>17, <1>18, <1>19, <1>20, <1>21,
            <1>22 DEF Next, DumpNext, CompNext, EncNext, MainNext, EnvNext

\* What is put is what was staged up to a clean eof.
LEMMA StoredStep ==
  ASSUME TypeOK, Control, Flow, Stored, [Next]_vars
  PROVE  Stored'
<1> USE DEF TypeOK, Control, Flow, Stored, Stages,
            flowVars, mainVars, hookVars, kindVars, ctxVars
<1>1. CASE HookNext
  BY <1>1, HookFrame
<1>2. CASE DumpNext
  BY <1>2 DEF DumpNext, DumpWrite, DumpOk, DumpFail
<1>3. CASE CompNext
  BY <1>3 DEF CompNext, SmokePass, SmokeFail, CompReadEnd, CompWrite,
       CompEndFrame, CompOk, CompFail, StageFails
<1>4. CASE EncNext
  BY <1>4 DEF EncNext, EncWrite, EncMark, EncOk, EncFail, StageFails,
       EncDrained
<1>5. CASE EnvNext
  BY <1>5 DEF EnvNext, ToolFail, NonceFail, DiskFail, ContextDone, HookHangs,
       CallHangs, DumpHangs, StageFails, UploadFails, EncDrained
<1>6. CASE Prepare \/ Reject \/ StartStages \/ CreateTemp \/ StagedAll
  BY <1>6 DEF Prepare, Reject, StartStages, CreateTemp, StagedAll
<1>7. CASE CreateTempFail \/ StageFail
  BY <1>7 DEF CreateTempFail, StageFail, UploadFails
<1>8. CASE PutOk
  BY <1>8 DEF PutOk, Body
<1>9. CASE PutFail
  BY <1>9 DEF PutFail, UploadFails, Body
<1>10. CASE Collect
  BY <1>10 DEF Collect
<1>11. CASE Return
  BY <1>11 DEF Return
<1>12. CASE UNCHANGED vars
  BY <1>12 DEF vars
<1> QED
  BY <1>1, <1>2, <1>3, <1>4, <1>5, <1>6, <1>7, <1>8, <1>9, <1>10, <1>11, <1>12
       DEF Next, MainNext

\* A stage fails only on an error of a neighbour, or on a fault of its own.
LEMMA BlameStep ==
  ASSUME TypeOK, Blame, [Next]_vars
  PROVE  Blame'
<1> USE DEF TypeOK, Blame, Stages, Ended,
            flowVars, mainVars, hookVars, kindVars, ctxVars
<1>1. CASE HookNext
  BY <1>1, HookFrame
<1>2. CASE DumpNext
  BY <1>2 DEF DumpNext, DumpWrite, DumpOk, DumpFail
<1>3. CASE SmokePass
  BY <1>3 DEF SmokePass
<1>4. CASE SmokeFail
  BY <1>4 DEF SmokeFail, StageFails
<1>5. CASE CompReadEnd
  BY <1>5 DEF CompReadEnd
<1>6. CASE CompWrite
  BY <1>6 DEF CompWrite
<1>7. CASE CompEndFrame
  BY <1>7 DEF CompEndFrame
<1>8. CASE CompOk
  BY <1>8 DEF CompOk
<1>9. CASE CompFail
  BY <1>9 DEF CompFail, StageFails
<1>10. CASE EncNext
  BY <1>10 DEF EncNext, EncWrite, EncMark, EncOk, EncFail, StageFails
<1>11. CASE EnvNext
  BY <1>11 DEF EnvNext, ToolFail, NonceFail, DiskFail, ContextDone,
       HookHangs, CallHangs, DumpHangs, StageFails, UploadFails
<1>12. CASE Prepare \/ Reject \/ StartStages \/ CreateTemp \/ StagedAll \/
     PutOk \/ Return
  BY <1>12 DEF Prepare, Reject, StartStages, CreateTemp, StagedAll, PutOk,
       Return
<1>13. CASE CreateTempFail \/ StageFail \/ PutFail
  BY <1>13 DEF CreateTempFail, StageFail, PutFail, UploadFails
<1>14. CASE Collect
  BY <1>14 DEF Collect
<1>15. CASE UNCHANGED vars
  BY <1>15 DEF vars
<1> QED
  BY <1>1, <1>2, <1>3, <1>4, <1>5, <1>6, <1>7, <1>8, <1>9, <1>10, <1>11,
       <1>12, <1>13, <1>14, <1>15 DEF Next, CompNext, MainNext

\* Every step keeps the types.
LEMMA TypeStep ==
  ASSUME TypeOK, Flow, [Next]_vars
  PROVE  TypeOK'
<1> USE DEF TypeOK, Flow, Stages, Ended, Least,
            flowVars, mainVars, hookVars, kindVars, ctxVars
<1>1. ASSUME NEW shell \in 0 .. HookTimeoutMax,
            NEW held \in 0 .. HookHold, PreHookFail(shell, held)
     PROVE  TypeOK'
  BY <1>1, PipelineAssumption DEF PreHookFail, HookRun
<1>2. ASSUME NEW shell \in 0 .. HookTimeoutMax,
            NEW held \in 0 .. HookHold, PreHookOk(shell, held)
     PROVE  TypeOK'
  BY <1>2, PipelineAssumption DEF PreHookOk, HookRun
<1>3. ASSUME NEW shell \in 0 .. HookTimeoutMax,
            NEW held \in 0 .. HookHold, NEW ok \in BOOLEAN, PostHook(shell, held, ok)
     PROVE  TypeOK'
  BY <1>3, PipelineAssumption DEF PostHook, HookRun
<1>4. CASE DumpNext
  BY <1>4, PipelineAssumption DEF DumpNext, DumpWrite, DumpOk, DumpFail
<1>5. CASE SmokePass
  BY <1>5, PipelineAssumption DEF SmokePass
<1>6. CASE SmokeFail
  BY <1>6, PipelineAssumption DEF SmokeFail, StageFails
<1>7. CASE CompReadEnd
  BY <1>7, PipelineAssumption DEF CompReadEnd
<1>8. CASE CompWrite
  BY <1>8, PipelineAssumption DEF CompWrite
<1>9. CASE CompEndFrame
  BY <1>9, PipelineAssumption DEF CompEndFrame
<1>10. CASE CompOk
  BY <1>10, PipelineAssumption DEF CompOk
<1>11. CASE CompFail
  BY <1>11, PipelineAssumption DEF CompFail, StageFails
<1>12. CASE EncWrite
  <2>1. CASE got["main"] < got["enc"]
    <3>1. got' = [got EXCEPT !["main"] = @ + 1] /\ UNCHANGED fin
      BY <1>12, <2>1 DEF EncWrite
    <3> QED
      BY <1>12, <2>1, <3>1, PipelineAssumption DEF EncWrite
  <2>2. CASE ~(got["main"] < got["enc"])
    <3>1. fin' = [fin EXCEPT !["main"] = TRUE] /\ UNCHANGED got
      BY <1>12, <2>2 DEF EncWrite
    <3> QED
      BY <1>12, <3>1, PipelineAssumption DEF EncWrite
  <2> QED
    BY <2>1, <2>2
<1>13. CASE EncMark
  BY <1>13, PipelineAssumption DEF EncMark
<1>14. CASE EncOk
  BY <1>14, PipelineAssumption DEF EncOk
<1>15. CASE EncFail
  BY <1>15, PipelineAssumption DEF EncFail, StageFails
<1>16. CASE Prepare
  BY <1>16, PipelineAssumption DEF Prepare
<1>17. CASE Reject
  BY <1>17, PipelineAssumption DEF Reject
<1>18. CASE StartStages
  BY <1>18, PipelineAssumption DEF StartStages
<1>19. CASE CreateTemp
  BY <1>19, PipelineAssumption DEF CreateTemp
<1>20. CASE CreateTempFail
  BY <1>20, PipelineAssumption DEF CreateTempFail, UploadFails
<1>21. CASE StagedAll
  BY <1>21, PipelineAssumption DEF StagedAll
<1>22. CASE StageFail
  BY <1>22, PipelineAssumption DEF StageFail, UploadFails
<1>23. CASE PutOk
  BY <1>23, PipelineAssumption DEF PutOk, Body
<1>24. CASE PutFail
  BY <1>24, PipelineAssumption DEF PutFail, UploadFails, Body
<1>25. CASE Collect
  BY <1>25, PipelineAssumption DEF Collect
<1>26. CASE Return
  BY <1>26, PipelineAssumption DEF Return
<1>27. CASE ToolFail
  BY <1>27, PipelineAssumption DEF ToolFail
<1>28. CASE NonceFail
  BY <1>28, PipelineAssumption DEF NonceFail, StageFails
<1>29. CASE DiskFail
  BY <1>29, PipelineAssumption DEF DiskFail, UploadFails
<1>30. CASE ContextDone \/ HookHangs \/ CallHangs \/ DumpHangs
  <2>1. CASE ContextDone
    BY <2>1 DEF ContextDone
  <2>2. CASE HookHangs
    BY <2>2 DEF HookHangs
  <2>3. CASE CallHangs
    BY <2>3 DEF CallHangs
  <2>4. CASE DumpHangs
    BY <2>4 DEF DumpHangs
  <2> QED
    BY <1>30, <2>1, <2>2, <2>3, <2>4
<1>31. CASE UNCHANGED vars
  BY <1>31 DEF vars
<1> QED
  BY <1>1, <1>2, <1>3, <1>4, <1>5, <1>6, <1>7, <1>8, <1>9, <1>10, <1>11,
       <1>12, <1>13, <1>14, <1>15, <1>16, <1>17, <1>18, <1>19, <1>20, <1>21,
            <1>22, <1>23, <1>24, <1>25, <1>26, <1>27, <1>28, <1>29, <1>30,
                 <1>31 DEF Next, HookNext, CompNext, EncNext, MainNext, EnvNext

-----------------------------------------------------------------------------
(***************************************************************************)
(* The theorems.                                                           *)
(***************************************************************************)
LEMMA InitIInv == Init => IInv
<1> SUFFICES ASSUME Init PROVE IInv
  OBVIOUS
<1> USE DEF Init, Stages
<1>1. TypeOK
  <2>1. got \in [{"comp", "enc", "main"} -> 0 .. Chunks]
    BY PipelineAssumption
  <2>2. fin \in [{"enc", "main"} -> BOOLEAN]
    BY Zenon
  <2>3. /\ stage \in [Stages -> StageStates]
        /\ wend \in [Stages -> {"open", "eof", "err"}]
        /\ rend \in [Stages -> {"open", "err"}]
    BY DEF StageStates
  <2>4. {ctxDone, encrypted, checked, mark, uploadErr, staged, preOk, fault}
          \subseteq BOOLEAN
    OBVIOUS
  <2>5. /\ hook \in Nat /\ consumed \in Nat
        /\ hung \in {"no", "killable", "unkillable"}
    OBVIOUS
  <2>6. StageStates = {"off", "run", "smoke", "copy", "end", "abort"} \cup Ended
    BY DEF StageStates, Ended
  <2> QED
    BY <2>1, <2>2, <2>3, <2>4, <2>5, <2>6, Zenon DEF TypeOK
<1>2. Control /\ HookCount
  BY DEF Control, HookCount
<1>3. Flow /\ Stored
  BY DEF Flow, Stored
<1>4. Blame
  BY DEF Blame
<1> QED
  BY <1>1, <1>2, <1>3, <1>4 DEF IInv

\* The invariant behind the theorems of this module, for every behaviour of
\* Runner.Run.
THEOREM IInvHolds == Spec => []IInv
<1>1. IInv /\ [Next]_vars => IInv'
  BY ControlStep, HookStep, FlowStep, StoredStep, BlameStep, TypeStep DEF IInv
<1> QED
  BY InitIInv, <1>1, PTL DEF Spec

\* Every variable of Runner.Run keeps its type: no stage counts more chunks
\* than the dump has.
THEOREM TypeCorrect == Spec => []TypeOK
<1>1. IInv => TypeOK
  BY DEF IInv
<1> QED
  BY <1>1, IInvHolds, PTL

\* Whichever stage of Runner.Run fails when, the bucket holds no truncated
\* backup, and a completed run has stored the whole dump.
THEOREM BackupsAreWhole == Spec => []OnlyWholeBackups
<1>1. IInv => OnlyWholeBackups
  BY DEF IInv, Stored, OnlyWholeBackups
<1> QED
  BY <1>1, IInvHolds, PTL

\* Runner.Run never goes on to its post-hooks, or returns, with a goroutine
\* still running or its temp file left.
THEOREM NothingIsLeftBehind == Spec => []NothingOutlivesRun
<1>1. IInv => NothingOutlivesRun
  BY DEF IInv, TypeOK, Control, NothingOutlivesRun, Stages
<1> QED
  BY <1>1, IInvHolds, PTL

\* Runner.Run fails only when something outside it has failed: the stages'
\* tearing each other down never starts by itself.
THEOREM FailuresHaveACause == Spec => []NoSpuriousFailure
<1>1. IInv => NoSpuriousFailure
  BY DEF IInv, TypeOK, Blame, NoSpuriousFailure
<1> QED
  BY <1>1, IInvHolds, PTL

\* A run whose pre-hooks went through returns only after all its post-hooks
\* were tried, cancelled or not.
THEOREM PostHooksAreTried == Spec => []PostHooksAfterDump
<1>1. IInv => PostHooksAfterDump
  BY DEF IInv, HookCount, PostHooksAfterDump
<1> QED
  BY <1>1, IInvHolds, PTL

=============================================================================
