------------------------------ MODULE Pipeline ------------------------------
(***************************************************************************)
(* One call of pipeline.Runner.Run: the checks before the dump, the pre-   *)
(* and post-hooks under one HookSet, the dump, zstd and encrypt goroutines *)
(* joined by io.Pipe, and the main goroutine that stages the result in a   *)
(* temp file, uploads it and collects the four results.                    *)
(*                                                                         *)
(* A dump is a number of chunks; what a stage has received of a stream is  *)
(* how many chunks, whether the zstd end frame, and whether the encryption *)
(* end marker.  io.Pipe is synchronous, so writing to a pipe and reading   *)
(* from it are one step.  Pipes are named after the stage that writes.     *)
(***************************************************************************)
EXTENDS Naturals

CONSTANTS
  Chunks,             \* chunks of a whole dump
  PreHooks,           \* number of the job's pre-hooks
  PostHooks,          \* number of its post-hooks
  HooksMaxCount,      \* hooks of each kind that are run (16)
  HooksTotalBudget,   \* time all hooks of a run may take together (30 min)
  HookTimeoutMax,     \* time one hook's shell may take (15 min)
  HookHold            \* bound: time a descendant of a hook that does end
                      \* keeps the hook's output open after the shell

ASSUME PipelineAssumption ==
  /\ {Chunks, PreHooks, PostHooks, HooksMaxCount, HookHold} \subseteq Nat
  /\ {HooksTotalBudget, HookTimeoutMax} \subseteq Nat \ {0}

VARIABLES
  pc,         \* where Run stands
  result,     \* what it returns: "none" yet, "completed" or "failed"
  ctxDone,    \* its context is done: cancelled, or the job's timeout
  hung,       \* what Run waits for will not end by itself: "killable" if the
              \* end of the context ends it, "unkillable" if not even that
  encrypted,  \* the request carries a DEK
  checked,    \* the driver's output has a magic that is smoke-checked
  stage,      \* state of the dump, comp (zstd) and enc goroutines
  wend,       \* write end of each pipe: "open", closed with "eof" or "err"
  rend,       \* read end: "open" or closed with "err"
  got,        \* chunks received by comp, enc and main
  fin,        \* whether enc and main have received the zstd end frame
  mark,       \* whether main has received the encryption end marker
  uploadErr,  \* the fourth result is an error
  staged,     \* the temp file exists
  object,     \* what the bucket holds under the run's key
  hook,       \* hooks tried so far of the list under way
  consumed,   \* HookSet.consumed
  preOk,      \* history: the pre-hooks are over, without failure
  fault       \* history: something outside Run has failed

flowVars == <<stage, wend, rend, got, fin, mark>>
mainVars == <<pc, result, uploadErr, staged, object>>
hookVars == <<hook, consumed, preOk>>
ctxVars  == <<ctxDone, hung>>
kindVars == <<encrypted, checked>>
vars     == <<flowVars, mainVars, hookVars, kindVars, ctxVars, fault>>

Stages  == {"dump", "comp", "enc"}
Ended   == {"ok", "err"}
Least(a, b) == IF a < b THEN a ELSE b

-----------------------------------------------------------------------------
(***************************************************************************)
(* What Run waits for and cannot end itself: the commands of Validate, the *)
(* hooks, the dump tool and the PUT, which has no timeout of its own.      *)
(***************************************************************************)
\* It ends by itself, or with the context.
Ends == hung = "no" \/ (hung = "killable" /\ ctxDone)

-----------------------------------------------------------------------------
(***************************************************************************)
(* Hooks.  A hook's shell ends by itself or is killed when its time is up, *)
(* but exec waits for the end of the output too, and a descendant may keep *)
(* that open: for a while, or for ever (HookHangs).  Time is counted in    *)
(* units.                                                                  *)
(***************************************************************************)
\* The timeout a hook gets: HookSet.Run turns the 0 of its callers into what
\* is left of the budget, which RunHook caps.
HookTimeout == Least(HooksTotalBudget - consumed, HookTimeoutMax)

\* HookSet.Run: refused when the budget is used up, else the shell takes time
\* and its output is held open for some more, all of which is charged.
HookRun(shell, held, ok) ==
  /\ hung = "no"
  /\ IF consumed >= HooksTotalBudget
     THEN shell = 0 /\ held = 0 /\ ~ok
     ELSE shell <= HookTimeout /\ (ok => shell < HookTimeout)
  /\ consumed' = consumed + shell + held

\* A pre-hook fails: Run returns on the spot.
PreHookFail(shell, held) ==
  /\ pc = "pre"
  /\ hook < Least(PreHooks, HooksMaxCount)
  /\ HookRun(shell, held, FALSE)
  /\ hook' = hook + 1
  /\ fault' = TRUE
  /\ pc' = "returned" /\ result' = "failed"
  /\ UNCHANGED <<flowVars, uploadErr, staged, object, preOk, kindVars, ctxVars>>

PreHookOk(shell, held) ==
  /\ pc = "pre"
  /\ hook < Least(PreHooks, HooksMaxCount)
  /\ ~ctxDone
  /\ HookRun(shell, held, TRUE)
  /\ hook' = hook + 1
  /\ UNCHANGED <<flowVars, mainVars, preOk, kindVars, ctxVars, fault>>

\* The pre-hooks are over; from here on the post-hooks are deferred, and the
\* three goroutines start.
StartStages ==
  /\ pc = "pre"
  /\ hook = Least(PreHooks, HooksMaxCount)
  /\ pc' = "create"
  /\ preOk' = TRUE
  /\ hook' = 0
  /\ stage' = [dump |-> "run", comp |-> "smoke", enc |-> "copy"]
  /\ UNCHANGED <<wend, rend, got, fin, mark, result, uploadErr, staged, object,
                 consumed, kindVars, ctxVars, fault>>

\* The deferred loop over the post-hooks, with a context of its own: an error
\* is logged and the next hook is tried.
PostHook(shell, held, ok) ==
  /\ pc = "post"
  /\ hook < Least(PostHooks, HooksMaxCount)
  /\ HookRun(shell, held, ok)
  /\ hook' = hook + 1
  /\ UNCHANGED <<flowVars, mainVars, preOk, kindVars, ctxVars, fault>>

\* A descendant of the hook holds its output for ever: neither the timeout nor
\* the budget ends the wait.
HookHangs ==
  /\ hung = "no"
  /\ consumed < HooksTotalBudget
  /\ \/ pc = "pre" /\ ~ctxDone /\ hook < Least(PreHooks, HooksMaxCount)
     \/ pc = "post" /\ hook < Least(PostHooks, HooksMaxCount)
  /\ hung' = "unkillable"
  /\ UNCHANGED <<flowVars, mainVars, hookVars, kindVars, ctxDone, fault>>

\* Mutant: the post-hooks run under the run's own context.
ReturnIfCancelled ==
  /\ pc = "post"
  /\ ctxDone \/ hook = Least(PostHooks, HooksMaxCount)
  /\ pc' = "returned"
  /\ UNCHANGED <<flowVars, result, uploadErr, staged, object, hookVars,
                 kindVars, ctxVars, fault>>

Return ==
  /\ pc = "post"
  /\ hook = Least(PostHooks, HooksMaxCount)
  /\ pc' = "returned"
  /\ UNCHANGED <<flowVars, result, uploadErr, staged, object, hookVars,
                 kindVars, ctxVars, fault>>

-----------------------------------------------------------------------------
(***************************************************************************)
(* Before the hooks: credentials, resolve, driver, DEK, Validate.          *)
(***************************************************************************)
Prepare ==
  /\ pc = "start" /\ hung = "no"
  /\ pc' = "pre"
  /\ UNCHANGED <<flowVars, result, uploadErr, staged, object, hookVars,
                 kindVars, ctxVars, fault>>

Reject ==
  /\ pc = "start" /\ Ends
  /\ pc' = "returned" /\ result' = "failed"
  /\ fault' = TRUE /\ hung' = "no"
  /\ UNCHANGED <<flowVars, uploadErr, staged, object, hookVars, kindVars,
                 ctxDone>>

\* A probe of Validate, or later the PUT, does not answer.
CallHangs ==
  /\ pc \in {"start", "put"} /\ hung = "no"
  /\ hung' = "killable"
  /\ UNCHANGED <<flowVars, mainVars, hookVars, kindVars, ctxDone, fault>>

-----------------------------------------------------------------------------
(***************************************************************************)
(* Stage 1, the dump.                                                      *)
(***************************************************************************)
DumpWrite ==
  /\ stage["dump"] = "run" /\ hung = "no"
  /\ got["comp"] < Chunks
  /\ rend["dump"] = "open"
  /\ stage["comp"] \in {"smoke", "copy"}
  /\ got' = [got EXCEPT !["comp"] = @ + 1]
  /\ UNCHANGED <<stage, wend, rend, fin, mark, mainVars, hookVars, kindVars,
                 ctxVars, fault>>

\* Dump returns nil: the tool has exited with 0 after its last chunk.
DumpOk ==
  /\ stage["dump"] = "run" /\ hung = "no"
  /\ got["comp"] = Chunks
  /\ stage' = [stage EXCEPT !["dump"] = "ok"]
  /\ wend' = [wend EXCEPT !["dump"] = "eof"]
  /\ UNCHANGED <<rend, got, fin, mark, mainVars, hookVars, kindVars, ctxVars,
                 fault>>

\* Dump returns an error: its write fails, or the context kills the tool.
\* CloseWithError comes before the deferred Close.
DumpFail ==
  /\ stage["dump"] = "run" /\ Ends
  /\ rend["dump"] = "err" \/ ctxDone
  /\ stage' = [stage EXCEPT !["dump"] = "err"]
  /\ wend' = [wend EXCEPT !["dump"] = "err"]
  /\ hung' = "no"
  /\ UNCHANGED <<rend, got, fin, mark, mainVars, hookVars, kindVars, ctxDone,
                 fault>>

\* The tool neither writes nor exits.  The end of the context kills it, but
\* sqlite3, which is only sent SIGINT, may ignore that.
DumpHangs ==
  /\ stage["dump"] = "run" /\ hung = "no"
  /\ hung' \in {"killable", "unkillable"}
  /\ UNCHANGED <<flowVars, mainVars, hookVars, kindVars, ctxDone, fault>>

\* Mutant: the pipe is closed without the error.
ToolFailClosesCleanly ==
  /\ stage["dump"] = "run" /\ hung = "no"
  /\ stage' = [stage EXCEPT !["dump"] = "err"]
  /\ wend' = [wend EXCEPT !["dump"] = "eof"]
  /\ fault' = TRUE
  /\ UNCHANGED <<rend, got, fin, mark, mainVars, hookVars, kindVars, ctxVars>>

\* The tool exits with an error, possibly after its last chunk.
ToolFail ==
  /\ stage["dump"] = "run" /\ hung = "no"
  /\ stage' = [stage EXCEPT !["dump"] = "err"]
  /\ wend' = [wend EXCEPT !["dump"] = "err"]
  /\ fault' = TRUE
  /\ UNCHANGED <<rend, got, fin, mark, mainVars, hookVars, kindVars, ctxVars>>

-----------------------------------------------------------------------------
(***************************************************************************)
(* Stage 2, smoke check and zstd.  A read from a pipe whose read end is    *)
(* closed is an error, even after the writer's eof.                        *)
(***************************************************************************)
\* A stage fails: its pipe and the one it reads from are closed with the
\* error.
StageFails(s, upstream) ==
  /\ stage' = [stage EXCEPT ![s] = "err"]
  /\ wend' = [wend EXCEPT ![s] = IF @ = "open" THEN "err" ELSE @]
  /\ rend' = [rend EXCEPT ![upstream] = "err"]

SmokePass ==
  /\ stage["comp"] = "smoke"
  /\ checked => got["comp"] > 0
  /\ stage' = [stage EXCEPT !["comp"] = "copy"]
  /\ UNCHANGED <<wend, rend, got, fin, mark, mainVars, hookVars, kindVars,
                 ctxVars, fault>>

\* The first bytes are not the magic, or there are none.
SmokeFail ==
  /\ stage["comp"] = "smoke"
  /\ checked
  /\ got["comp"] > 0 \/ wend["dump"] # "open" \/ rend["dump"] = "err"
  /\ StageFails("comp", "dump")
  /\ fault' = (fault \/ (rend["dump"] = "open" /\ wend["dump"] # "err"))
  /\ UNCHANGED <<got, fin, mark, mainVars, hookVars, kindVars, ctxVars>>

\* io.Copy ends at eof and the encoder is closed; or a read fails, and the
\* encoder is closed all the same.
CompReadEnd ==
  /\ stage["comp"] = "copy"
  /\ \/ /\ wend["dump"] = "eof" /\ rend["dump"] = "open"
        /\ stage' = [stage EXCEPT !["comp"] = "end"]
     \/ /\ wend["dump"] = "err" \/ rend["dump"] = "err"
        /\ stage' = [stage EXCEPT !["comp"] = "abort"]
  /\ UNCHANGED <<wend, rend, got, fin, mark, mainVars, hookVars, kindVars,
                 ctxVars, fault>>

\* Mutant: a chunk that was already emitted is emitted again.
CompWriteRepeats ==
  /\ stage["comp"] \in {"copy", "end", "abort"}
  /\ got["enc"] <= got["comp"]
  /\ rend["comp"] = "open" /\ stage["enc"] = "copy"
  /\ got' = [got EXCEPT !["enc"] = @ + 1]
  /\ UNCHANGED <<stage, wend, rend, fin, mark, mainVars, hookVars, kindVars,
                 ctxVars, fault>>

\* The encoder emits a chunk, sooner or later after it has read it.
CompWrite ==
  /\ stage["comp"] \in {"copy", "end", "abort"}
  /\ got["enc"] < got["comp"]
  /\ rend["comp"] = "open" /\ stage["enc"] = "copy"
  /\ got' = [got EXCEPT !["enc"] = @ + 1]
  /\ UNCHANGED <<stage, wend, rend, fin, mark, mainVars, hookVars, kindVars,
                 ctxVars, fault>>

\* Close emits the end frame.  In an aborted copy it makes a truncated stream
\* look finished, before the error closes the pipe.
CompEndFrame ==
  /\ stage["comp"] \in {"end", "abort"}
  /\ got["enc"] = got["comp"] /\ ~fin["enc"]
  /\ rend["comp"] = "open" /\ stage["enc"] = "copy"
  /\ fin' = [fin EXCEPT !["enc"] = TRUE]
  /\ UNCHANGED <<stage, wend, rend, got, mark, mainVars, hookVars, kindVars,
                 ctxVars, fault>>

CompOk ==
  /\ stage["comp"] = "end"
  /\ fin["enc"]
  /\ stage' = [stage EXCEPT !["comp"] = "ok"]
  /\ wend' = [wend EXCEPT !["comp"] = "eof"]
  /\ UNCHANGED <<rend, got, fin, mark, mainVars, hookVars, kindVars, ctxVars,
                 fault>>

\* The aborted copy returns its error, with or without a flush (the encoder
\* decides), or a write fails because enc or main closed the pipe.
CompFail ==
  /\ \/ stage["comp"] = "abort"
     \/ /\ rend["comp"] = "err"
        /\ \/ stage["comp"] = "copy" /\ got["enc"] < got["comp"]
           \/ stage["comp"] = "end" /\ ~fin["enc"]
  /\ StageFails("comp", "dump")
  /\ UNCHANGED <<got, fin, mark, mainVars, hookVars, kindVars, ctxVars, fault>>

-----------------------------------------------------------------------------
(***************************************************************************)
(* Stage 3, Encryptor.Stream, or io.Copy without a DEK.                    *)
(***************************************************************************)
EncWrite ==
  /\ stage["enc"] = "copy"
  /\ rend["enc"] = "open" /\ pc = "stage"
  /\ \/ /\ got["main"] < got["enc"]
        /\ got' = [got EXCEPT !["main"] = @ + 1]
        /\ UNCHANGED fin
     \/ /\ got["main"] = got["enc"] /\ fin["enc"] /\ ~fin["main"]
        /\ fin' = [fin EXCEPT !["main"] = TRUE]
        /\ UNCHANGED got
  /\ UNCHANGED <<stage, wend, rend, mark, mainVars, hookVars, kindVars, ctxVars,
                 fault>>

\* Everything read has been written, and nothing is left to read.
EncDrained ==
  /\ wend["comp"] = "eof" /\ rend["comp"] = "open"
  /\ got["main"] = got["enc"] /\ fin["main"] = fin["enc"]

\* The end marker, only after a clean eof.
EncMark ==
  /\ encrypted
  /\ stage["enc"] = "copy"
  /\ EncDrained /\ ~mark
  /\ rend["enc"] = "open" /\ pc = "stage"
  /\ mark' = TRUE
  /\ UNCHANGED <<stage, wend, rend, got, fin, mainVars, hookVars, kindVars,
                 ctxVars, fault>>

\* Mutant: without a DEK the copy loop reports the eof it ends with.
EncOkReportsEof ==
  /\ stage["enc"] = "copy"
  /\ EncDrained
  /\ encrypted => mark
  /\ stage' = [stage EXCEPT !["enc"] = IF encrypted THEN "ok" ELSE "err"]
  /\ wend' = [wend EXCEPT !["enc"] = "eof"]
  /\ UNCHANGED <<rend, got, fin, mark, mainVars, hookVars, kindVars, ctxVars,
                 fault>>

EncOk ==
  /\ stage["enc"] = "copy"
  /\ EncDrained
  /\ encrypted => mark
  /\ stage' = [stage EXCEPT !["enc"] = "ok"]
  /\ wend' = [wend EXCEPT !["enc"] = "eof"]
  /\ UNCHANGED <<rend, got, fin, mark, mainVars, hookVars, kindVars, ctxVars,
                 fault>>

\* Something is left to write.
EncPending ==
  \/ got["main"] < got["enc"]
  \/ fin["enc"] /\ ~fin["main"]
  \/ EncDrained /\ encrypted /\ ~mark

\* A read fails, or a write does because main has closed the pipe.
EncFail ==
  /\ stage["enc"] = "copy"
  /\ \/ wend["comp"] = "err" \/ rend["comp"] = "err"
     \/ rend["enc"] = "err" /\ EncPending
  /\ StageFails("enc", "comp")
  /\ UNCHANGED <<got, fin, mark, mainVars, hookVars, kindVars, ctxVars, fault>>

\* No nonce can be had for a chunk.
NonceFail ==
  /\ stage["enc"] = "copy"
  /\ encrypted /\ EncPending
  /\ StageFails("enc", "comp")
  /\ fault' = TRUE
  /\ UNCHANGED <<got, fin, mark, mainVars, hookVars, kindVars, ctxVars>>

-----------------------------------------------------------------------------
(***************************************************************************)
(* Stage 4, in Run's own goroutine: temp file, PUT, results.               *)
(***************************************************************************)
\* Mutant: the pipes stay open.
UploadFailsPipesOpen ==
  /\ uploadErr' = TRUE
  /\ pc' = "collect"
  /\ UNCHANGED rend

\* uploadErr is set: all read ends are closed, so that no stage stays blocked.
UploadFails ==
  /\ uploadErr' = TRUE
  /\ rend' = [p \in Stages |-> "err"]
  /\ pc' = "collect"

CreateTemp ==
  /\ pc = "create"
  /\ pc' = "stage"
  /\ staged' = TRUE
  /\ UNCHANGED <<flowVars, result, uploadErr, object, hookVars, kindVars,
                 ctxVars, fault>>

CreateTempFail ==
  /\ pc = "create"
  /\ UploadFails
  /\ fault' = TRUE
  /\ UNCHANGED <<stage, wend, got, fin, mark, result, staged, object, hookVars,
                 kindVars, ctxVars>>

\* io.Copy into the temp file has met eof; the file is closed and reopened.
StagedAll ==
  /\ pc = "stage"
  /\ wend["enc"] = "eof"
  /\ pc' = "put"
  /\ UNCHANGED <<flowVars, result, uploadErr, staged, object, hookVars,
                 kindVars, ctxVars, fault>>

\* The encrypted pipe ends in an error: no PUT is made.
StageFail ==
  /\ pc = "stage"
  /\ wend["enc"] = "err"
  /\ UploadFails
  /\ UNCHANGED <<stage, wend, got, fin, mark, result, staged, object, hookVars,
                 kindVars, ctxVars, fault>>

\* The temp file cannot be written, closed or reopened.
DiskFail ==
  /\ pc = "stage"
  /\ UploadFails
  /\ fault' = TRUE
  /\ UNCHANGED <<stage, wend, got, fin, mark, result, staged, object, hookVars,
                 kindVars, ctxVars>>

\* What the staged file amounts to.
Body ==
  IF got["main"] = Chunks /\ fin["main"] /\ mark = encrypted THEN "whole"
                                                             ELSE "partial"

PutOk ==
  /\ pc = "put" /\ hung = "no"
  /\ ~ctxDone
  /\ object' = Body
  /\ pc' = "collect"
  /\ UNCHANGED <<flowVars, result, uploadErr, staged, hookVars, kindVars,
                 ctxVars, fault>>

\* An error or a non-2xx status; the object may have been stored all the same.
PutFail ==
  /\ pc = "put" /\ Ends
  /\ object' \in {object, Body}
  /\ UploadFails
  /\ fault' = TRUE /\ hung' = "no"
  /\ UNCHANGED <<stage, wend, got, fin, mark, result, staged, hookVars,
                 kindVars, ctxDone>>

\* Mutant: Run returns with the first error, without waiting for the others.
CollectFirstError ==
  /\ pc = "collect"
  /\ uploadErr \/ \A s \in Stages : stage[s] \in Ended
  /\ result' = IF ~uploadErr /\ (\A s \in Stages : stage[s] = "ok")
               THEN "completed" ELSE "failed"
  /\ staged' = FALSE
  /\ pc' = "post"
  /\ UNCHANGED <<flowVars, uploadErr, object, hookVars, kindVars, ctxVars,
                 fault>>

\* The four results are in; the deferred Remove deletes the temp file.
Collect ==
  /\ pc = "collect"
  /\ \A s \in Stages : stage[s] \in Ended
  /\ result' = IF ~uploadErr /\ (\A s \in Stages : stage[s] = "ok")
               THEN "completed" ELSE "failed"
  /\ staged' = FALSE
  /\ pc' = "post"
  /\ UNCHANGED <<flowVars, uploadErr, object, hookVars, kindVars, ctxVars,
                 fault>>

\* The connection is lost, the agent stops, or the job's timeout expires.
ContextDone ==
  /\ ~ctxDone
  /\ pc # "returned"
  /\ ctxDone' = TRUE
  /\ fault' = TRUE
  /\ UNCHANGED <<flowVars, mainVars, hookVars, kindVars, hung>>

-----------------------------------------------------------------------------
Init ==
  /\ pc = "start" /\ result = "none"
  /\ ctxDone = FALSE /\ hung = "no"
  /\ encrypted \in BOOLEAN /\ checked \in BOOLEAN
  /\ stage = [s \in Stages |-> "off"]
  /\ wend = [p \in Stages |-> "open"]
  /\ rend = [p \in Stages |-> "open"]
  /\ got = [comp |-> 0, enc |-> 0, main |-> 0]
  /\ fin = [s \in {"enc", "main"} |-> FALSE]
  /\ mark = FALSE
  /\ uploadErr = FALSE /\ staged = FALSE /\ object = "none"
  /\ hook = 0 /\ consumed = 0
  /\ preOk = FALSE /\ fault = FALSE

HookNext ==
  \E shell \in 0 .. HookTimeoutMax, held \in 0 .. HookHold :
    \/ PreHookFail(shell, held) \/ PreHookOk(shell, held)
    \/ \E ok \in BOOLEAN : PostHook(shell, held, ok)

DumpNext == DumpWrite \/ DumpOk \/ DumpFail
CompNext ==
  SmokePass \/ SmokeFail \/ CompReadEnd \/ CompWrite \/ CompEndFrame \/ CompOk
    \/ CompFail
EncNext  == EncWrite \/ EncMark \/ EncOk \/ EncFail
MainNext ==
  \/ Prepare \/ Reject \/ StartStages \/ CreateTemp \/ CreateTempFail
  \/ StagedAll \/ StageFail \/ PutOk \/ PutFail \/ Collect \/ Return
EnvNext  ==
  ToolFail \/ NonceFail \/ DiskFail \/ ContextDone \/ HookHangs \/ CallHangs
    \/ DumpHangs

Next == HookNext \/ DumpNext \/ CompNext \/ EncNext \/ MainNext \/ EnvNext

(***************************************************************************)
(* Every goroutine goes on while it can, and what is not hung ends sooner  *)
(* or later.  No failure and no hang is assumed to happen.                 *)
(***************************************************************************)
Fairness ==
  /\ WF_vars(HookNext) /\ WF_vars(MainNext)
  /\ WF_vars(DumpNext) /\ WF_vars(CompNext) /\ WF_vars(EncNext)

Spec     == Init /\ [][Next]_vars
FairSpec == Spec /\ Fairness

-----------------------------------------------------------------------------
(***************************************************************************)
(* Properties.                                                             *)
(***************************************************************************)
\* The type invariant of the model's variables.
TypeOK ==
  /\ pc \in {"start", "pre", "create", "stage", "put", "collect", "post",
             "returned"}
  /\ result \in {"none", "completed", "failed"}
  /\ {ctxDone, encrypted, checked, mark, uploadErr, staged, preOk, fault}
       \subseteq BOOLEAN
  /\ stage \in [Stages -> {"off", "run", "smoke", "copy", "end", "abort"}
                            \cup Ended]
  /\ wend \in [Stages -> {"open", "eof", "err"}]
  /\ rend \in [Stages -> {"open", "err"}]
  /\ got \in [{"comp", "enc", "main"} -> 0 .. Chunks]
  /\ fin \in [{"enc", "main"} -> BOOLEAN]
  /\ object \in {"none", "whole", "partial"}
  /\ hook \in Nat /\ consumed \in Nat
  /\ hung \in {"no", "killable", "unkillable"}

\* The bucket never gets a truncated backup, whichever stage fails when, and
\* although an aborted zstd stream may look finished to the encryptor; and a
\* run is reported as completed only if the whole dump is in the bucket.
OnlyWholeBackups ==
  /\ object \in {"none", "whole"}
  /\ result = "completed" => object = "whole"

\* Run waits for its three goroutines and leaves no temp file: nothing of a
\* run is left behind when its post-hooks release what the pre-hooks took.
NothingOutlivesRun ==
  pc \in {"post", "returned"} =>
    /\ ~staged
    /\ \A s \in Stages : stage[s] \in Ended \cup {"off"}

\* The stages tear each other down only because of a failure: a run in which
\* nothing outside failed cannot fail, whatever the interleaving.
NoSpuriousFailure == result = "failed" => fault

\* Once the dump has started, every post-hook is tried, in a cancelled run as
\* well; a hook can only be refused because the budget is used up.
PostHooksAfterDump ==
  pc = "returned" /\ preOk => hook = Least(PostHooks, HooksMaxCount)

\* No combination of failures leaves a stage blocked on a pipe for ever: Run
\* returns, unless a program or the PUT hangs in a run that nobody cancels, or
\* something hangs that the end of the context does not end: a hook whose
\* descendant holds its output, or a sqlite3 that ignores SIGINT.
RunReturns ==
  \/ <>(pc = "returned")
  \/ <>[](hung = "killable" /\ ~ctxDone)
  \/ <>[](hung = "unkillable")

=============================================================================
