-------------------------------- MODULE Exec --------------------------------
(***************************************************************************)
(* One program run through os/exec with a context: a dump tool             *)
(* (realRunner.RunStream), sqlite3's .backup (streamWithCancel) or a hook  *)
(* (RunHook).  exec.Cmd is a goroutine that copies the program's output    *)
(* from an OS pipe to a writer, a goroutine that signals the program when  *)
(* the context is done, and Wait, which needs the end of both the program  *)
(* and the copy.  None of the three callers sets WaitDelay.                *)
(*                                                                         *)
(* A program has Work units of work.  A tool writes a chunk of its archive *)
(* per unit, .backup fills a file and a hook does what it does; these two  *)
(* print up to Burst bytes per unit, which are numbered as they come.      *)
(***************************************************************************)
EXTENDS Integers, Sequences

CONSTANTS
  Work,    \* units of work, and chunks of a whole archive
  Burst,   \* room of the OS pipe, in chunks or bytes
  Cap      \* bytes a ring buffer keeps

ASSUME ExecAssumption == {Work, Burst, Cap} \subseteq Nat \ {0}

VARIABLES
  cmd,        \* what runs or ran last: "none", "tool", "backup" or "hook"
  proc,       \* the program: "none", "running", "zombie" or "reaped"
  status,     \* its exit status, 0 or 1 (a signal counts as 1)
  todo,       \* units of work it has left
  orphan,     \* a descendant that outlives it holds the output pipe
  pipe,       \* what the OS pipe holds
  copier,     \* the copying goroutine: "copying", "eof" or "failed"
  taken,      \* bytes it has written to the ring buffer
  ring,       \* that buffer
  signalled,  \* the context has signalled the program
  ctx,        \* the caller's context: "live" or "cancelled"
  cause,      \* why the command's context is done: "none", "cancelled",
              \* or "deadline" of a hook
  run,        \* cmd.Run's result: "none" yet, "nil", "start", "exit", "ctx"
              \* or "copy"
  filled,     \* chunks of the snapshot in .backup's file
  dumped,     \* chunks of the archive written to the pipeline
  broken      \* the pipeline's end of the dump is closed

procVars == <<cmd, proc, status, todo, orphan, signalled>>
copyVars == <<pipe, copier, taken, ring>>
dataVars == <<filled, dumped>>
execVars == <<procVars, copyVars, dataVars, ctx, cause, run, broken>>

Lesser(a, b) == IF a < b THEN a ELSE b
Last(s, n) == SubSeq(s, Len(s) - n + 1, Len(s))

-----------------------------------------------------------------------------
(***************************************************************************)
(* The buffers that keep the end of a program's output: hookRingBuffer, a  *)
(* slice that grows to its capacity and is then overwritten in a circle,   *)
(* and ringBuffer, which appends and cuts.                                 *)
(***************************************************************************)
EmptyRing == [buf |-> <<>>, pos |-> 0, full |-> FALSE]

\* hookRingBuffer.Write while there is room.
RingGrow(r, p) ==
  [buf |-> r.buf \o p,
   pos |-> (r.pos + Len(p)) % Cap,
   full |-> Len(r.buf) + Len(p) = Cap]

\* hookRingBuffer.Write over the oldest bytes, from pos on and around.
RingOverwrite(r, p) ==
  IF Len(p) >= Cap
  THEN [r EXCEPT !.buf = Last(p, Cap), !.pos = 0]
  ELSE [r EXCEPT
          !.buf = [i \in 1 .. Cap |->
                     LET k == (i - 1 - r.pos + Cap) % Cap
                     IN  IF k < Len(p) THEN p[k + 1] ELSE r.buf[i]],
          !.pos = (r.pos + Len(p)) % Cap]

\* Mutant: the position is left where it was when a write fills the slice up
\* and goes on from its start.
RingWriteKeepsPos(r, p) ==
  LET room == Cap - Len(r.buf)
  IN  IF r.full THEN RingOverwrite(r, p)
      ELSE IF Len(p) <= room THEN RingGrow(r, p)
      ELSE RingOverwrite([buf |-> r.buf \o SubSeq(p, 1, room),
                          pos |-> r.pos, full |-> TRUE],
                         SubSeq(p, room + 1, Len(p)))

RingWrite(r, p) ==
  LET room == Cap - Len(r.buf)
  IN  IF r.full THEN RingOverwrite(r, p)
      ELSE IF Len(p) <= room THEN RingGrow(r, p)
      ELSE RingOverwrite([buf |-> r.buf \o SubSeq(p, 1, room),
                          pos |-> 0, full |-> TRUE],
                         SubSeq(p, room + 1, Len(p)))

\* hookRingBuffer.String, oldest byte first.
RingString(r) ==
  IF r.full
  THEN SubSeq(r.buf, r.pos + 1, Cap) \o SubSeq(r.buf, 1, r.pos)
  ELSE r.buf

\* ringBuffer.Write.
TailWrite(b, p) ==
  LET s == b \o p IN IF Len(s) > Cap THEN Last(s, Cap) ELSE s

\* What the buffer holds after p, and what is read from it.
Buffer(p) ==
  IF cmd = "backup"
  THEN [ring EXCEPT !.buf = TailWrite(@, p)]
  ELSE RingWrite(ring, p)
Kept == IF cmd = "backup" THEN ring.buf ELSE RingString(ring)

-----------------------------------------------------------------------------
(***************************************************************************)
(* Starting the program.                                                   *)
(***************************************************************************)
\* cmd.Start; a hook's context is made for it.
Spawn(c) ==
  /\ ctx = "live"
  /\ cmd' = c /\ proc' = "running" /\ status' = 0 /\ todo' = Work
  /\ orphan' = FALSE /\ signalled' = FALSE
  /\ pipe' = 0 /\ copier' = "copying" /\ taken' = 0 /\ ring' = EmptyRing
  /\ cause' = "none" /\ run' = "none"
  /\ UNCHANGED <<dataVars, ctx, broken>>

\* The context is done already, or there is no such program.
SpawnFail(c) ==
  /\ cmd' = c /\ proc' = "none" /\ status' = 0 /\ todo' = 0
  /\ orphan' = FALSE /\ signalled' = FALSE
  /\ pipe' = 0 /\ copier' = "eof" /\ taken' = 0 /\ ring' = EmptyRing
  /\ cause' = IF ctx = "live" THEN "none" ELSE "cancelled"
  /\ run' = IF ctx = "live" THEN "start" ELSE "ctx"
  /\ UNCHANGED <<dataVars, ctx, broken>>

-----------------------------------------------------------------------------
(***************************************************************************)
(* The program, and what a hook leaves behind.                             *)
(***************************************************************************)
\* What one unit of work prints.
Printed == IF cmd = "tool" THEN {1} ELSE 0 .. Burst

\* A unit of work; a write waits for room in the pipe.
ProcWork ==
  /\ proc = "running" /\ todo > 0
  /\ copier # "failed"
  /\ \E n \in Printed : pipe + n <= Burst /\ pipe' = pipe + n
  /\ todo' = todo - 1
  /\ filled' = IF cmd = "backup" THEN filled + 1 ELSE filled
  /\ UNCHANGED <<cmd, proc, status, orphan, signalled, copier, taken, ring,
                 dumped, ctx, cause, run, broken>>

ProcEnd(s) ==
  /\ proc' = "zombie" /\ status' = s
  /\ UNCHANGED <<cmd, todo, orphan, signalled, copyVars, dataVars, ctx, cause,
                 run, broken>>

ProcDone == proc = "running" /\ todo = 0 /\ ProcEnd(0)

\* It fails, or is killed by a write to a pipe nobody reads.
ProcFail == proc = "running" /\ ProcEnd(1)

\* An interrupted sqlite3 may stop where it is and exit as if all were well.
ProcInterrupted == proc = "running" /\ signalled /\ ProcEnd(0)

\* A hook starts something in the background that inherits its output.
HookFork ==
  /\ cmd = "hook" /\ proc = "running" /\ ~orphan
  /\ orphan' = TRUE
  /\ UNCHANGED <<cmd, proc, status, todo, signalled, copyVars, dataVars, ctx,
                 cause, run, broken>>

OrphanEnd ==
  /\ orphan
  /\ orphan' = FALSE
  /\ UNCHANGED <<cmd, proc, status, todo, signalled, copyVars, dataVars, ctx,
                 cause, run, broken>>

-----------------------------------------------------------------------------
(***************************************************************************)
(* exec.Cmd's goroutines and Wait.                                         *)
(***************************************************************************)
\* The copy reads some of what is there and writes it on.
CopyTake ==
  /\ copier = "copying" /\ pipe > 0
  /\ IF cmd = "tool"
     THEN /\ ~broken
          /\ dumped' = dumped + 1 /\ pipe' = pipe - 1
          /\ UNCHANGED <<taken, ring>>
     ELSE \E n \in 1 .. pipe :
            /\ ring' = Buffer([i \in 1 .. n |-> taken + i])
            /\ taken' = taken + n /\ pipe' = pipe - n
            /\ UNCHANGED dumped
  /\ UNCHANGED <<procVars, copier, filled, ctx, cause, run, broken>>

\* A write to the closed pipeline fails and the read end is closed.
CopyFail ==
  /\ copier = "copying" /\ pipe > 0 /\ cmd = "tool" /\ broken
  /\ copier' = "failed"
  /\ UNCHANGED <<procVars, pipe, taken, ring, dataVars, ctx, cause, run, broken>>

\* The last write end of the pipe is closed.
CopyEof ==
  /\ copier = "copying" /\ pipe = 0
  /\ proc \in {"zombie", "reaped"} /\ ~orphan
  /\ copier' = "eof"
  /\ UNCHANGED <<procVars, pipe, taken, ring, dataVars, ctx, cause, run, broken>>

\* Mutant: every program is sent SIGINT, as sqlite3 is.
SignalInterrupts ==
  /\ cause # "none" /\ ~signalled
  /\ proc \in {"running", "zombie"}
  /\ signalled' = TRUE
  /\ UNCHANGED <<cmd, proc, status, todo, orphan, copyVars, dataVars, ctx, cause,
                 run, broken>>

\* The context is done while the program is there: SIGKILL ends it, sqlite3
\* gets SIGINT instead.  Descendants get neither.
Signal ==
  /\ cause # "none" /\ ~signalled
  /\ proc \in {"running", "zombie"}
  /\ signalled' = TRUE
  /\ IF proc = "running" /\ cmd # "backup"
     THEN proc' = "zombie" /\ status' = 1
     ELSE UNCHANGED <<proc, status>>
  /\ UNCHANGED <<cmd, todo, orphan, copyVars, dataVars, ctx, cause, run, broken>>

Reap ==
  /\ proc = "zombie"
  /\ proc' = "reaped"
  /\ UNCHANGED <<cmd, status, todo, orphan, signalled, copyVars, dataVars, ctx,
                 cause, run, broken>>

\* Mutant: what the context did is not looked at when the program exits with 0.
WaitIgnoresSignal ==
  /\ proc = "reaped" /\ run = "none"
  /\ copier \in {"eof", "failed"}
  /\ run' = IF status # 0 THEN "exit"
            ELSE IF copier = "failed" THEN "copy" ELSE "nil"
  /\ UNCHANGED <<procVars, copyVars, dataVars, ctx, cause, broken>>

\* cmd.Wait: a bad exit, then the context's error, then the copy's.
Wait ==
  /\ proc = "reaped" /\ run = "none"
  /\ copier \in {"eof", "failed"}
  /\ run' = IF status # 0 THEN "exit"
            ELSE IF signalled THEN "ctx"
            ELSE IF copier = "failed" THEN "copy" ELSE "nil"
  /\ UNCHANGED <<procVars, copyVars, dataVars, ctx, cause, broken>>

-----------------------------------------------------------------------------
(***************************************************************************)
(* The contexts.                                                           *)
(***************************************************************************)
\* The caller is cancelled; the command's context keeps its first cause.
Cancel ==
  /\ ctx = "live"
  /\ ctx' = "cancelled"
  /\ cause' = IF cause = "none" THEN "cancelled" ELSE cause
  /\ UNCHANGED <<procVars, copyVars, dataVars, run, broken>>

\* The timeout of a hook fires before RunHook returns.
HookExpire ==
  /\ cmd = "hook" /\ run = "none" /\ cause = "none"
  /\ cause' = "deadline"
  /\ UNCHANGED <<procVars, copyVars, dataVars, ctx, run, broken>>

\* A later stage of the pipeline fails and closes its end.
Break ==
  /\ ~broken
  /\ broken' = TRUE
  /\ UNCHANGED <<procVars, copyVars, dataVars, ctx, cause, run>>

ProcNext == ProcWork \/ ProcDone \/ ProcFail \/ ProcInterrupted
CmdNext  == CopyTake \/ CopyFail \/ CopyEof \/ Signal \/ Reap \/ Wait
ExecNext == ProcNext \/ HookFork \/ OrphanEnd \/ CmdNext \/ Cancel \/ HookExpire \/ Break

ExecInit ==
  /\ cmd = "none" /\ proc = "none" /\ status = 0 /\ todo = 0
  /\ orphan = FALSE /\ signalled = FALSE
  /\ pipe = 0 /\ copier = "eof" /\ taken = 0 /\ ring = EmptyRing
  /\ ctx = "live" /\ cause = "none" /\ run = "none"
  /\ filled = 0 /\ dumped = 0 /\ broken = FALSE

ExecTypeOK ==
  /\ cmd \in {"none", "tool", "backup", "hook"}
  /\ proc \in {"none", "running", "zombie", "reaped"}
  /\ status \in {0, 1} /\ todo \in 0 .. Work
  /\ orphan \in BOOLEAN /\ signalled \in BOOLEAN /\ broken \in BOOLEAN
  /\ pipe \in 0 .. Burst /\ copier \in {"copying", "eof", "failed"}
  /\ taken \in Nat
  /\ ring.buf \in Seq(Nat) /\ ring.pos \in 0 .. Cap - 1 /\ ring.full \in BOOLEAN
  /\ ctx \in {"live", "cancelled"}
  /\ cause \in {"none", "cancelled", "deadline"}
  /\ run \in {"none", "nil", "start", "exit", "ctx", "copy"}
  /\ filled \in 0 .. Work /\ dumped \in 0 .. Work

=============================================================================
