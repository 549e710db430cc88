------------------------------- MODULE Decrypt -------------------------------
(***************************************************************************)
(* One call of backupy-decrypt's Run: the checks of the token, the loop    *)
(* that reads and opens frames, the zstd goroutine behind an io.Pipe, and  *)
(* the checks after the last frame.                                        *)
(*                                                                         *)
(* A file is a sequence of items: a frame the agent wrote is the number of *)
(* the chunk it holds, the zero-length end marker is Mark, and the others  *)
(* stand for damage.  AES-GCM, zstd and SHA-256 are external: the tag      *)
(* fails for damaged frames and for a foreign key, zstd accepts whole zstd *)
(* streams and nothing else (its content checksum), and two inputs with    *)
(* the same hash are equal.                                                *)
(***************************************************************************)
EXTENDS Integers, Sequences

CONSTANTS
  Chunks,   \* chunks of the backup, as the agent has cut it
  MaxItems  \* bound: items of an input file

ASSUME DecryptAssumption == Chunks \in Nat \ {0} /\ MaxItems \in Nat

VARIABLES
  pc,       \* where Run stands
  result,   \* nil ("ok") or the error it returns, "none" before it is known
  skip,     \* Options.SkipDecompress
  zstd,     \* the backup is a zstd stream (the agent's always is)
  ours,     \* the token is the one issued for this backup
  checked,  \* VerifySHA256 is set and the token carries a hash
  file,     \* items of the input file
  pos,      \* items read of it, and so hashed
  pt,       \* opened chunk that is being written, 0 when none
  out,      \* chunks in the output file
  wend,     \* write end of the pipe: "open" or closed with "eof"
  dec,      \* zstd goroutine: "none", "run", or what it put in errCh
  fed,      \* chunks the goroutine has read from the pipe
  ctxDone,  \* SIGINT or SIGTERM has arrived
  fault     \* history: the disk has failed

optVars  == <<skip, zstd, ours, checked>>
pipeVars == <<wend, dec, fed>>
envVars  == <<ctxDone, fault>>
vars     == <<pc, result, optVars, file, pos, pt, out, pipeVars, envVars>>

Frames == 1 .. Chunks
Mark == 0      \* header with length 0
Cut == -1      \* header or body that the file ends in the middle of
Damaged == -2  \* frame whose bytes are not what was sealed
Size == -3     \* header whose length no frame can have
Old == -4      \* what OutputPath held before
Items == Frames \cup {Mark, Cut, Damaged, Size}

\* Nothing follows an item the file ends in the middle of.
IsFile(f) == \A i \in DOMAIN f : f[i] = Cut => i = Len(f)
Files == {f \in UNION {[1 .. n -> Items] : n \in 0 .. MaxItems} : IsFile(f)}

\* Encryptor.Stream: one frame per chunk, in order, and the end marker.
Stream == [i \in 1 .. Chunks + 1 |-> IF i <= Chunks THEN i ELSE Mark]
Backup == [i \in Frames |-> i]

\* zstd: s begins like a sequence of whole streams, or is one.
InOrder(s) == \A i \in DOMAIN s : s[i] = ((i - 1) % Chunks) + 1
Plausible(s) == s = <<>> \/ (zstd /\ InOrder(s))
Complete(s)  == Plausible(s) /\ Len(s) % Chunks = 0

-----------------------------------------------------------------------------
(* Before the loop. *)

\* What ParseDecryption and Run verify of a token, in their order.
Checks == <<"structure", "iss", "aud", "exp", "expired", "claims",
            "alg", "version", "dek">>
Tokens ==
  {t \in SUBSET {Checks[i] : i \in DOMAIN Checks} :
     /\ "structure" \in t => t = {"structure"}
     /\ ~({"exp", "expired"} \subseteq t)}

\* The first check a token fails decides the error.
TokenError(t) ==
  LET failed == CHOOSE i \in DOMAIN Checks :
                  /\ Checks[i] \in t
                  /\ \A j \in 1 .. i - 1 : Checks[j] \notin t
  IN  IF Checks[failed] \in {"expired", "alg", "version"} THEN Checks[failed]
      ELSE "invalid"
TokenErrors == {"expired", "alg", "version", "invalid"}

Return(r) == pc' = "done" /\ result' = r

ParseToken ==
  /\ pc = "token"
  /\ \E t \in Tokens :
       IF t = {} THEN pc' = "input" /\ UNCHANGED result
                 ELSE Return(TokenError(t))
  /\ UNCHANGED <<optVars, file, pos, pt, out, pipeVars, envVars>>

OpenInput ==
  /\ pc = "input"
  /\ file' \in Files
  /\ pc' = "output"
  /\ UNCHANGED <<result, optVars, pos, pt, out, pipeVars, envVars>>

\* Mutant: the output is created, and truncated, before the input is opened.
OpenInputFailMut ==
  /\ pc = "input"
  /\ Return("input")
  /\ out' = <<>>
  /\ fault' = TRUE
  /\ UNCHANGED <<optVars, file, pos, pt, pipeVars, ctxDone>>

OpenInputFail ==
  /\ pc = "input"
  /\ Return("input")
  /\ fault' = TRUE
  /\ UNCHANGED <<optVars, file, pos, pt, out, pipeVars, ctxDone>>

\* O_TRUNC; without SkipDecompress the zstd goroutine is started.
OpenOutput ==
  /\ pc = "output"
  /\ pc' = "loop"
  /\ out' = <<>>
  /\ dec' = IF skip THEN "none" ELSE "run"
  /\ UNCHANGED <<result, optVars, file, pos, pt, wend, fed, envVars>>

OpenOutputFail ==
  /\ pc = "output"
  /\ Return("output")
  /\ fault' = TRUE
  /\ UNCHANGED <<optVars, file, pos, pt, out, pipeVars, ctxDone>>

-----------------------------------------------------------------------------
(* decryptStream.  It ends with nil (result stays "none") or an error, and *)
(* Run closes the sink in both cases.                                      *)

EndLoop(r) == pc' = "sink" /\ result' = r

Cancelled ==
  /\ pc = "loop" /\ ctxDone
  /\ EndLoop("cancelled")
  /\ UNCHANGED <<optVars, file, pos, pt, out, pipeVars, envVars>>

Opens(i) == ours /\ i \in Frames

\* Mutant: the end of the file is taken for the end of the stream.
FrameErrorMut(i) ==
  CASE i = Mark -> "none"
    [] i = Cut  -> "none"
    [] i = Size -> "frame"
    [] OTHER    -> "auth"

\* What decryptStream returns on an item that is not a frame it can open.
FrameError(i) ==
  CASE i = Mark -> "none"
    [] i = Cut  -> "truncated"
    [] i = Size -> "frame"
    [] OTHER    -> "auth"

\* Mutant: reading past the end of the file counts as a read.
ReadFrameMut ==
  /\ pc = "loop" /\ ~ctxDone
  /\ LET i == IF pos < Len(file) THEN file[pos + 1] ELSE Cut
     IN  /\ pos' = pos + 1
         /\ IF Opens(i) THEN pc' = "write" /\ pt' = i /\ UNCHANGED result
                        ELSE EndLoop(FrameError(i)) /\ UNCHANGED pt
  /\ UNCHANGED <<optVars, file, out, pipeVars, envVars>>

\* Mutant: a frame is handed on before its tag is checked.
ReadFrameTagMut ==
  /\ pc = "loop" /\ ~ctxDone
  /\ LET i == IF pos < Len(file) THEN file[pos + 1] ELSE Cut
     IN  /\ pos' = IF pos < Len(file) THEN pos + 1 ELSE pos
         /\ IF i \in Frames THEN pc' = "write" /\ pt' = i /\ UNCHANGED result
                            ELSE EndLoop(FrameError(i)) /\ UNCHANGED pt
  /\ UNCHANGED <<optVars, file, out, pipeVars, envVars>>

\* Mutant: the end marker is read past the hasher.
ReadFrameHashMut ==
  /\ pc = "loop" /\ ~ctxDone
  /\ LET i == IF pos < Len(file) THEN file[pos + 1] ELSE Cut
     IN  /\ pos' = IF pos < Len(file) /\ i # Mark THEN pos + 1 ELSE pos
         /\ IF Opens(i) THEN pc' = "write" /\ pt' = i /\ UNCHANGED result
                        ELSE EndLoop(FrameError(i)) /\ UNCHANGED pt
  /\ UNCHANGED <<optVars, file, out, pipeVars, envVars>>

\* Header, body and Open; a file that ends before the marker is truncated.
ReadFrame ==
  /\ pc = "loop" /\ ~ctxDone
  /\ LET i == IF pos < Len(file) THEN file[pos + 1] ELSE Cut
     IN  /\ pos' = IF pos < Len(file) THEN pos + 1 ELSE pos
         /\ IF Opens(i) THEN pc' = "write" /\ pt' = i /\ UNCHANGED result
                        ELSE EndLoop(FrameError(i)) /\ UNCHANGED pt
  /\ UNCHANGED <<optVars, file, out, pipeVars, envVars>>

ReadFail ==
  /\ pc = "loop" /\ ~ctxDone
  /\ EndLoop("read")
  /\ fault' = TRUE
  /\ UNCHANGED <<optVars, file, pos, pt, out, pipeVars, ctxDone>>

\* With SkipDecompress the chunk goes to the file.
WriteFile ==
  /\ pc = "write" /\ skip
  /\ pc' = "loop" /\ pt' = 0
  /\ out' = Append(out, pt)
  /\ UNCHANGED <<result, optVars, file, pos, pipeVars, envVars>>

WriteFail ==
  /\ pc = "write" /\ skip
  /\ EndLoop("write") /\ pt' = 0
  /\ fault' = TRUE
  /\ UNCHANGED <<optVars, file, pos, out, pipeVars, ctxDone>>

-----------------------------------------------------------------------------
(* The goroutine: io.Copy from the zstd decoder to the output file.  A     *)
(* write to the pipe returns when all of it has been read; the read end is *)
(* never closed.                                                           *)

DecRead ==
  /\ dec = "run" /\ pc = "write"
  /\ fed' = Append(fed, pt)
  /\ pc' = "loop" /\ pt' = 0
  /\ UNCHANGED <<result, optVars, file, pos, out, wend, dec, envVars>>

DecEmit ==
  /\ dec = "run" /\ Len(out) < Len(fed)
  /\ zstd
  /\ out' = Append(out, fed[Len(out) + 1])
  /\ UNCHANGED <<pc, result, optVars, file, pos, pt, pipeVars, envVars>>

\* The decoder has seen, perhaps in the part it has read of the chunk main is
\* writing, what no zstd stream has; or the pipe has ended within a stream.
DecCorrupt ==
  /\ dec = "run"
  /\ \/ ~Plausible(fed)
     \/ pc = "write" /\ ~Plausible(Append(fed, pt))
     \/ wend = "eof" /\ ~Complete(fed)
  /\ dec' = "err"
  /\ UNCHANGED <<pc, result, optVars, file, pos, pt, out, wend, fed, envVars>>

DecDiskFail ==
  /\ dec = "run" /\ Len(out) < Len(fed)
  /\ zstd
  /\ dec' = "err"
  /\ fault' = TRUE
  /\ UNCHANGED <<pc, result, optVars, file, pos, pt, out, wend, fed, ctxDone>>

DecOk ==
  /\ dec = "run" /\ wend = "eof"
  /\ Complete(fed) /\ Len(out) = Len(fed)
  /\ dec' = "ok"
  /\ UNCHANGED <<pc, result, optVars, file, pos, pt, out, wend, fed, envVars>>

-----------------------------------------------------------------------------
(* After the loop. *)

\* Run returns the loop's error, or goes on to close the output file.
AfterSink ==
  IF result = "none" THEN pc' = "close" ELSE pc' = "done"

\* Mutant: the sink's Close waits without closing the pipe.
CloseSinkOpenMut ==
  /\ pc = "sink"
  /\ IF skip THEN AfterSink ELSE pc' = "await"
  /\ UNCHANGED <<result, optVars, file, pos, pt, out, pipeVars, envVars>>

\* Mutant: after an error Run returns without waiting for the goroutine.
CloseSinkMut ==
  /\ pc = "sink"
  /\ IF skip \/ result # "none" THEN AfterSink /\ UNCHANGED wend
             ELSE pc' = "await" /\ wend' = "eof"
  /\ UNCHANGED <<result, optVars, file, pos, pt, out, dec, fed, envVars>>

\* Close does nothing (noopCloser) or closes the pipe and waits on errCh.
CloseSink ==
  /\ pc = "sink"
  /\ IF skip THEN AfterSink /\ UNCHANGED wend
             ELSE pc' = "await" /\ wend' = "eof"
  /\ UNCHANGED <<result, optVars, file, pos, pt, out, dec, fed, envVars>>

\* The loop's error comes before the goroutine's.
AwaitDrain ==
  /\ pc = "await" /\ dec \in {"ok", "err"}
  /\ IF result = "none" /\ dec = "err" THEN Return("sink")
                                       ELSE AfterSink /\ UNCHANGED result
  /\ UNCHANGED <<optVars, file, pos, pt, out, pipeVars, envVars>>

\* Mutant: only the amount of data is compared.
HashMatchesMut == ours /\ pos = Len(Stream)

\* The hash of what was read is the token's.
HashMatches == ours /\ SubSeq(file, 1, pos) = Stream

\* out.Close, then the hash.
CloseOut ==
  /\ pc = "close"
  /\ Return(IF checked /\ ~HashMatches THEN "sha256" ELSE "ok")
  /\ UNCHANGED <<optVars, file, pos, pt, out, pipeVars, envVars>>

CloseOutFail ==
  /\ pc = "close"
  /\ Return("close")
  /\ fault' = TRUE
  /\ UNCHANGED <<optVars, file, pos, pt, out, pipeVars, ctxDone>>

-----------------------------------------------------------------------------
\* SIGINT or SIGTERM, through signal.NotifyContext.
Interrupt ==
  /\ ~ctxDone /\ pc # "done"
  /\ ctxDone' = TRUE
  /\ UNCHANGED <<pc, result, optVars, file, pos, pt, out, pipeVars, fault>>

Init ==
  /\ pc = "token" /\ result = "none"
  /\ skip \in BOOLEAN /\ zstd \in BOOLEAN
  /\ ours \in BOOLEAN /\ checked \in BOOLEAN
  /\ file = <<>> /\ pos = 0 /\ pt = 0
  /\ out = <<Old>>
  /\ wend = "open" /\ dec = "none" /\ fed = <<>>
  /\ ctxDone = FALSE /\ fault = FALSE

MainNext ==
  \/ ParseToken
  \/ OpenInput \/ OpenInputFail \/ OpenOutput \/ OpenOutputFail
  \/ Cancelled \/ ReadFrame \/ ReadFail \/ WriteFile \/ WriteFail
  \/ CloseSink \/ AwaitDrain \/ CloseOut \/ CloseOutFail

DecNext == DecRead \/ DecEmit \/ DecCorrupt \/ DecDiskFail \/ DecOk

Next == MainNext \/ DecNext \/ Interrupt
Spec == Init /\ [][Next]_vars

\* Run and its goroutine go on while they can; nobody has to press Ctrl-C.
FairSpec == Spec /\ WF_vars(MainNext) /\ WF_vars(DecNext)

-----------------------------------------------------------------------------
(* Properties. *)

Errors == TokenErrors \cup
  {"input", "output", "cancelled", "truncated", "frame", "auth", "read",
   "write", "sink", "close", "sha256"}

\* Types of the variables; no more is read than the file has.
TypeOK ==
  /\ pc \in {"token", "input", "output", "loop", "write", "sink", "await",
             "close", "done"}
  /\ result \in Errors \cup {"none", "ok"}
  /\ skip \in BOOLEAN /\ zstd \in BOOLEAN
  /\ ours \in BOOLEAN /\ checked \in BOOLEAN
  /\ file \in Seq(Items)
  /\ pos \in 0 .. Len(file)
  /\ pt \in Frames \cup {0}
  /\ out \in Seq(Frames \cup {Old}) /\ fed \in Seq(Frames)
  /\ wend \in {"open", "eof"} /\ dec \in {"none", "run", "ok", "err"}
  /\ ctxDone \in BOOLEAN /\ fault \in BOOLEAN

\* Success is reported only when the frames up to the first end marker could
\* all be opened, all of them are in the output in their order, and, when they
\* were decompressed, they are whole zstd streams: no truncated file, and no
\* failed decompression, passes, whether or not the hash is checked.  It says
\* nothing of the order of the frames: without the hash a file whose frames
\* were exchanged, repeated or left out passes when the result is a stream,
\* although decrypt.go says "any reorder breaks the frame boundaries".
OkMeansAll ==
  result = "ok" =>
    \E n \in DOMAIN file :
      /\ file[n] = Mark
      /\ \A i \in 1 .. n - 1 : Opens(file[i])
      /\ out = SubSeq(file, 1, n - 1)
      /\ skip \/ Complete(out)

\* With the hash checked, success means that the output is the backup: frames
\* that are exchanged, repeated or missing are found out.
VerifiedIsBackup == result = "ok" /\ checked => out = Backup

\* An output file that was created holds only chunks whose tag was verified
\* with the token's key, in the order of the file, at every moment: what is
\* left behind by a failed or killed run is a prefix of what was sealed there.
OnlyOpenedChunks ==
  out # <<Old>> =>
    /\ Len(out) <= pos
    /\ \A i \in DOMAIN out : out[i] = file[i] /\ Opens(out[i])

\* A run that is refused for its token or its input leaves the output of an
\* earlier run as it was: os.OpenFile truncates it only after those checks.
OldOutputKept == result \in TokenErrors \cup {"input"} => out = <<Old>>

\* Once Run closes the output file, or returns, its goroutine has ended, so
\* nothing is written to a closed file or after the exit status is known.
OutputSettled == pc \in {"close", "done"} => dec # "run"

\* With the right token and options, an undamaged file is restored, unless the
\* disk fails or the user interrupts: no order of the two goroutines' steps
\* turns it into an error or a hang.
GoodFileRestored ==
  (pc = "output" /\ file = Stream /\ ours /\ (skip \/ zstd))
    ~> (result = "ok" /\ out = Backup) \/ fault \/ ctxDone

\* Run returns, interrupted or not, unless its goroutine has failed.
Returns == <>(pc = "done" \/ dec = "err")

\* decrypt.go: pipeWriterCloser's "Close() waits for the drain to finish and
\* returns its error", so Run returns when the goroutine has failed.
DrainErrorReturned == dec = "err" ~> pc = "done"

=============================================================================
