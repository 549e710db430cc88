---------------------------- MODULE DecryptProofs ----------------------------
(***************************************************************************)
(* Decrypt's safety properties for every number of chunks and every file.  *)
(* The inductive invariant says, for each place Run can be in, how what    *)
(* has gone into the sink (the file, or the pipe to the zstd goroutine)    *)
(* corresponds to what has been read, and what of it is in the output.     *)
(***************************************************************************)
EXTENDS Decrypt, TLAPS

Early == {"token", "input", "output"}
Open  == {"loop", "write", "sink", "await"}
Sunk  == IF skip THEN out ELSE fed

\* The output file is untouched, and then nothing has gone anywhere; or what
\* was sunk are the first frames of the file, all opened, and the output is a
\* part of that from the start.
SunkInv ==
  \/ /\ out = <<Old>> /\ fed = <<>> /\ dec = "none"
     /\ pc \in Early \cup {"done"} /\ result # "ok"
  \/ /\ pc \notin Early
     /\ Len(Sunk) <= pos /\ Len(out) <= Len(Sunk)
     /\ \A i \in 1 .. Len(Sunk) : Sunk[i] = file[i] /\ Opens(file[i])
     /\ \A i \in 1 .. Len(out) : out[i] = Sunk[i]

\* How far the sink is behind the reader.
PlaceInv ==
  /\ pc \in Early \cup {"loop", "write", "close"} => result = "none"
  /\ result \in TokenErrors \cup {"input"} => pc = "done" /\ out = <<Old>>
  /\ result = "ok" => pc = "done"
  /\ pc \in Early => pos = 0
  /\ pc = "loop" => Len(Sunk) = pos
  /\ pc = "write" => Len(Sunk) + 1 = pos /\ pt = file[pos] /\ Opens(pt)
  /\ \/ pc \in {"sink", "await", "close"} /\ result = "none"
     \/ result = "ok"
     => Len(Sunk) + 1 = pos /\ file[pos] = Mark
  /\ result = "ok" /\ checked => HashMatches

\* The life of the zstd goroutine.
DecInv ==
  /\ skip => dec = "none" /\ fed = <<>>
  /\ dec = "run" => pc \in Open
  /\ pc \in Open => skip \/ dec # "none"
  /\ pc = "await" => ~skip
  /\ dec = "ok" => Complete(fed) /\ Len(out) = Len(fed)
  /\ pc = "close" \/ result = "ok" => skip \/ dec = "ok"

IInv == TypeOK /\ SunkInv /\ PlaceInv /\ DecInv

-----------------------------------------------------------------------------
(* Facts about the operators. *)

\* Every file is a sequence of items.
LEMMA FilesAreSequences == Files \subseteq Seq(Items)
BY DEF Files

\* A token that fails a check is refused with one of the token errors.
LEMMA TokenErrorType == \A t : TokenError(t) \in TokenErrors
BY DEF TokenError, TokenErrors

\* What zstd accepts depends on the data and its kind only.
LEMMA CompleteFrame ==
  ASSUME UNCHANGED <<zstd, fed>>
  PROVE  Complete(fed)' <=> Complete(fed)
BY DEF Complete, Plausible, InOrder

\* The hash depends on what was read only.
LEMMA HashFrame ==
  ASSUME UNCHANGED <<file, pos, ours>>
  PROVE  HashMatches' <=> HashMatches
BY DEF HashMatches, Stream

-----------------------------------------------------------------------------
(* The invariant. *)

\* The initial states satisfy it.
LEMMA InitIInv == Init => IInv
<1> SUFFICES ASSUME Init PROVE IInv
  OBVIOUS
<1> USE DecryptAssumption DEF Init
<1>1. TypeOK
  <2>1. file \in Seq(Items) /\ fed \in Seq(Frames) /\ pos \in 0 .. Len(file)
    OBVIOUS
  <2>2. out \in Seq(Frames \cup {Old})
    OBVIOUS
  <2> QED
    BY <2>1, <2>2 DEF TypeOK, Errors, TokenErrors
<1>2. SunkInv /\ PlaceInv /\ DecInv
  BY DEF SunkInv, PlaceInv, DecInv, Early, Open, TokenErrors
<1> QED
  BY <1>1, <1>2 DEF IInv

\* Every step keeps the types.
LEMMA TypeStep ==
  ASSUME IInv, [Next]_vars
  PROVE  TypeOK'
<1> USE DecryptAssumption, TokenErrorType
    DEF IInv, PlaceInv, Early, Opens, TypeOK, Errors, TokenErrors,
        optVars, pipeVars, envVars
<1>1. CASE ParseToken
  BY <1>1 DEF ParseToken, Return
<1>2. CASE OpenInput
  BY <1>2, FilesAreSequences DEF OpenInput
<1>3. CASE OpenInputFail
  BY <1>3 DEF OpenInputFail, Return
<1>4. CASE OpenOutput
  BY <1>4 DEF OpenOutput
<1>5. CASE OpenOutputFail
  BY <1>5 DEF OpenOutputFail, Return
<1>6. CASE Cancelled
  BY <1>6 DEF Cancelled, EndLoop
<1>7. CASE ReadFrame
  BY <1>7 DEF ReadFrame, EndLoop, FrameError, Opens, Items, Frames,
              Mark, Cut, Damaged, Size
<1>8. CASE ReadFail
  BY <1>8 DEF ReadFail, EndLoop
<1>9. CASE WriteFile
  BY <1>9 DEF WriteFile
<1>10. CASE WriteFail
  BY <1>10 DEF WriteFail, EndLoop
<1>11. CASE CloseSink
  BY <1>11 DEF CloseSink, AfterSink
<1>12. CASE AwaitDrain
  BY <1>12 DEF AwaitDrain, AfterSink, Return
<1>13. CASE CloseOut
  BY <1>13 DEF CloseOut, Return
<1>14. CASE CloseOutFail
  BY <1>14 DEF CloseOutFail, Return
<1>15. CASE DecRead
  BY <1>15 DEF DecRead
<1>16. CASE DecEmit
  BY <1>16 DEF DecEmit
<1>17. CASE DecCorrupt
  BY <1>17 DEF DecCorrupt
<1>18. CASE DecDiskFail
  BY <1>18 DEF DecDiskFail
<1>19. CASE DecOk
  BY <1>19 DEF DecOk
<1>20. CASE Interrupt
  BY <1>20 DEF Interrupt
<1>21. CASE UNCHANGED vars
  BY <1>21 DEF vars
<1> QED
  BY <1>1, <1>2, <1>3, <1>4, <1>5, <1>6, <1>7, <1>8, <1>9, <1>10, <1>11,
     <1>12, <1>13, <1>14, <1>15, <1>16, <1>17, <1>18, <1>19, <1>20, <1>21
  DEF Next, MainNext, DecNext

\* Every step keeps the goroutine's part of the invariant.
LEMMA DecStep ==
  ASSUME IInv, TypeOK', [Next]_vars
  PROVE  DecInv'
<1> USE TokenErrorType, CompleteFrame, HashFrame
    DEF IInv, TypeOK, SunkInv, PlaceInv, DecInv, Sunk, Early, Open,
        TokenErrors, Opens, optVars, pipeVars, envVars
<1>1. CASE ParseToken
  BY <1>1 DEF ParseToken, Return
<1>2. CASE OpenInput
  BY <1>2 DEF OpenInput
<1>3. CASE OpenInputFail
  BY <1>3 DEF OpenInputFail, Return
<1>4. CASE OpenOutput
  BY <1>4 DEF OpenOutput
<1>5. CASE OpenOutputFail
  BY <1>5 DEF OpenOutputFail, Return
<1>6. CASE Cancelled
  BY <1>6 DEF Cancelled, EndLoop
<1>7. CASE ReadFrame
  BY <1>7 DEF ReadFrame, EndLoop, FrameError, Opens
<1>8. CASE ReadFail
  BY <1>8 DEF ReadFail, EndLoop
<1>9. CASE WriteFile
  BY <1>9 DEF WriteFile
<1>10. CASE WriteFail
  BY <1>10 DEF WriteFail, EndLoop
<1>11. CASE CloseSink
  BY <1>11 DEF CloseSink, AfterSink
<1>12. CASE AwaitDrain
  BY <1>12 DEF AwaitDrain, AfterSink, Return
<1>13. CASE CloseOut
  BY <1>13 DEF CloseOut, Return
<1>14. CASE CloseOutFail
  BY <1>14 DEF CloseOutFail, Return
<1>15. CASE DecRead
  BY <1>15 DEF DecRead
<1>16. CASE DecEmit
  BY <1>16 DEF DecEmit
<1>17. CASE DecCorrupt
  BY <1>17 DEF DecCorrupt
<1>18. CASE DecDiskFail
  BY <1>18 DEF DecDiskFail
<1>19. CASE DecOk
  BY <1>19 DEF DecOk
<1>20. CASE Interrupt
  BY <1>20 DEF Interrupt
<1>21. CASE UNCHANGED vars
  BY <1>21 DEF vars
<1> QED
  BY <1>1, <1>2, <1>3, <1>4, <1>5, <1>6, <1>7, <1>8, <1>9, <1>10, <1>11,
     <1>12, <1>13, <1>14, <1>15, <1>16, <1>17, <1>18, <1>19, <1>20, <1>21
  DEF Next, MainNext, DecNext

\* Every step keeps the sink as far behind the reader as it should be.
LEMMA PlaceStep ==
  ASSUME IInv, TypeOK', [Next]_vars
  PROVE  PlaceInv'
<1> USE TokenErrorType, CompleteFrame, HashFrame
    DEF IInv, TypeOK, SunkInv, PlaceInv, DecInv, Sunk, Early, Open,
        TokenErrors, Opens, optVars, pipeVars, envVars
<1>1. CASE ParseToken
  BY <1>1 DEF ParseToken, Return
<1>2. CASE OpenInput
  BY <1>2 DEF OpenInput
<1>3. CASE OpenInputFail
  BY <1>3 DEF OpenInputFail, Return
<1>4. CASE OpenOutput
  BY <1>4 DEF OpenOutput
<1>5. CASE OpenOutputFail
  BY <1>5 DEF OpenOutputFail, Return
<1>6. CASE Cancelled
  BY <1>6 DEF Cancelled, EndLoop
<1>7. CASE ReadFrame
  <2> DEFINE i == IF pos < Len(file) THEN file[pos + 1] ELSE Cut
  <2>1. CASE Opens(i)
    BY <1>7, <2>1 DEF ReadFrame, Frames, Cut
  <2>2. CASE ~Opens(i)
    BY <1>7, <2>2 DEF ReadFrame, EndLoop, FrameError, Mark, Cut, Size
  <2> QED
    BY <2>1, <2>2
<1>8. CASE ReadFail
  BY <1>8 DEF ReadFail, EndLoop
<1>9. CASE WriteFile
  BY <1>9 DEF WriteFile
<1>10. CASE WriteFail
  BY <1>10 DEF WriteFail, EndLoop
<1>11. CASE CloseSink
  BY <1>11 DEF CloseSink, AfterSink
<1>12. CASE AwaitDrain
  BY <1>12 DEF AwaitDrain, AfterSink, Return
<1>13. CASE CloseOut
  BY <1>13 DEF CloseOut, Return
<1>14. CASE CloseOutFail
  BY <1>14 DEF CloseOutFail, Return
<1>15. CASE DecRead
  BY <1>15 DEF DecRead
<1>16. CASE DecEmit
  BY <1>16 DEF DecEmit
<1>17. CASE DecCorrupt
  BY <1>17 DEF DecCorrupt
<1>18. CASE DecDiskFail
  BY <1>18 DEF DecDiskFail
<1>19. CASE DecOk
  BY <1>19 DEF DecOk
<1>20. CASE Interrupt
  BY <1>20 DEF Interrupt
<1>21. CASE UNCHANGED vars
  BY <1>21 DEF vars
<1> QED
  BY <1>1, <1>2, <1>3, <1>4, <1>5, <1>6, <1>7, <1>8, <1>9, <1>10, <1>11,
     <1>12, <1>13, <1>14, <1>15, <1>16, <1>17, <1>18, <1>19, <1>20, <1>21
  DEF Next, MainNext, DecNext

\* Every step keeps what was sunk, and what is in the output, in place.
LEMMA SunkStep ==
  ASSUME IInv, TypeOK', [Next]_vars
  PROVE  SunkInv'
<1> USE TokenErrorType, CompleteFrame, HashFrame
    DEF IInv, TypeOK, SunkInv, PlaceInv, DecInv, Sunk, Early, Open,
        TokenErrors, Opens, optVars, pipeVars, envVars
<1>1. CASE ParseToken
  BY <1>1 DEF ParseToken, Return
<1>2. CASE OpenInput
  BY <1>2 DEF OpenInput
<1>3. CASE OpenInputFail
  BY <1>3 DEF OpenInputFail, Return
<1>4. CASE OpenOutput
  BY <1>4 DEF OpenOutput
<1>5. CASE OpenOutputFail
  BY <1>5 DEF OpenOutputFail, Return
<1>6. CASE Cancelled
  BY <1>6 DEF Cancelled, EndLoop
<1>7. CASE ReadFrame
  BY <1>7 DEF ReadFrame, EndLoop, FrameError, Opens
<1>8. CASE ReadFail
  BY <1>8 DEF ReadFail, EndLoop
<1>9. CASE WriteFile
  BY <1>9 DEF WriteFile
<1>10. CASE WriteFail
  BY <1>10 DEF WriteFail, EndLoop
<1>11. CASE CloseSink
  BY <1>11 DEF CloseSink, AfterSink
<1>12. CASE AwaitDrain
  BY <1>12 DEF AwaitDrain, AfterSink, Return
<1>13. CASE CloseOut
  BY <1>13 DEF CloseOut, Return
<1>14. CASE CloseOutFail
  BY <1>14 DEF CloseOutFail, Return
<1>15. CASE DecRead
  BY <1>15 DEF DecRead
<1>16. CASE DecEmit
  BY <1>16 DEF DecEmit
<1>17. CASE DecCorrupt
  BY <1>17 DEF DecCorrupt
<1>18. CASE DecDiskFail
  BY <1>18 DEF DecDiskFail
<1>19. CASE DecOk
  BY <1>19 DEF DecOk
<1>20. CASE Interrupt
  BY <1>20 DEF Interrupt
<1>21. CASE UNCHANGED vars
  BY <1>21 DEF vars
<1> QED
  BY <1>1, <1>2, <1>3, <1>4, <1>5, <1>6, <1>7, <1>8, <1>9, <1>10, <1>11,
     <1>12, <1>13, <1>14, <1>15, <1>16, <1>17, <1>18, <1>19, <1>20, <1>21
  DEF Next, MainNext, DecNext

-----------------------------------------------------------------------------
(* What the invariant gives. *)

\* The invariant holds in every state of every behaviour.
THEOREM Invariance == Spec => []IInv
<1>1. ASSUME IInv, [Next]_vars
      PROVE  IInv'
  BY <1>1, TypeStep, SunkStep, PlaceStep, DecStep DEF IInv
<1> QED
  BY <1>1, InitIInv, PTL DEF Spec

\* Variables keep their types and no more is read than the file has.
THEOREM TypeCorrect == Spec => []TypeOK
BY Invariance, PTL DEF IInv

\* When Run has succeeded, the output is all that was read before the marker.
LEMMA OkOutput ==
  ASSUME IInv, result = "ok"
  PROVE  /\ file \in Seq(Items) /\ out \in Seq(Frames \cup {Old})
         /\ pos \in DOMAIN file /\ file[pos] = Mark
         /\ Len(out) = pos - 1
         /\ \A i \in 1 .. pos - 1 : out[i] = file[i] /\ Opens(file[i])
         /\ skip \/ Complete(out)
<1> USE DEF IInv
<1>1. /\ file \in Seq(Items) /\ out \in Seq(Frames \cup {Old})
      /\ fed \in Seq(Frames) /\ pos \in 0 .. Len(file)
  BY DEF TypeOK
<1>2. Len(Sunk) + 1 = pos /\ file[pos] = Mark /\ (skip \/ dec = "ok")
  BY DEF PlaceInv, DecInv
<1>3. /\ \A i \in 1 .. Len(Sunk) : Sunk[i] = file[i] /\ Opens(file[i])
      /\ \A i \in 1 .. Len(out) : out[i] = Sunk[i]
  BY DEF SunkInv
<1>4. out = Sunk /\ (skip \/ Complete(out))
  BY <1>1, <1>2, <1>3 DEF Sunk, DecInv
<1> QED
  BY <1>1, <1>2, <1>3, <1>4

\* decryptStream's and Run's success: every frame up to the end marker was
\* opened and is in the output, and what was decompressed was whole.
THEOREM OkIsComplete == Spec => []OkMeansAll
<1>1. IInv => OkMeansAll
  <2> SUFFICES ASSUME IInv, result = "ok"
               PROVE  \E n \in DOMAIN file :
                        /\ file[n] = Mark
                        /\ \A i \in 1 .. n - 1 : Opens(file[i])
                        /\ out = SubSeq(file, 1, n - 1)
                        /\ skip \/ Complete(out)
    BY DEF OkMeansAll
  <2>1. out = SubSeq(file, 1, pos - 1)
    BY OkOutput
  <2> QED
    BY <2>1, OkOutput
<1> QED
  BY <1>1, Invariance, PTL

\* With the hash checked, success means that the output is the backup.
THEOREM VerifiedSuccess == Spec => []VerifiedIsBackup
<1>1. IInv => VerifiedIsBackup
  <2> SUFFICES ASSUME IInv, result = "ok", checked
               PROVE  out = Backup
    BY DEF VerifiedIsBackup
  <2> USE DecryptAssumption
  <2>1. SubSeq(file, 1, pos) = Stream
    BY DEF IInv, PlaceInv, HashMatches
  <2>2. /\ DOMAIN SubSeq(file, 1, pos) = 1 .. pos
        /\ \A i \in 1 .. pos : SubSeq(file, 1, pos)[i] = file[i]
    BY OkOutput
  <2>3. /\ DOMAIN Stream = 1 .. Chunks + 1
        /\ \A i \in 1 .. Chunks : Stream[i] = i
    <3>1. DOMAIN Stream = 1 .. Chunks + 1
      BY DEF Stream
    <3>2. ASSUME NEW i \in 1 .. Chunks PROVE Stream[i] = i
      <4>1. i \in 1 .. Chunks + 1 /\ i <= Chunks
        OBVIOUS
      <4> QED
        BY <4>1 DEF Stream
    <3> QED
      BY <3>1, <3>2
  <2>4. pos = Chunks + 1
    <3>1. 1 .. pos = 1 .. Chunks + 1
      BY <2>1, <2>2, <2>3
    <3>2. pos \in Nat
      BY OkOutput
    <3> QED
      BY <3>1, <3>2
  <2>5. Len(out) = Chunks /\ \A i \in 1 .. Chunks : out[i] = i
    BY <2>1, <2>2, <2>3, <2>4, OkOutput
  <2> QED
    BY <2>5, OkOutput DEF Backup, Frames
<1> QED
  BY <1>1, Invariance, PTL

\* The output never holds anything but opened chunks in the file's order.
THEOREM OutputIsOpened == Spec => []OnlyOpenedChunks
<1>1. IInv => OnlyOpenedChunks
  BY DEF IInv, TypeOK, SunkInv, OnlyOpenedChunks, Opens, Sunk
<1> QED
  BY <1>1, Invariance, PTL

\* A refused token or a missing input leaves the output of an earlier run of
\* backupy-decrypt alone.
THEOREM OldOutput == Spec => []OldOutputKept
<1>1. IInv => OldOutputKept
  BY DEF IInv, PlaceInv, OldOutputKept
<1> QED
  BY <1>1, Invariance, PTL

\* The zstd goroutine has ended when the output is closed or Run returns.
THEOREM OutputFate == Spec => []OutputSettled
<1>1. IInv => OutputSettled
  BY DEF IInv, PlaceInv, DecInv, OutputSettled, Open
<1> QED
  BY <1>1, Invariance, PTL

=============================================================================
