------------------------- MODULE WorkerProcessProofs -------------------------
(***************************************************************************)
(* Theorems about WorkerProcess for every number of jobs, every set of     *)
(* texts and replies, and every number of faults.                          *)
(***************************************************************************)
EXTENDS WorkerProcess, TLAPS

-----------------------------------------------------------------------------
(* What holds of each job, whatever the process does.                      *)

Results == {reply.result : reply \in Replies} \cup {NoResult, OwnResult}
Record == [text : Texts, status : Statuses, code : Codes, retryable : BOOLEAN,
           result : Results]

\* A job that still runs or waits has an attempt left, and is active as long as
\* its execution is under way.
SoundRun(jb, x) ==
  /\ jb \in Job /\ x \in Run
  /\ jb.state \in Live => jb.made < MaxAttempts /\ jb.stalls <= MaxStalledCount
  /\ x.pc \notin {"idle", "report"} => jb.state = "active"

\* What an execution is about to store or to throw.
SoundOutcome(x) ==
  /\ x.pc = "complete" => FitsSchema(x.reply.result)
  /\ x.pc = "catch" => x.error.name = "ProcessingError"
  /\ x.pc = "settle" /\ x.error # NoError =>
       (x.error.retryable <=> x.error.name # "UnrecoverableError")

SoundRecord(s) ==
  /\ s \in Record
  /\ s.status = "COMPLETED" <=> s.result # NoResult
  /\ s.result # NoResult => FitsSchema(s.result)

\* The copy of a job agrees with the queue, now or as soon as it is made.
SoundLetter(jb, x, l) ==
  /\ l \in Letter
  /\ x.pc = "report" => /\ jb.state # "active"
                        /\ jb.state = "failed" <=> ~WillRetry(jb.made, x.error)
  /\ l.state # "none" => jb.state = "failed"
  /\ jb.state = "failed" => l.state # "none" \/ x.pc = "report"

SoundJob(jb, x, s, l) ==
  SoundRun(jb, x) /\ SoundOutcome(x) /\ SoundRecord(s) /\ SoundLetter(jb, x, l)

JobsInv ==
  /\ job \in [Jobs -> Job]
  /\ run \in [Jobs -> Run]
  /\ stored \in [Jobs -> Record]
  /\ letter \in [Jobs -> Letter]
  /\ \A j \in Jobs : SoundJob(job[j], run[j], stored[j], letter[j])

-----------------------------------------------------------------------------
(* Errors and results.                                                     *)

\* Every error of an analysis, thrown or not, has the fields of an error.
LEMMA AnalysisErrors ==
  ASSUME NEW reply
  PROVE  /\ ReplyError(reply) \in Errors
         /\ ReplyError(reply) # NoError => ReplyError(reply).name = "ProcessingError"
         /\ ReplyError(reply) = NoError => FitsSchema(reply.result)
<1> DEFINE IsProcessingError(error) ==
      error \in Errors /\ error.name = "ProcessingError" /\ error # NoError
<1>1. ASSUME NEW code \in ErrorCodes
      PROVE  /\ IsProcessingError(ProcessingError(code, TRUE))
             /\ IsProcessingError(ProcessingError(code, FALSE))
  <2>1. code \in Codes /\ "none" \in Codes
    BY DEF Codes
  <2>2. QED
    BY <2>1 DEF ProcessingError, Error, NoError, Errors
<1>2. /\ {"LLM_AUTH_ERROR", "LLM_TIMEOUT", "LLM_RATE_LIMITED", "LLM_UNAVAILABLE",
          "LLM_REQUEST_INVALID", "LLM_INVALID_RESPONSE"} \subseteq ErrorCodes
  BY DEF ErrorCodes
<1> HIDE DEF IsProcessingError
<1>3. IsProcessingError(HttpError(reply.status))
  BY <1>1, <1>2, ZenonT(40) DEF HttpError
<1>4. \/ IsProcessingError(ReplyError(reply))
      \/ ReplyError(reply) = NoError /\ FitsSchema(reply.result)
  BY <1>1, <1>2, <1>3, ZenonT(40) DEF ReplyError
<1>5. NoError \in Errors
  BY DEF NoError, Error, Errors, Codes
<1>6. QED
  BY <1>4, <1>5 DEF IsProcessingError

\* What processBrief throws is repeated by BullMQ if and only if the attempt may
\* be repeated.
LEMMA ThrownErrors ==
  ASSUME NEW error \in Errors, error.name = "ProcessingError"
  PROVE  /\ Thrown(error) \in Errors
         /\ Thrown(error).retryable <=> Thrown(error).name # "UnrecoverableError"
<1>1. CASE error.retryable
  BY <1>1 DEF Thrown, Errors
<1>2. CASE ~error.retryable
  <2>1. Thrown(error) = Error("UnrecoverableError", "none", error.code, FALSE)
    BY <1>2 DEF Thrown
  <2>2. error.code \in Codes /\ "none" \in Codes
    BY DEF Errors, Codes
  <2>3. QED
    BY <2>1, <2>2 DEF Error, Errors
<1>3. QED
  BY <1>1, <1>2

\* The errors of MongoDB.
LEMMA DatabaseErrors ==
  /\ InternalError \in Errors /\ InternalError.name = "ProcessingError"
  /\ DriverError \in Errors /\ DriverError.retryable
  /\ DriverError.name # "UnrecoverableError"
  /\ NoError \in Errors /\ StalledError \in Errors
  /\ StalledError.name = "UnrecoverableError"
BY DEF InternalError, DriverError, NoError, StalledError, ProcessingError, Error, Errors,
  Codes, ErrorCodes

\* A dead-letter copy always carries a code that is one of the application's.
LEMMA CopiedCodes ==
  ASSUME NEW error \in Errors
  PROVE  ErrorCodeOf(error) \in ErrorCodes
BY DEF ErrorCodeOf, Errors, Codes, ErrorCodes

\* The result the worker makes itself fits the schema.
LEMMA OwnResultFits == FitsSchema(OwnResult)
<1> DEFINE r == OwnResult
           strings == StringsOf[r.outcome]
           lists == ListsOf[r.outcome]
<1>1. r.outcome = "INSUFFICIENT_BRIEF" /\ r.strings = [reason |-> 102]
      /\ r.lists = [missingInformation |-> <<62, 47>>]
  BY DEF OwnResult
<1>2. /\ r.outcome \in DOMAIN StringsOf
      /\ strings = [reason |-> 30 .. 600]
      /\ lists = [missingInformation |-> List(1 .. 8, 5 .. 280)]
  BY <1>1 DEF StringsOf, ListsOf
<1>3. DOMAIN r.strings = DOMAIN strings /\ DOMAIN r.lists = DOMAIN lists
  BY <1>1, <1>2
<1>4. \A field \in DOMAIN strings : r.strings[field] \in strings[field]
  BY <1>1, <1>2
<1>5. Len(<<62, 47>>) = 2 /\ Range(<<62, 47>>) = {62, 47}
  BY DEF Range
<1>6. ASSUME NEW field \in DOMAIN lists
      PROVE  /\ Len(r.lists[field]) \in lists[field].count
             /\ Range(r.lists[field]) \subseteq lists[field].item
  <2>1. r.lists[field] = <<62, 47>> /\ lists[field] = List(1 .. 8, 5 .. 280)
    BY <1>1, <1>2
  <2>2. lists[field].count = 1 .. 8 /\ lists[field].item = 5 .. 280
    BY <2>1 DEF List
  <2>3. QED
    BY <1>5, <2>1, <2>2
<1>7. QED
  BY <1>2, <1>3, <1>4, <1>6 DEF FitsSchema

-----------------------------------------------------------------------------
(* A step of one job keeps what holds of each.                             *)

\* Its job, its execution, its record and its copy are replaced by sound ones.
LEMMA OneJob ==
  ASSUME JobsInv, NEW j \in Jobs, NEW jb, NEW x, NEW s, NEW l,
         SoundJob(jb, x, s, l),
         job' = [job EXCEPT ![j] = jb], run' = [run EXCEPT ![j] = x],
         stored' = [stored EXCEPT ![j] = s], letter' = [letter EXCEPT ![j] = l]
  PROVE  JobsInv'
<1>1. jb \in Job /\ x \in Run /\ s \in Record /\ l \in Letter
  BY DEF SoundJob, SoundRun, SoundRecord, SoundLetter
<1>2. ASSUME NEW k \in Jobs
      PROVE  SoundJob(job'[k], run'[k], stored'[k], letter'[k])
  BY DEF JobsInv
<1>3. QED
  BY <1>1, <1>2 DEF JobsInv

\* What a step leaves alone, in the form in which OneJob takes it.
LEMMA Same ==
  ASSUME JobsInv, NEW j \in Jobs
  PROVE  /\ SoundJob(job[j], run[j], stored[j], letter[j])
         /\ job = [job EXCEPT ![j] = job[j]]
         /\ run = [run EXCEPT ![j] = run[j]]
         /\ stored = [stored EXCEPT ![j] = stored[j]]
         /\ letter = [letter EXCEPT ![j] = letter[j]]
BY DEF JobsInv

\* An execution that moves to another step with an error or none.
Moved(x, pc, error) == [x EXCEPT !.pc = pc, !.error = error]

\* Its fields.
LEMMA RunMoves ==
  ASSUME NEW x \in Run, NEW error \in Errors,
         NEW pc \in Places
  PROVE  /\ Moved(x, pc, error) \in Run
         /\ Moved(x, pc, error).pc = pc
         /\ Moved(x, pc, error).error = error
         /\ Moved(x, pc, error).reply = x.reply
BY DEF Moved, Run

\* What it must have to be about to store, to throw, or to end.
LEMMA SoundMoves ==
  ASSUME NEW x \in Run, NEW error \in Errors
  PROVE  /\ FitsSchema(x.reply.result) => SoundOutcome(Moved(x, "complete", error))
         /\ error.name = "ProcessingError" => SoundOutcome(Moved(x, "catch", error))
         /\ error = NoError \/ (error.retryable <=> error.name # "UnrecoverableError")
              => SoundOutcome(Moved(x, "settle", error))
<1>1. ASSUME NEW pc \in Places
      PROVE  /\ Moved(x, pc, error).pc = pc
             /\ Moved(x, pc, error).error = error
             /\ Moved(x, pc, error).reply = x.reply
  BY RunMoves
<1>2. FitsSchema(x.reply.result) => SoundOutcome(Moved(x, "complete", error))
  BY <1>1 DEF SoundOutcome, Places
<1>3. error.name = "ProcessingError" => SoundOutcome(Moved(x, "catch", error))
  BY <1>1 DEF SoundOutcome, Places
<1>4. ASSUME error = NoError \/ (error.retryable <=> error.name # "UnrecoverableError")
      PROVE  SoundOutcome(Moved(x, "settle", error))
  <2>1. Moved(x, "settle", error).pc = "settle" /\ Moved(x, "settle", error).error = error
    BY <1>1 DEF Places
  <2>2. QED
    BY <1>4, <2>1 DEF SoundOutcome
<1>5. QED
  BY <1>2, <1>3, <1>4

\* An execution under way that moves to another such step leaves its job and
\* its copy sound.
LEMMA StillActive ==
  ASSUME NEW jb, NEW x, NEW y, NEW s, NEW t, NEW l,
         SoundJob(jb, x, s, l), x.pc \notin {"idle", "report"},
         y \in Run, y.pc \notin {"idle", "report"}, SoundOutcome(y), SoundRecord(t)
  PROVE  SoundJob(jb, y, t, l)
BY DEF SoundJob, SoundRun, SoundLetter

\* The effect of RunGoes.
LEMMA RunGoesTo ==
  ASSUME JobsInv, NEW j \in Jobs, NEW pc, NEW error, RunGoes(j, pc, error)
  PROVE  run' = [run EXCEPT ![j] = Moved(run[j], pc, error)]
BY DEF JobsInv, RunGoes, Moved, Run

\* A result that fits is one.
LEMMA ResultsAreResults == ~FitsSchema(NoResult)
BY DEF FitsSchema, NoResult, StringsOf

\* What an update makes of the brief of a job.
LEMMA Updates ==
  ASSUME NEW j, stored[j] \in Record, run[j] \in Run
  PROVE  /\ run[j].pc = "attempt" =>
              /\ Updated(j) \in Record
              /\ Updated(j).status = "PROCESSING" /\ Updated(j).code = "none"
              /\ Updated(j).result = stored[j].result
         /\ run[j].pc = "complete" =>
              /\ Updated(j) \in Record
              /\ Updated(j).status = "COMPLETED" /\ Updated(j).code = "none"
              /\ Updated(j).result = run[j].reply.result
         /\ run[j].pc = "catch" =>
              /\ Updated(j) \in Record
              /\ Updated(j).status = IF ExpectsRetry(j) THEN "PENDING" ELSE "FAILED"
              /\ Updated(j).code = run[j].error.code
              /\ Updated(j).retryable = run[j].error.retryable
              /\ Updated(j).result = stored[j].result
<1>1. /\ "none" \in Codes /\ run[j].error.code \in Codes
      /\ run[j].error.retryable \in BOOLEAN
  BY DEF Run, Errors, Codes
<1>2. run[j].reply.result \in Results
  BY DEF Run, Results, Silence, Answer, Reply
<1>3. ASSUME NEW status \in Statuses, NEW code \in Codes, NEW retryable \in BOOLEAN
      PROVE  /\ Marked(j, status, code, retryable) \in Record
             /\ Marked(j, status, code, retryable).status = status
             /\ Marked(j, status, code, retryable).code = code
             /\ Marked(j, status, code, retryable).retryable = retryable
             /\ Marked(j, status, code, retryable).result = stored[j].result
  BY DEF Marked, Record
<1>4. ASSUME run[j].pc = "attempt"
      PROVE  /\ Updated(j) \in Record
             /\ Updated(j).status = "PROCESSING" /\ Updated(j).code = "none"
             /\ Updated(j).result = stored[j].result
  <2>1. Updated(j) = Marked(j, "PROCESSING", "none", FALSE)
    BY <1>4 DEF Updated
  <2>2. QED
    BY <1>1, <2>1 DEF Marked, Record, Statuses
<1>5. ASSUME run[j].pc = "complete"
      PROVE  /\ Updated(j) \in Record
             /\ Updated(j).status = "COMPLETED" /\ Updated(j).code = "none"
             /\ Updated(j).result = run[j].reply.result
  <2> DEFINE m == Marked(j, "COMPLETED", "none", FALSE)
  <2>1. Updated(j) = [m EXCEPT !.result = run[j].reply.result]
    BY <1>5 DEF Updated
  <2>2. m \in Record /\ m.status = "COMPLETED" /\ m.code = "none"
    BY <1>1, <1>3 DEF Statuses
  <2> HIDE DEF m
  <2>3. QED
    BY <1>2, <1>5, <2>1, <2>2 DEF Record
<1>6. ASSUME run[j].pc = "catch"
      PROVE  /\ Updated(j) \in Record
             /\ Updated(j).status = IF ExpectsRetry(j) THEN "PENDING" ELSE "FAILED"
             /\ Updated(j).code = run[j].error.code
             /\ Updated(j).retryable = run[j].error.retryable
             /\ Updated(j).result = stored[j].result
  <2> DEFINE status == IF ExpectsRetry(j) THEN "PENDING" ELSE "FAILED"
  <2>1. Updated(j) = Marked(j, status, run[j].error.code, run[j].error.retryable)
    BY <1>6 DEF Updated
  <2>2. status \in Statuses
    BY DEF Statuses
  <2> HIDE DEF status
  <2>3. QED
    BY <1>1, <1>3, <1>6, <2>1, <2>2 DEF status
<1>7. QED
  BY <1>4, <1>5, <1>6

\* What a MongoDB call of an attempt writes is a sound record.
LEMMA SoundWrites ==
  ASSUME NEW j, SoundJob(job[j], run[j], stored[j], letter[j]),
         run[j].pc \in {"attempt", "complete", "catch"}
  PROVE  SoundRecord(Written(j))
<1>1. SoundRecord(stored[j]) /\ stored[j] \in Record /\ run[j] \in Run
  BY DEF SoundJob, SoundRecord, SoundRun
<1>2. run[j].pc = "complete" => FitsSchema(run[j].reply.result)
  BY DEF SoundJob, SoundOutcome
<1>3. CASE stored[j].status = "COMPLETED"
  BY <1>1, <1>3 DEF Written
<1>4. CASE stored[j].status # "COMPLETED"
  <2>1. Written(j) = Updated(j) /\ stored[j].result = NoResult
    BY <1>1, <1>4 DEF Written, SoundRecord
  <2>2. CASE run[j].pc = "complete"
    BY <1>1, <1>2, <2>1, <2>2, Updates, ResultsAreResults DEF SoundRecord
  <2>3. CASE run[j].pc \in {"attempt", "catch"}
    <3>1. Updated(j) \in Record /\ Updated(j).status # "COMPLETED"
          /\ Updated(j).result = NoResult
      BY <1>1, <2>1, <2>3, Updates
    <3>2. QED
      BY <2>1, <3>1 DEF SoundRecord
  <2>4. QED
    BY <2>2, <2>3
<1>5. QED
  BY <1>3, <1>4

\* The same for the whole variable, whether the call is made or not.
LEMMA SoundWrite ==
  ASSUME JobsInv, NEW j \in Jobs, run[j].pc \in {"attempt", "complete", "catch"},
         Write(j) \/ UNCHANGED stored
  PROVE  \E t : SoundRecord(t) /\ stored' = [stored EXCEPT ![j] = t]
<1>1. SoundJob(job[j], run[j], stored[j], letter[j])
  BY DEF JobsInv
<1>2. CASE Write(j)
  BY <1>1, <1>2, SoundWrites DEF Write
<1>3. CASE UNCHANGED stored
  BY <1>1, <1>3, Same DEF SoundJob
<1>4. QED
  BY <1>2, <1>3

-----------------------------------------------------------------------------
(* The steps of an execution.                                              *)

\* A step from one place under way to another.
LEMMA GoesOn ==
  ASSUME JobsInv, NEW j \in Jobs, run[j].pc \notin {"idle", "report"},
         NEW y \in Run, y.pc \notin {"idle", "report"}, SoundOutcome(y),
         NEW t, SoundRecord(t),
         run' = [run EXCEPT ![j] = y], stored' = [stored EXCEPT ![j] = t],
         UNCHANGED <<job, letter>>
  PROVE  JobsInv'
<1>1. SoundJob(job[j], y, t, letter[j])
  BY StillActive, Same
<1>2. job' = [job EXCEPT ![j] = job[j]] /\ letter' = [letter EXCEPT ![j] = letter[j]]
  BY Same
<1>3. QED
  BY <1>1, <1>2, OneJob

\* The same, by RunGoes.
LEMMA GoesOnTo ==
  ASSUME JobsInv, NEW j \in Jobs, run[j].pc \notin {"idle", "report"},
         NEW pc \in {"attempt", "provider", "complete", "catch", "settle"},
         NEW error \in Errors, RunGoes(j, pc, error),
         SoundOutcome(Moved(run[j], pc, error)),
         NEW t, SoundRecord(t), stored' = [stored EXCEPT ![j] = t],
         UNCHANGED <<job, letter>>
  PROVE  JobsInv'
<1>1. run[j] \in Run
  BY DEF JobsInv
<1>2. pc \in Places
  BY DEF Places
<1>3. /\ Moved(run[j], pc, error) \in Run
      /\ Moved(run[j], pc, error).pc = pc
  BY <1>1, <1>2, RunMoves
<1>4. QED
  BY <1>3, RunGoesTo, GoesOn

\* startAttempt claims the brief, or finds that there is nothing to do.
LEMMA StartAttemptStep ==
  ASSUME JobsInv, NEW j \in Jobs, StartAttempt(j) PROVE JobsInv'
<1> USE DEF StartAttempt
<1>1. PICK t : SoundRecord(t) /\ stored' = [stored EXCEPT ![j] = t]
  BY SoundWrite
<1>2. run[j] \in Run
  BY DEF JobsInv
<1>3. CASE RunGoes(j, "settle", NoError)
  <2>1. SoundOutcome(Moved(run[j], "settle", NoError))
    BY <1>2, SoundMoves, DatabaseErrors
  <2>2. QED
    BY <1>1, <1>3, <2>1, GoesOnTo, DatabaseErrors
<1>4. ASSUME NEW reply \in Replies,
             run' = [run EXCEPT ![j].pc = "provider", ![j].reply = reply]
      PROVE  JobsInv'
  <2> DEFINE y == [run[j] EXCEPT !.pc = "provider", !.reply = reply]
  <2>1. y \in Run /\ y.pc = "provider"
    BY <1>2 DEF Run, Places
  <2>2. run' = [run EXCEPT ![j] = y]
    BY <1>4 DEF JobsInv
  <2>3. SoundOutcome(y)
    BY <2>1 DEF SoundOutcome
  <2>4. QED
    BY <1>1, <2>1, <2>2, <2>3, GoesOn
<1>5. ASSUME run' = [run EXCEPT ![j].pc = "complete", ![j].reply = Answer(OwnResult)]
      PROVE  JobsInv'
  <2> DEFINE y == [run[j] EXCEPT !.pc = "complete", !.reply = Answer(OwnResult)]
  <2>1. y \in Run /\ y.pc = "complete" /\ y.reply = Answer(OwnResult)
    BY <1>2 DEF Run, Places
  <2>2. run' = [run EXCEPT ![j] = y]
    BY <1>5 DEF JobsInv
  <2>3. SoundOutcome(y)
    BY <2>1, OwnResultFits DEF SoundOutcome, Answer, Reply
  <2>4. QED
    BY <1>1, <2>1, <2>2, <2>3, GoesOn
<1>6. QED
  BY <1>3, <1>4, <1>5

\* analyzeBrief returns or throws.
LEMMA ProviderAnswersStep ==
  ASSUME JobsInv, NEW j \in Jobs, ProviderAnswers(j) PROVE JobsInv'
<1> DEFINE error == ReplyError(run[j].reply)
           pc == IF error = NoError THEN "complete" ELSE "catch"
<1>1. run[j] \in Run /\ RunGoes(j, pc, error)
  BY DEF JobsInv, ProviderAnswers
<1>2. error \in Errors
  BY AnalysisErrors
<1>3. SoundOutcome(Moved(run[j], pc, error))
  BY <1>1, <1>2, SoundMoves, AnalysisErrors
<1>4. SoundRecord(stored[j]) /\ stored' = [stored EXCEPT ![j] = stored[j]]
  BY Same DEF SoundJob, ProviderAnswers
<1>5. QED
  BY <1>1, <1>2, <1>3, <1>4, GoesOnTo DEF ProviderAnswers

\* complete.
LEMMA StoreResultStep ==
  ASSUME JobsInv, NEW j \in Jobs, StoreResult(j) PROVE JobsInv'
<1> USE DEF StoreResult
<1>1. PICK t : SoundRecord(t) /\ stored' = [stored EXCEPT ![j] = t]
  BY SoundWrite
<1>2. SoundOutcome(Moved(run[j], "settle", NoError))
  BY SoundMoves, DatabaseErrors DEF JobsInv
<1>3. QED
  BY <1>1, <1>2, GoesOnTo, DatabaseErrors

\* prepareRetry or fail, and the error that is thrown on.
LEMMA StoreErrorStep ==
  ASSUME JobsInv, NEW j \in Jobs, StoreError(j) PROVE JobsInv'
<1> USE DEF StoreError
<1>1. PICK t : SoundRecord(t) /\ stored' = [stored EXCEPT ![j] = t]
  BY SoundWrite
<1>2. run[j] \in Run /\ run[j].error \in Errors /\ run[j].error.name = "ProcessingError"
  BY DEF JobsInv, Run, SoundJob, SoundOutcome
<1>3. SoundOutcome(Moved(run[j], "settle", Thrown(run[j].error)))
  BY <1>2, SoundMoves, ThrownErrors
<1>4. QED
  BY <1>1, <1>2, <1>3, GoesOnTo, ThrownErrors

\* A MongoDB call throws.
LEMMA DatabaseThrowsStep ==
  ASSUME JobsInv, NEW j \in Jobs, DatabaseThrows(j) PROVE JobsInv'
<1> USE DEF DatabaseThrows
<1>1. PICK t : SoundRecord(t) /\ stored' = [stored EXCEPT ![j] = t]
  BY SoundWrite
<1>2. run[j] \in Run
  BY DEF JobsInv
<1>3. CASE run[j].pc = "attempt"
  <2>1. SoundOutcome(Moved(run[j], "settle", Thrown(InternalError)))
    BY <1>2, SoundMoves, ThrownErrors, DatabaseErrors
  <2>2. QED
    BY <1>1, <1>3, <2>1, GoesOnTo, ThrownErrors, DatabaseErrors
<1>4. CASE run[j].pc = "complete"
  <2>1. SoundOutcome(Moved(run[j], "catch", InternalError))
    BY <1>2, SoundMoves, DatabaseErrors
  <2>2. QED
    BY <1>1, <1>4, <2>1, GoesOnTo, DatabaseErrors
<1>5. CASE run[j].pc = "catch"
  <2>1. SoundOutcome(Moved(run[j], "settle", DriverError))
    BY <1>2, SoundMoves, DatabaseErrors
  <2>2. QED
    BY <1>1, <1>5, <2>1, GoesOnTo, DatabaseErrors
<1>6. QED
  BY <1>3, <1>4, <1>5

\* BullMQ records the outcome of an execution.
LEMMA SettledJobs ==
  ASSUME NEW jb \in Job, jb.state = "active", jb.made < MaxAttempts,
         jb.stalls <= MaxStalledCount, NEW retryable \in BOOLEAN
  PROVE  /\ Succeeded(jb) \in Job /\ Succeeded(jb).state = "completed"
         /\ FailedOnce(jb, retryable) \in Job
         /\ FailedOnce(jb, retryable).made = jb.made + 1
         /\ FailedOnce(jb, retryable).stalls = jb.stalls
         /\ FailedOnce(jb, retryable).state
              = IF retryable /\ jb.made + 1 < MaxAttempts THEN "delayed" ELSE "failed"
<1>1. jb.made + 1 \in 0 .. MaxAttempts
  BY AttemptsAssumption DEF AttemptsAssumption, Job
<1>2. Succeeded(jb) \in Job /\ Succeeded(jb).state = "completed"
  BY DEF Succeeded, Job, Live, Terminal
<1>3. QED
  BY <1>1, <1>2 DEF FailedOnce, RetryAllowed, Job, Live, Terminal

\* An execution that is over leaves nothing to wait for.
LEMMA IdleRuns == IdleRun \in Run /\ IdleRun.pc = "idle" /\ SoundOutcome(IdleRun)
BY DatabaseErrors DEF IdleRun, Run, Places, SoundOutcome

\* BullMQ's record of the outcome, which the report of a failure will agree with.
LEMMA SettleJobStep ==
  ASSUME JobsInv, NEW j \in Jobs, SettleJob(j) PROVE JobsInv'
<1> DEFINE jb == job[j]
           x == run[j]
           s == stored[j]
           l == letter[j]
<1>1. SoundJob(jb, x, s, l) /\ s \in Record /\ l \in Letter
  BY Same DEF JobsInv
<1>2. /\ jb \in Job /\ jb.state = "active"
      /\ jb.made < MaxAttempts /\ jb.stalls <= MaxStalledCount
  BY <1>1 DEF SoundJob, SoundRun, Live, SettleJob
<1>3. x \in Run /\ x.error \in Errors /\ x.error.retryable \in BOOLEAN
  BY <1>1 DEF SoundJob, SoundRun, Run, Errors
<1>4. l.state = "none"
  BY <1>1, <1>2 DEF SoundJob, SoundLetter
<1>5. stored' = [stored EXCEPT ![j] = s] /\ letter' = [letter EXCEPT ![j] = l]
  BY Same DEF SettleJob
<1>6. CASE x.error = NoError
  <2>1. Succeeded(jb) \in Job /\ Succeeded(jb).state = "completed"
    BY <1>2, SettledJobs
  <2>2. SoundJob(Succeeded(jb), IdleRun, s, l)
    BY <1>1, <1>4, <2>1, IdleRuns DEF SoundJob, SoundRun, SoundLetter, Live
  <2>3. job' = [job EXCEPT ![j] = Succeeded(jb)] /\ run' = [run EXCEPT ![j] = IdleRun]
    BY <1>6 DEF JobsInv, SettleJob
  <2>4. QED
    BY <1>5, <2>2, <2>3, OneJob
<1>7. CASE x.error # NoError
  <2> DEFINE after == FailedOnce(jb, x.error.retryable)
             y == [x EXCEPT !.pc = "report"]
  <2>1. /\ after \in Job /\ after.made = jb.made + 1 /\ after.stalls = jb.stalls
        /\ after.state = IF x.error.retryable /\ jb.made + 1 < MaxAttempts
                           THEN "delayed" ELSE "failed"
    BY <1>2, <1>3, SettledJobs
  <2>2. y \in Run /\ y.pc = "report" /\ y.error = x.error
    BY <1>3 DEF Run, Places
  <2>3. x.error.retryable <=> x.error.name # "UnrecoverableError"
    BY <1>1, <1>7 DEF SoundJob, SoundOutcome, SettleJob
  <2>4. after.state = "failed" <=> ~WillRetry(after.made, y.error)
    BY <2>1, <2>2, <2>3 DEF WillRetry
  <2>5. after.state # "active"
        /\ (after.state \in Live => after.made < MaxAttempts /\ after.stalls <= MaxStalledCount)
    BY <1>2, <2>1 DEF Live
  <2> HIDE DEF after, y
  <2>6. SoundRun(after, y) /\ SoundOutcome(y)
    BY <2>1, <2>2, <2>5 DEF SoundRun, SoundOutcome
  <2>7. SoundLetter(after, y, l)
    BY <1>1, <1>4, <2>2, <2>4, <2>5 DEF SoundLetter
  <2>8. SoundJob(after, y, s, l)
    BY <1>1, <2>6, <2>7 DEF SoundJob
  <2>9. job' = [job EXCEPT ![j] = after] /\ run' = [run EXCEPT ![j] = y]
    BY <1>7 DEF JobsInv, after, y, SettleJob
  <2>10. QED
    BY <1>5, <2>8, <2>9, OneJob
<1>8. QED
  BY <1>6, <1>7

\* The handler of failed.
LEMMA ReportFailureStep ==
  ASSUME JobsInv, NEW j \in Jobs, ReportFailure(j) PROVE JobsInv'
<1> DEFINE jb == job[j]
           x == run[j]
           s == stored[j]
           l == letter[j]
           m == IF WillRetry(jb.made, x.error) THEN l
                ELSE [state |-> "due", code |-> ErrorCodeOf(x.error)]
<1>1. SoundJob(jb, x, s, l) /\ l \in Letter /\ x.error \in Errors
  BY Same DEF JobsInv, Run
<1>2. m \in Letter
  BY <1>1, CopiedCodes DEF Letter, Codes
<1>3. SoundRun(jb, IdleRun)
  BY <1>1, IdleRuns DEF SoundJob, SoundRun
<1>4. SoundLetter(jb, IdleRun, m)
  BY <1>1, <1>2, IdleRuns DEF SoundJob, SoundLetter, ReportFailure
<1>5. SoundJob(jb, IdleRun, s, m)
  BY <1>1, <1>3, <1>4, IdleRuns DEF SoundJob
<1>6. letter' = [letter EXCEPT ![j] = m]
  BY DEF Report, JobsInv, ReportFailure
<1>7. /\ job' = [job EXCEPT ![j] = jb] /\ stored' = [stored EXCEPT ![j] = s]
      /\ run' = [run EXCEPT ![j] = IdleRun]
  BY Same DEF ReportFailure
<1> HIDE DEF m
<1>8. QED
  BY <1>5, <1>6, <1>7, OneJob

\* Every step of an execution.
LEMMA JobSteps ==
  ASSUME JobsInv, NEW j \in Jobs, JobStep(j) PROVE JobsInv'
BY StartAttemptStep, ProviderAnswersStep, StoreResultStep, StoreErrorStep,
  DatabaseThrowsStep, SettleJobStep, ReportFailureStep DEF JobStep

-----------------------------------------------------------------------------
(* The other steps of a job.                                               *)

\* A waiting job begins to run.
LEMMA TakeJobStep ==
  ASSUME JobsInv, NEW j \in Jobs, TakeJob(j) PROVE JobsInv'
<1> DEFINE jb == job[j]
           s == stored[j]
           l == letter[j]
           after == Take(jb, j)
           y == [IdleRun EXCEPT !.pc = "attempt"]
<1>1. SoundJob(jb, run[j], s, l) /\ jb \in Job /\ jb.state = "wait"
  BY Same DEF JobsInv, TakeJob
<1>2. jb.started + 1 \in Nat
  BY <1>1 DEF Job
<1>3. after \in Job /\ after.state = "active" /\ after.made = jb.made
      /\ after.stalls = jb.stalls
  BY <1>1, <1>2 DEF Take, Job, Live, Terminal, Jobs
<1>4. y \in Run /\ y.pc = "attempt"
  BY IdleRuns DEF Run, Places
<1> HIDE DEF after, y
<1>5. SoundRun(after, y) /\ SoundOutcome(y)
  BY <1>1, <1>3, <1>4 DEF SoundJob, SoundRun, SoundOutcome, Live
<1>6. SoundLetter(after, y, l)
  BY <1>1, <1>3, <1>4 DEF SoundJob, SoundLetter
<1>7. SoundJob(after, y, s, l)
  BY <1>1, <1>5, <1>6 DEF SoundJob
<1>8. /\ job' = [job EXCEPT ![j] = after] /\ run' = [run EXCEPT ![j] = y]
      /\ stored' = [stored EXCEPT ![j] = s] /\ letter' = [letter EXCEPT ![j] = l]
  BY Same DEF after, y, JobsInv, TakeJob
<1>9. QED
  BY <1>7, <1>8, OneJob

\* A backoff is over.
LEMMA PromoteJobStep ==
  ASSUME JobsInv, NEW j \in Jobs, PromoteJob(j) PROVE JobsInv'
<1> DEFINE jb == job[j]
           x == run[j]
           s == stored[j]
           l == letter[j]
           after == [jb EXCEPT !.state = "wait"]
<1>1. SoundJob(jb, x, s, l) /\ jb \in Job /\ jb.state = "delayed"
  BY Same DEF JobsInv, PromoteJob
<1>2. after \in Job /\ after.state = "wait" /\ after.made = jb.made
      /\ after.stalls = jb.stalls
  BY <1>1 DEF Job, Live, Terminal
<1> HIDE DEF after
<1>3. SoundRun(after, x)
  BY <1>1, <1>2 DEF SoundJob, SoundRun, Live
<1>4. SoundLetter(after, x, l)
  BY <1>1, <1>2 DEF SoundJob, SoundLetter
<1>5. SoundJob(after, x, s, l)
  BY <1>1, <1>3, <1>4 DEF SoundJob
<1>6. /\ job' = [job EXCEPT ![j] = after] /\ run' = [run EXCEPT ![j] = x]
      /\ stored' = [stored EXCEPT ![j] = s] /\ letter' = [letter EXCEPT ![j] = l]
  BY Same DEF after, JobsInv, PromoteJob
<1>7. QED
  BY <1>5, <1>6, OneJob

\* A job that stalled waits again if BullMQ forgives the stall, and else has
\* failed.
LEMMA StalledJobs ==
  ASSUME NEW jb \in Job, jb.state = "active", jb.made < MaxAttempts,
         jb.stalls <= MaxStalledCount
  PROVE  LET after == [Stalled(jb) EXCEPT !.owner = NoExecution] IN
         /\ after \in Job /\ after.made = jb.made
         /\ \/ after.state = "wait" /\ after.stalls <= MaxStalledCount
            \/ after.state = "failed"
<1>1. jb.stalls + 1 \in 0 .. MaxStalledCount + 1
  BY AttemptsAssumption DEF AttemptsAssumption, Job
<1>2. jb.stalls < MaxStalledCount => jb.stalls + 1 <= MaxStalledCount
  BY AttemptsAssumption DEF AttemptsAssumption, Job
<1>3. QED
  BY <1>1, <1>2 DEF Stalled, Job, Live, Terminal

\* A job whose process was killed waits again, or has failed and gets its copy.
LEMMA StalledCheckStep ==
  ASSUME JobsInv, NEW j \in Jobs, StalledCheck(j) PROVE JobsInv'
<1> DEFINE jb == job[j]
           x == run[j]
           s == stored[j]
           l == letter[j]
           after == [Stalled(jb) EXCEPT !.owner = NoExecution]
           copy == [state |-> "due", code |-> ErrorCodeOf(StalledError)]
<1>1. SoundJob(jb, x, s, l) /\ jb \in Job /\ jb.state = "active" /\ x.pc = "idle"
  BY Same DEF JobsInv, StalledCheck
<1>2. /\ after \in Job /\ after.made = jb.made /\ jb.made < MaxAttempts
      /\ \/ after.state = "wait" /\ after.stalls <= MaxStalledCount
         \/ after.state = "failed"
  BY <1>1, StalledJobs DEF SoundJob, SoundRun, Live
<1>3. /\ job' = [job EXCEPT ![j] = after]
      /\ IF after.state = "failed" THEN Report(j, after.made, StalledError)
                                   ELSE UNCHANGED letter
      /\ UNCHANGED <<run, stored>>
  BY DEF StalledCheck
<1> HIDE DEF after
<1>4. SoundRun(after, x)
  BY <1>1, <1>2 DEF SoundJob, SoundRun, Live
<1>5. run' = [run EXCEPT ![j] = x] /\ stored' = [stored EXCEPT ![j] = s]
  BY <1>3, Same
<1>6. CASE after.state = "wait"
  <2>1. SoundJob(after, x, s, l)
    BY <1>1, <1>4, <1>6 DEF SoundJob, SoundLetter
  <2>2. letter' = [letter EXCEPT ![j] = l]
    BY <1>3, <1>6, Same
  <2>3. QED
    BY <1>3, <1>5, <2>1, <2>2, OneJob, ZenonT(40)
<1>7. CASE after.state = "failed"
  <2>1. copy \in Letter
    BY CopiedCodes, DatabaseErrors DEF Letter, Codes
  <2>2. SoundLetter(after, x, copy)
    BY <1>1, <1>7, <2>1 DEF SoundLetter
  <2>3. SoundJob(after, x, s, copy)
    BY <1>1, <1>4, <2>2 DEF SoundJob
  <2>4. ~WillRetry(after.made, StalledError)
    BY DatabaseErrors DEF WillRetry
  <2>5. letter' = [letter EXCEPT ![j] = copy]
    BY <1>3, <1>7, <2>4 DEF Report
  <2> HIDE DEF copy
  <2>6. QED
    BY <1>3, <1>5, <2>3, <2>5, OneJob
<1>8. QED
  BY <1>2, <1>6, <1>7

\* The copy is sent or lost.
LEMMA CopyStep ==
  ASSUME JobsInv, NEW j \in Jobs, SendCopy(j) \/ LoseCopy(j) PROVE JobsInv'
<1> DEFINE jb == job[j]
           x == run[j]
           s == stored[j]
           l == letter[j]
<1>1. SoundJob(jb, x, s, l) /\ l \in Letter /\ l.state = "due"
  BY Same DEF JobsInv, SendCopy, LoseCopy
<1>2. PICK state \in {"sent", "lost"} : letter' = [letter EXCEPT ![j].state = state]
  BY DEF SendCopy, LoseCopy
<1> DEFINE m == [l EXCEPT !.state = state]
<1>3. m \in Letter /\ m.state # "none"
  BY <1>1 DEF Letter
<1>4. letter' = [letter EXCEPT ![j] = m]
  BY <1>2 DEF JobsInv
<1> HIDE DEF m
<1>5. SoundJob(jb, x, s, m)
  BY <1>1, <1>3 DEF SoundJob, SoundLetter
<1>6. /\ job' = [job EXCEPT ![j] = jb] /\ run' = [run EXCEPT ![j] = x]
      /\ stored' = [stored EXCEPT ![j] = s]
  BY Same DEF SendCopy, LoseCopy
<1>7. QED
  BY <1>4, <1>5, <1>6, OneJob

\* The process is killed.
LEMMA KillStep ==
  ASSUME JobsInv, Kill PROVE JobsInv'
<1> USE DEF Kill
<1>1. /\ job' \in [Jobs -> Job] /\ stored' \in [Jobs -> Record]
      /\ run' \in [Jobs -> Run] /\ letter' \in [Jobs -> Letter]
  BY IdleRuns DEF JobsInv, Letter
<1>2. ASSUME NEW j \in Jobs
      PROVE  SoundJob(job'[j], run'[j], stored'[j], letter'[j])
  <2> DEFINE jb == job[j]
             x == run[j]
             l == letter[j]
             m == letter'[j]
  <2>1. SoundJob(jb, x, stored[j], l) /\ l \in Letter
    BY DEF JobsInv
  <2>2. job'[j] = jb /\ stored'[j] = stored[j] /\ run'[j] = IdleRun
    OBVIOUS
  <2>3. \/ m = [l EXCEPT !.state = "lost"]
           /\ (l.state = "due" \/ (x.pc = "report" /\ jb.state = "failed"))
        \/ m = l /\ l.state # "due" /\ ~(x.pc = "report" /\ jb.state = "failed")
    OBVIOUS
  <2>4. m \in Letter /\ (m.state = "none" => l.state = "none" /\ m = l)
    BY <2>1, <2>3 DEF Letter
  <2> HIDE DEF m
  <2>5. SoundRun(jb, IdleRun)
    BY <2>1, IdleRuns DEF SoundJob, SoundRun
  <2>6. m.state # "none" => jb.state = "failed"
    BY <2>1, <2>3 DEF SoundJob, SoundLetter
  <2>7. jb.state = "failed" => m.state # "none"
    BY <2>1, <2>3, <2>4 DEF SoundJob, SoundLetter, Letter
  <2>8. SoundLetter(jb, IdleRun, m)
    BY <2>4, <2>6, <2>7, IdleRuns DEF SoundLetter
  <2>9. SoundJob(jb, IdleRun, stored[j], m)
    BY <2>1, <2>5, <2>8, IdleRuns DEF SoundJob
  <2>10. QED
    BY <2>2, <2>9 DEF m
<1>3. QED
  BY <1>1, <1>2 DEF JobsInv

-----------------------------------------------------------------------------
(* The process.                                                            *)

\* The steps of the process leave the jobs alone.
LEMMA JobsUnchanged ==
  ASSUME JobsInv, UNCHANGED jobVars PROVE JobsInv'
BY DEF JobsInv, jobVars

\* Jobs that were just published, none of which was tried before.
LEMMA JobsInit == Init => JobsInv
<1> SUFFICES ASSUME Init PROVE JobsInv
  OBVIOUS
<1>1. Add(NoJob) \in Job /\ Add(NoJob).state = "wait" /\ Add(NoJob).made = 0
      /\ Add(NoJob).stalls = 0
  BY AttemptsAssumption DEF AttemptsAssumption, Add, NoJob, Job, Live, Terminal
<1>2. NoLetter \in Letter /\ NoLetter.state = "none"
  BY DEF NoLetter, Letter, Codes
<1>3. ASSUME NEW text \in Texts
      PROVE  SoundRecord(NewRecord(text))
  BY DEF SoundRecord, NewRecord, Record, Results, Codes, Statuses
<1>4. SoundRun(Add(NoJob), IdleRun)
  BY <1>1, IdleRuns, AttemptsAssumption DEF AttemptsAssumption, SoundRun
<1>5. SoundLetter(Add(NoJob), IdleRun, NoLetter)
  BY <1>1, <1>2, IdleRuns DEF SoundLetter
<1>6. /\ job = [j \in Jobs |-> Add(NoJob)] /\ run = [j \in Jobs |-> IdleRun]
      /\ letter = [j \in Jobs |-> NoLetter]
      /\ stored \in [Jobs -> {NewRecord(text) : text \in Texts}]
  BY DEF Init
<1>7. ASSUME NEW j \in Jobs PROVE SoundRecord(stored[j])
  BY <1>3, <1>6
<1>8. stored \in [Jobs -> Record]
  BY <1>6, <1>7 DEF SoundRecord
<1>9. ASSUME NEW j \in Jobs PROVE SoundJob(job[j], run[j], stored[j], letter[j])
  BY <1>4, <1>5, <1>6, <1>7, IdleRuns DEF SoundJob
<1>10. QED
  BY <1>1, <1>2, <1>6, <1>8, <1>9, IdleRuns DEF JobsInv

\* Every step keeps what holds of each job.
LEMMA JobsNext == JobsInv /\ [Next]_vars => JobsInv'
<1> SUFFICES ASSUME JobsInv, [Next]_vars PROVE JobsInv'
  OBVIOUS
<1>1. CASE ProcessStep \/ Signal
  BY <1>1, JobsUnchanged DEF ProcessStep, Signal, Connected, BootstrapFails, WorkerReady, CloseNext
<1>2. CASE Kill
  BY <1>2, KillStep
<1>3. ASSUME NEW j \in Jobs,
             \/ JobStep(j) \/ TakeJob(j) \/ PromoteJob(j) \/ StalledCheck(j)
             \/ SendCopy(j) \/ LoseCopy(j)
      PROVE  JobsInv'
  BY <1>3, JobSteps, TakeJobStep, PromoteJobStep, StalledCheckStep, CopyStep
<1>4. CASE UNCHANGED vars
  BY <1>4, JobsUnchanged DEF vars, jobVars
<1>5. QED
  BY <1>1, <1>2, <1>3, <1>4 DEF Next

\* What holds of each job holds always.
LEMMA JobsAlways == Spec => []JobsInv
BY JobsInit, JobsNext, PTL DEF Spec

\* The worker's reading of a failure (describeJobFailure) is the queue's, for
\* every number of attempts and of forgiven stalls, under every fault: a copy is
\* made if and only if BullMQ gave the job up.
THEOREM CopiesAgree == Spec => []CopiedIffGivenUp
<1>1. JobsInv => CopiedIffGivenUp
  BY DEF JobsInv, SoundJob, SoundLetter, CopiedIffGivenUp
<1>2. QED
  BY <1>1, JobsAlways, PTL

\* No result is stored that does not fit the schema, whatever the provider
\* replies and the database does.
THEOREM ResultsFit == Spec => []StoredResultsFitTheSchema
<1>1. JobsInv => StoredResultsFitTheSchema
  BY DEF JobsInv, SoundJob, SoundRecord, StoredResultsFitTheSchema
<1>2. QED
  BY <1>1, JobsAlways, PTL

-----------------------------------------------------------------------------
(* What a brief is told of an error, and what becomes of its job.          *)

\* From the reply of the provider to the report of the failure an error stays
\* the reply's own -- but for one of the worker or of its database -- and from
\* the catch block on the brief has its code.
ErrorTold(x, s) ==
  /\ x.pc = "provider" => x.reply \in Replies /\ s.result = NoResult
  /\ x.pc = "catch" /\ x.error # InternalError =>
       x.reply \in Replies /\ s.result = NoResult /\ x.error = ReplyError(x.reply)
  /\ x.pc = "report" => x.error # NoError
  /\ x.pc \in {"settle", "report"} /\ x.error \notin {NoError, InternalError, DriverError} =>
       /\ x.reply \in Replies
       /\ ReplyError(x.reply) # NoError
       /\ x.error = Thrown(ReplyError(x.reply))
       /\ s.code = ReplyError(x.reply).code

ToldInv == \A j \in Jobs : ErrorTold(run[j], stored[j])

\* An error that a reply causes names a code of the application's, and its
\* attempt may be repeated if and only if the reply was a recoverable one.
LEMMA ReplyErrors ==
  ASSUME NEW reply \in Replies, ReplyError(reply) # NoError
  PROVE  /\ ReplyError(reply).code # "none"
         /\ ReplyError(reply).prefix = "none"
         /\ ReplyError(reply).retryable <=> Recoverable(reply)
<1> DEFINE IsError(error, retryable) ==
      error.code # "none" /\ error.prefix = "none" /\ error.retryable = retryable
<1>1. ASSUME NEW code \in ErrorCodes, NEW retryable \in BOOLEAN
      PROVE  IsError(ProcessingError(code, retryable), retryable)
  BY DEF ProcessingError, Error, ErrorCodes
<1>2. /\ {"LLM_AUTH_ERROR", "LLM_TIMEOUT", "LLM_RATE_LIMITED", "LLM_UNAVAILABLE",
          "LLM_REQUEST_INVALID", "LLM_INVALID_RESPONSE"} \subseteq ErrorCodes
  BY DEF ErrorCodes
<1>3. /\ reply.fetched \in {"never", "refused", "answered"}
      /\ reply.fetched = "answered" => reply.status \in 200 .. 599
  BY RepliesAssumption DEF RepliesAssumption
<1> HIDE DEF IsError
<1>4. CASE reply.fetched # "answered"
  <2>1. Recoverable(reply)
    BY <1>4 DEF Recoverable
  <2>2. IsError(ReplyError(reply), TRUE)
    <3>1. \/ ReplyError(reply) = ProcessingError("LLM_TIMEOUT", TRUE)
          \/ ReplyError(reply) = ProcessingError("LLM_UNAVAILABLE", TRUE)
      BY <1>3, <1>4 DEF ReplyError
    <3>2. QED
      BY <1>1, <1>2, <3>1
  <2>3. QED
    BY <2>1, <2>2 DEF IsError
<1>5. CASE reply.fetched = "answered" /\ reply.status \in 200 .. 299
  <2>1. Recoverable(reply)
    BY <1>5 DEF Recoverable
  <2>2. IsError(ReplyError(reply), TRUE)
    BY <1>1, <1>2, <1>5, ZenonT(40) DEF ReplyError
  <2>3. QED
    BY <2>1, <2>2 DEF IsError
<1>6. CASE reply.fetched = "answered" /\ reply.status \notin 200 .. 299
  <2> DEFINE status == reply.status
  <2>1. ReplyError(reply) = HttpError(status)
    BY <1>6 DEF ReplyError
  <2>2. Recoverable(reply) <=> status \in {408, 429} \/ status >= 500
    BY <1>3, <1>6 DEF Recoverable
  <2>3. status \in {401, 403} => status \notin {408, 429} /\ ~(status >= 500)
    BY <1>3, <1>6
  <2>4. CASE status \in {408, 429} \/ status >= 500
    <3>1. \/ HttpError(status) = ProcessingError("LLM_TIMEOUT", TRUE)
          \/ HttpError(status) = ProcessingError("LLM_RATE_LIMITED", TRUE)
          \/ HttpError(status) = ProcessingError("LLM_UNAVAILABLE", TRUE)
      <4>1. status \in Int
        BY <1>3, <1>6
      <4>2. CASE status = 408
        BY <4>2 DEF HttpError
      <4>3. CASE status = 429
        BY <4>3 DEF HttpError
      <4>4. CASE status >= 500
        <5>1. status \notin {401, 403} /\ status # 408 /\ status # 429
          BY <4>1, <4>4
        <5>2. QED
          BY <4>4, <5>1, ZenonT(60) DEF HttpError
      <4>5. QED
        BY <2>4, <4>2, <4>3, <4>4
    <3>2. IsError(HttpError(status), TRUE)
      BY <1>1, <1>2, <3>1
    <3>3. QED
      BY <2>1, <2>2, <2>4, <3>2 DEF IsError
  <2>5. CASE ~(status \in {408, 429} \/ status >= 500)
    <3>1. \/ HttpError(status) = ProcessingError("LLM_AUTH_ERROR", FALSE)
          \/ HttpError(status) = ProcessingError("LLM_REQUEST_INVALID", FALSE)
      <4>1. status # 408 /\ status # 429 /\ ~(status >= 500)
        BY <2>5
      <4>2. QED
        BY <4>1, ZenonT(60) DEF HttpError
    <3>2. IsError(HttpError(status), FALSE)
      BY <1>1, <1>2, <3>1
    <3>3. QED
      BY <2>1, <2>2, <2>5, <3>2 DEF IsError
  <2>6. QED
    BY <2>4, <2>5
<1>7. QED
  BY <1>3, <1>4, <1>5, <1>6

\* Thrown, the error is known by the same code, and is BullMQ's to repeat as
\* before.
LEMMA ThrownTells ==
  ASSUME NEW error, error.code # "none", error.prefix = "none", error.retryable \in BOOLEAN
  PROVE  /\ ErrorCodeOf(Thrown(error)) = error.code
         /\ Thrown(error).retryable = error.retryable
<1>1. CASE error.retryable
  BY <1>1 DEF Thrown, ErrorCodeOf
<1>2. CASE ~error.retryable
  <2>1. Thrown(error) = Error("UnrecoverableError", "none", error.code, FALSE)
    BY <1>2 DEF Thrown
  <2>2. /\ Thrown(error).code = "none" /\ Thrown(error).prefix = error.code
        /\ Thrown(error).retryable = FALSE
    BY <2>1 DEF Error
  <2>3. error.retryable = FALSE
    BY <1>2
  <2>4. QED
    BY <2>2, <2>3 DEF ErrorCodeOf
<1>3. QED
  BY <1>1, <1>2

\* There is nothing to tell at the other steps of an execution, and of the
\* worker's own errors.
LEMMA NothingToTell ==
  ASSUME NEW x, NEW s
  PROVE  /\ x.pc \in {"idle", "attempt", "complete"} => ErrorTold(x, s)
         /\ x.pc = "catch" /\ x.error = InternalError => ErrorTold(x, s)
         /\ x.pc = "settle" /\ x.error \in {NoError, InternalError, DriverError}
              => ErrorTold(x, s)
BY DEF ErrorTold

\* A step of one job tells the brief of no other one anything.
LEMMA OneTold ==
  ASSUME JobsInv, ToldInv, NEW j \in Jobs, NEW x, NEW s, ErrorTold(x, s),
         run' = [run EXCEPT ![j] = x], stored' = [stored EXCEPT ![j] = s]
  PROVE  ToldInv'
BY DEF JobsInv, ToldInv

\* The same, by RunGoes, with nothing to tell.
LEMMA GoesOnUntold ==
  ASSUME JobsInv, ToldInv, NEW j \in Jobs, NEW pc, NEW error,
         RunGoes(j, pc, error), Write(j) \/ UNCHANGED stored,
         \/ pc = "complete"
         \/ pc = "catch" /\ error = InternalError
         \/ pc = "settle" /\ error \in {NoError, InternalError, DriverError}
  PROVE  ToldInv'
<1> DEFINE y == Moved(run[j], pc, error)
<1>1. run[j] \in Run /\ run' = [run EXCEPT ![j] = y]
  BY RunGoesTo DEF JobsInv
<1>2. y.pc = pc /\ y.error = error
  BY <1>1 DEF Moved, Run
<1>3. PICK t : stored' = [stored EXCEPT ![j] = t]
  BY Same DEF Write
<1> HIDE DEF y
<1>4. ErrorTold(y, t)
  BY <1>2, NothingToTell
<1>5. QED
  BY <1>1, <1>3, <1>4, OneTold

\* The brief that is claimed has no result; the reply is yet to come.
LEMMA StartAttemptTells ==
  ASSUME JobsInv, ToldInv, NEW j \in Jobs, StartAttempt(j) PROVE ToldInv'
<1> USE DEF StartAttempt
<1>1. run[j] \in Run /\ stored[j] \in Record /\ stored' = [stored EXCEPT ![j] = Written(j)]
  BY DEF JobsInv, Write
<1>2. CASE RunGoes(j, "settle", NoError)
  BY <1>2, GoesOnUntold
<1>3. ASSUME NEW reply \in Replies, stored[j].status # "COMPLETED",
             run' = [run EXCEPT ![j].pc = "provider", ![j].reply = reply]
      PROVE  ToldInv'
  <2> DEFINE y == [run[j] EXCEPT !.pc = "provider", !.reply = reply]
  <2>1. run' = [run EXCEPT ![j] = y] /\ y.pc = "provider" /\ y.reply = reply
    BY <1>1, <1>3 DEF JobsInv, Run
  <2>2. Written(j).result = NoResult
    BY <1>1, <1>3, Updates DEF JobsInv, SoundJob, SoundRecord, Written
  <2> HIDE DEF y
  <2>3. ErrorTold(y, Written(j))
    BY <2>1, <2>2 DEF ErrorTold
  <2>4. QED
    BY <1>1, <2>1, <2>3, OneTold
<1>4. ASSUME run' = [run EXCEPT ![j].pc = "complete", ![j].reply = Answer(OwnResult)]
      PROVE  ToldInv'
  <2> DEFINE y == [run[j] EXCEPT !.pc = "complete", !.reply = Answer(OwnResult)]
  <2>1. run' = [run EXCEPT ![j] = y] /\ y.pc = "complete"
    BY <1>1, <1>4 DEF JobsInv, Run
  <2> HIDE DEF y
  <2>2. QED
    BY <1>1, <2>1, NothingToTell, OneTold
<1>5. QED
  BY <1>2, <1>3, <1>4

\* The error of a reply is caught.
LEMMA ProviderAnswersTells ==
  ASSUME JobsInv, ToldInv, NEW j \in Jobs, ProviderAnswers(j) PROVE ToldInv'
<1> DEFINE x == run[j]
           error == ReplyError(x.reply)
<1>1. /\ x \in Run /\ x.pc = "provider" /\ UNCHANGED stored
      /\ RunGoes(j, IF error = NoError THEN "complete" ELSE "catch", error)
  BY DEF JobsInv, ProviderAnswers
<1>2. CASE error = NoError
  BY <1>1, <1>2, GoesOnUntold
<1>3. CASE error # NoError
  <2> DEFINE y == Moved(x, "catch", error)
  <2>1. run' = [run EXCEPT ![j] = y] /\ stored' = [stored EXCEPT ![j] = stored[j]]
    BY <1>1, <1>3, RunGoesTo, Same
  <2>2. y.pc = "catch" /\ y.error = error /\ y.reply = x.reply
    BY <1>1 DEF Moved, Run
  <2>3. x.reply \in Replies /\ stored[j].result = NoResult
    BY <1>1 DEF ToldInv, ErrorTold
  <2> HIDE DEF y
  <2>4. ErrorTold(y, stored[j])
    BY <2>2, <2>3 DEF ErrorTold
  <2>5. QED
    BY <2>1, <2>4, OneTold
<1>4. QED
  BY <1>2, <1>3

\* It is stored, and thrown on.
LEMMA StoreErrorTells ==
  ASSUME JobsInv, ToldInv, NEW j \in Jobs, StoreError(j) PROVE ToldInv'
<1> DEFINE x == run[j]
           s == stored[j]
<1>1. /\ x \in Run /\ x.pc = "catch" /\ s \in Record /\ Write(j)
      /\ RunGoes(j, "settle", Thrown(x.error))
  BY DEF JobsInv, StoreError
<1>2. CASE x.error = InternalError
  <2>1. Thrown(InternalError) = InternalError
    BY DEF Thrown, InternalError, ProcessingError, Error
  <2>2. QED
    BY <1>1, <1>2, <2>1, GoesOnUntold
<1>3. CASE x.error # InternalError
  <2> DEFINE y == Moved(x, "settle", Thrown(x.error))
             t == Written(j)
  <2>1. x.reply \in Replies /\ s.result = NoResult /\ x.error = ReplyError(x.reply)
    BY <1>1, <1>3 DEF ToldInv, ErrorTold
  <2>2. x.error # NoError
    BY <1>1, DatabaseErrors DEF JobsInv, SoundJob, SoundOutcome, NoError, Error
  <2>3. t.code = x.error.code
    BY <1>1, <2>1, Updates DEF JobsInv, SoundJob, SoundRecord, Written
  <2>4. y.pc = "settle" /\ y.error = Thrown(x.error) /\ y.reply = x.reply
    BY <1>1 DEF Moved, Run
  <2>5. run' = [run EXCEPT ![j] = y] /\ stored' = [stored EXCEPT ![j] = t]
    BY <1>1, RunGoesTo DEF Write
  <2> HIDE DEF y, t
  <2>6. ErrorTold(y, t)
    BY <2>1, <2>2, <2>3, <2>4 DEF ErrorTold
  <2>7. QED
    BY <2>5, <2>6, OneTold
<1>4. QED
  BY <1>2, <1>3

\* A MongoDB call throws: the error is the worker's or the driver's own.
LEMMA DatabaseThrowsTells ==
  ASSUME JobsInv, ToldInv, NEW j \in Jobs, DatabaseThrows(j) PROVE ToldInv'
<1>1. Thrown(InternalError) = InternalError
  BY DEF Thrown, InternalError, ProcessingError, Error
<1>2. PICK pc, error :
        /\ RunGoes(j, pc, error)
        /\ \/ pc = "catch" /\ error = InternalError
           \/ pc = "settle" /\ error \in {InternalError, DriverError}
  BY <1>1 DEF DatabaseThrows
<1>3. Write(j) \/ UNCHANGED stored
  BY DEF DatabaseThrows
<1>4. QED
  BY <1>2, <1>3, GoesOnUntold

\* BullMQ records the outcome: the error goes to the handler of failed as it is.
LEMMA SettleJobTells ==
  ASSUME JobsInv, ToldInv, NEW j \in Jobs, SettleJob(j) PROVE ToldInv'
<1> DEFINE x == run[j]
<1>1. x \in Run /\ x.pc = "settle" /\ stored' = [stored EXCEPT ![j] = stored[j]]
  BY Same DEF JobsInv, SettleJob
<1>2. CASE x.error = NoError
  <2>1. run' = [run EXCEPT ![j] = IdleRun]
    BY <1>2 DEF SettleJob
  <2>2. QED
    BY <1>1, <2>1, IdleRuns, NothingToTell, OneTold
<1>3. CASE x.error # NoError
  <2> DEFINE y == [x EXCEPT !.pc = "report"]
  <2>1. run' = [run EXCEPT ![j] = y]
    BY <1>3 DEF JobsInv, SettleJob
  <2>2. y.pc = "report" /\ y.error = x.error /\ y.reply = x.reply
    BY <1>1 DEF Run
  <2>3. ErrorTold(x, stored[j])
    BY DEF ToldInv
  <2> HIDE DEF y
  <2>4. ErrorTold(y, stored[j])
    BY <1>1, <1>3, <2>2, <2>3 DEF ErrorTold
  <2>5. QED
    BY <1>1, <2>1, <2>4, OneTold
<1>4. QED
  BY <1>2, <1>3

\* Every step keeps what is told.
LEMMA ToldNext == JobsInv /\ ToldInv /\ [Next]_vars => ToldInv'
<1> SUFFICES ASSUME JobsInv, ToldInv, [Next]_vars PROVE ToldInv'
  OBVIOUS
<1>1. CASE UNCHANGED <<run, stored>>
  BY <1>1 DEF ToldInv
<1>2. CASE Kill
  BY <1>2, IdleRuns, NothingToTell DEF Kill, ToldInv
<1>3. ASSUME NEW j \in Jobs, JobStep(j) \/ TakeJob(j) PROVE ToldInv'
  <2>1. CASE StoreResult(j)
    BY <2>1, GoesOnUntold DEF StoreResult
  <2>2. CASE ReportFailure(j) \/ TakeJob(j)
    <3>1. PICK y \in {IdleRun, [IdleRun EXCEPT !.pc = "attempt"]} :
            run' = [run EXCEPT ![j] = y] /\ stored' = [stored EXCEPT ![j] = stored[j]]
      BY <2>2, Same DEF ReportFailure, TakeJob
    <3>2. y.pc \in {"idle", "attempt"}
      BY IdleRuns DEF Run
    <3>3. QED
      BY <3>1, <3>2, NothingToTell, OneTold
  <2>3. QED
    BY <1>3, <2>1, <2>2, StartAttemptTells, ProviderAnswersTells, StoreErrorTells,
      DatabaseThrowsTells, SettleJobTells DEF JobStep
<1>4. ASSUME NEW j \in Jobs,
             PromoteJob(j) \/ StalledCheck(j) \/ SendCopy(j) \/ LoseCopy(j)
      PROVE  UNCHANGED <<run, stored>>
  BY <1>4 DEF PromoteJob, StalledCheck, SendCopy, LoseCopy
<1>5. ProcessStep \/ Signal \/ UNCHANGED vars => UNCHANGED <<run, stored>>
  BY DEF ProcessStep, Signal, Connected, BootstrapFails, WorkerReady, CloseNext, jobVars, vars
<1>6. QED
  BY <1>1, <1>2, <1>3, <1>4, <1>5 DEF Next

\* What is told is right always.
LEMMA ToldAlways == Spec => []ToldInv
<1>1. Init => ToldInv
  BY IdleRuns, NothingToTell DEF Init, ToldInv
<1>2. JobsInv /\ ToldInv /\ [Next]_vars => ToldInv'
  BY ToldNext
<1>3. QED
  BY <1>1, <1>2, JobsAlways, PTL DEF Spec

\* Where the failure of an analysis is reported, the code that the log and the
\* dead-letter copy get (errorLogFields, of what BullMQ hands to the handler) is
\* the one that prepareRetry or fail stored in the brief, in whatever way the
\* provider failed, wherever the process was killed before and MongoDB threw.
THEOREM CopiesNameTheError == Spec => []CopyNamesTheError
<1>1. ToldInv => CopyNamesTheError
  <2> SUFFICES ASSUME ToldInv, NEW j \in Jobs, run[j].pc = "report",
                      run[j].error \notin {InternalError, DriverError}
               PROVE  ErrorCodeOf(run[j].error) = stored[j].code
    BY DEF CopyNamesTheError
  <2> DEFINE error == ReplyError(run[j].reply)
  <2>1. /\ run[j].reply \in Replies /\ error # NoError
        /\ run[j].error = Thrown(error) /\ stored[j].code = error.code
    BY DEF ToldInv, ErrorTold
  <2>2. error.code # "none" /\ error.prefix = "none" /\ error.retryable \in BOOLEAN
    BY <2>1, ReplyErrors, AnalysisErrors DEF Errors
  <2>3. QED
    BY <2>1, <2>2, ThrownTells
<1>2. QED
  BY <1>1, ToldAlways, PTL

\* BullMQ repeats a job after every reply of the provider that the README calls
\* recoverable, as long as the job has attempts left, and after no other.
THEOREM RepetitionIsJustified == Spec => []RepeatedForGoodReason
<1>1. JobsInv /\ ToldInv => RepeatedForGoodReason
  <2> SUFFICES ASSUME JobsInv, ToldInv, NEW j \in Jobs, run[j].pc = "report",
                      run[j].error \notin {InternalError, DriverError}
               PROVE  job[j].state # "failed"
                        <=> (Recoverable(run[j].reply) /\ job[j].made < MaxAttempts)
    BY DEF RepeatedForGoodReason
  <2> DEFINE error == ReplyError(run[j].reply)
  <2>1. run[j].reply \in Replies /\ error # NoError /\ run[j].error = Thrown(error)
    BY DEF ToldInv, ErrorTold
  <2>2. error \in Errors /\ error.name = "ProcessingError"
    BY <2>1, AnalysisErrors
  <2>3. /\ error.code # "none" /\ error.prefix = "none" /\ error.retryable \in BOOLEAN
        /\ error.retryable <=> Recoverable(run[j].reply)
    BY <2>1, <2>2, ReplyErrors DEF Errors
  <2>4. run[j].error.name # "UnrecoverableError" <=> Recoverable(run[j].reply)
    BY <2>1, <2>2, <2>3, ThrownErrors, ThrownTells
  <2>5. job[j].state = "failed" <=> ~WillRetry(job[j].made, run[j].error)
    BY DEF JobsInv, SoundJob, SoundLetter
  <2>6. QED
    BY <2>4, <2>5 DEF WillRetry
<1>2. QED
  BY <1>1, JobsAlways, ToldAlways, PTL

-----------------------------------------------------------------------------
(* What a user sees of a brief while its job is worked on.                 *)

\* While the provider is asked and its result is stored the brief is claimed;
\* an error that is caught has a code.
Attended(x, s) ==
  /\ x.pc \in {"provider", "complete"} => s.status = "PROCESSING"
  /\ x.pc = "catch" => s.status \in {"PROCESSING", "COMPLETED"} /\ x.error.code # "none"

AttendedInv == \A j \in Jobs : Attended(run[j], stored[j])

\* UnderAnalysis, of an execution.
Under(x) == IF x.pc \in {"provider", "complete"} THEN 1 ELSE 0

\* The steps of BriefLifecycle that a job makes, of a stored brief.
Claims(s, t, a, a1) ==
  /\ s.status # "COMPLETED" /\ a = 0 /\ a1 \in {0, 1}
  /\ t.status = "PROCESSING" /\ t.code = "none" /\ t.result = NoResult

Finishes(s, t, a, a1) ==
  /\ s.status = "PROCESSING" /\ a = 1 /\ a1 = 0
  /\ t.status = "COMPLETED" /\ t.code = "none" /\ FitsSchema(t.result)

GivesUpOrBack(s, t, a, a1) ==
  /\ s.status = "PROCESSING" /\ a = 0 /\ a1 = 0
  /\ t.code # "none" /\ t.result = NoResult
  /\ \/ t.status = "PENDING" /\ t.retryable
     \/ t.status = "FAILED"

Follows(s, t, a, a1) ==
  \/ t = s /\ a1 \in {a, 0}
  \/ Claims(s, t, a, a1)
  \/ Finishes(s, t, a, a1)
  \/ GivesUpOrBack(s, t, a, a1)

\* A brief as a user sees it: its text is the first and only one.
View(status, outcome, of, error) ==
  [status |-> status, content |-> 1, outcome |-> outcome, of |-> of,
   error |-> error, stale |-> FALSE]

\* Brief, of what is stored.
Shown(s) ==
  View(s.status, s.result.outcome, IF s.result = NoResult THEN 0 ELSE 1,
       IF s.code = "none" THEN "none" ELSE IF s.retryable THEN "retryable" ELSE "final")

\* What is seen is about stored and run alone, now and after a step.
LEMMA ShownNowAndNext ==
  ASSUME NEW j
  PROVE  /\ Brief(j) = Shown(stored[j]) /\ Brief(j)' = Shown(stored'[j])
         /\ UnderAnalysis(j) = Under(run[j]) /\ UnderAnalysis(j)' = Under(run'[j])
BY DEF Brief, Shown, View, UnderAnalysis, Under

\* A document of BriefLifecycle with these fields, of the only text.
IsSeen(j, d, status, outcome, of, error) ==
  /\ d \in Lifecycle(j)!Document
  /\ d.status = status /\ d.content = 1 /\ d.outcome = outcome
  /\ d.of = of /\ d.error = error /\ d.stale = FALSE

\* There is only one.
LEMMA SeenOnce ==
  ASSUME NEW j, NEW d, NEW e, NEW status, NEW outcome, NEW of, NEW error,
         IsSeen(j, d, status, outcome, of, error), IsSeen(j, e, status, outcome, of, error)
  PROVE  d = e
BY DEF IsSeen, Lifecycle!Document

\* What the updates of BriefLifecycle make of it.
LEMMA SeenMoved ==
  ASSUME NEW j, NEW d, NEW status, NEW outcome, NEW of, NEW error,
         IsSeen(j, d, status, outcome, of, error),
         NEW to \in Statuses, NEW err \in {"none", "retryable", "final"}
  PROVE  IsSeen(j, Lifecycle(j)!Moved(d, to, err), to, outcome, of, err)
BY DEF IsSeen, Statuses, Lifecycle!Document, Lifecycle!Stored, Lifecycle!Errors,
       Lifecycle!Moved

LEMMA SeenEmptied ==
  ASSUME NEW j, NEW d, NEW status, NEW outcome, NEW of, NEW error,
         IsSeen(j, d, status, outcome, of, error)
  PROVE  IsSeen(j, Lifecycle(j)!Emptied(d), status, "none", 0, error)
BY DEF IsSeen, Lifecycle!Document, Lifecycle!Emptied

LEMMA SeenCompleted ==
  ASSUME NEW j, NEW d, NEW outcome, NEW of, NEW error, NEW o \in Lifecycle(j)!Outcomes,
         IsSeen(j, d, "PROCESSING", outcome, of, error)
  PROVE  IsSeen(j, Lifecycle(j)!Complete(d, o, 1), "COMPLETED", o, 1, "none")
<1> DEFINE m == Lifecycle(j)!Moved(d, "COMPLETED", "none")
<1>1. Lifecycle(j)!Complete(d, o, 1) = [m EXCEPT !.outcome = o, !.of = 1]
  BY DEF IsSeen, Lifecycle!Complete
<1>2. IsSeen(j, m, "COMPLETED", outcome, of, "none")
  BY SeenMoved DEF Statuses
<1> HIDE DEF m
<1>3. QED
  BY <1>1, <1>2 DEF IsSeen, Lifecycle!Document

LEMMA SeenVisible ==
  ASSUME NEW j, NEW d, NEW status, NEW outcome, NEW of, NEW error,
         IsSeen(j, d, status, outcome, of, error)
  PROVE  IsSeen(j, Lifecycle(j)!Visible(d), status, outcome, of, error)
BY DEF IsSeen, Lifecycle!Document, Lifecycle!Visible

\* What is shown of a stored brief.
ShownOf(s) == IF s.result = NoResult THEN 0 ELSE 1
ShownError(s) ==
  IF s.code = "none" THEN "none" ELSE IF s.retryable THEN "retryable" ELSE "final"

LEMMA ShownFields ==
  ASSUME NEW j, NEW s, SoundRecord(s)
  PROVE  /\ IsSeen(j, Shown(s), s.status, s.result.outcome, ShownOf(s), ShownError(s))
         /\ s.status \in Statuses
         /\ s.result = NoResult => s.result.outcome = "none"
         /\ s.result # NoResult => s.result.outcome \in {"ANALYZED", "INSUFFICIENT_BRIEF"}
<1>1. s.status \in Statuses
  BY DEF SoundRecord, Record
<1>2. s.result = NoResult => s.result.outcome = "none"
  BY DEF NoResult
<1>3. s.result # NoResult => s.result.outcome \in {"ANALYZED", "INSUFFICIENT_BRIEF"}
  BY DEF SoundRecord, FitsSchema, StringsOf
<1>4. ASSUME NEW status \in Statuses, NEW o \in {"none", "ANALYZED", "INSUFFICIENT_BRIEF"},
             NEW f \in {0, 1}, NEW e \in {"none", "retryable", "final"}
      PROVE  IsSeen(j, View(status, o, f, e), status, o, f, e)
  BY DEF IsSeen, View, Statuses, Lifecycle!Document, Lifecycle!Stored, Lifecycle!Absent,
         Lifecycle!Outcomes, Lifecycle!Errors
<1>5. Shown(s) = View(s.status, s.result.outcome, ShownOf(s), ShownError(s))
  BY DEF Shown, ShownOf, ShownError
<1>6. ShownOf(s) \in {0, 1} /\ ShownError(s) \in {"none", "retryable", "final"}
  BY DEF ShownOf, ShownError
<1>7. s.result.outcome \in {"none", "ANALYZED", "INSUFFICIENT_BRIEF"}
  BY <1>2, <1>3
<1>8. IsSeen(j, Shown(s), s.status, s.result.outcome, ShownOf(s), ShownError(s))
  BY <1>1, <1>4, <1>5, <1>6, <1>7
<1>9. QED
  BY <1>1, <1>2, <1>3, <1>8

\* A job that follows makes a step of BriefLifecycle or one nobody sees.
LEMMA FollowedStep ==
  ASSUME NEW j, SoundRecord(stored[j]), SoundRecord(stored'[j]),
         Follows(stored[j], stored'[j], Under(run[j]), Under(run'[j]))
  PROVE  Lifecycle(j)!Step
<1> DEFINE s == stored[j]
           t == stored'[j]
           d == Shown(s)
           e == Shown(t)
           a == Under(run[j])
           b == Under(run'[j])
<1>1. Brief(j) = d /\ Brief(j)' = e /\ UnderAnalysis(j) = a /\ UnderAnalysis(j)' = b
  BY ShownNowAndNext
<1>2. /\ IsSeen(j, d, s.status, s.result.outcome, ShownOf(s), ShownError(s))
      /\ IsSeen(j, e, t.status, t.result.outcome, ShownOf(t), ShownError(t))
  BY ShownFields
<1>3. d.status = s.status /\ d.content = 1 /\ s.status \in Statuses
  BY <1>2, ShownFields DEF IsSeen
<1>4. ASSUME s.status # "COMPLETED" PROVE Lifecycle(j)!Claimable(d)
  BY <1>3, <1>4 DEF Statuses, Lifecycle!Claimable, Lifecycle!Exists, Lifecycle!Stored
<1>5. /\ t.result = NoResult => t.result.outcome = "none" /\ ShownOf(t) = 0
      /\ t.code = "none" => ShownError(t) = "none"
      /\ t.code # "none" => ShownError(t) = IF t.retryable THEN "retryable" ELSE "final"
  BY ShownFields DEF ShownOf, ShownError
<1> HIDE DEF d, e
<1>6. CASE t = s /\ b \in {a, 0}
  <2>1. e = d
    BY <1>6 DEF d, e
  <2> HIDE DEF a, b
  <2>2. CASE b = a
    BY <1>1, <2>1, <2>2 DEF Lifecycle!Step
  <2>3. CASE b # a
    <3>1. a # 0 /\ b = 0
      BY <1>6, <2>3
    <3>2. Lifecycle(j)!Abandon
      BY <1>1, <2>1, <3>1 DEF Lifecycle!Abandon, Lifecycle!Nothing
    <3>3. QED
      BY <3>2 DEF Lifecycle!Step, Lifecycle!Next
  <2>4. QED
    BY <2>2, <2>3
<1>7. CASE Claims(s, t, a, b)
  <2> DEFINE w == Lifecycle(j)!Visible(Lifecycle(j)!StartAttempt(d))
  <2>1. Lifecycle(j)!Claimable(d)
    BY <1>4, <1>7 DEF Claims
  <2>2. Lifecycle(j)!StartAttempt(d)
          = Lifecycle(j)!Emptied(Lifecycle(j)!Moved(d, "PROCESSING", "none"))
    BY <2>1 DEF Lifecycle!StartAttempt
  <2>3. IsSeen(j, Lifecycle(j)!Moved(d, "PROCESSING", "none"), "PROCESSING",
               s.result.outcome, ShownOf(s), "none")
    BY <1>2, SeenMoved DEF Statuses
  <2>4. IsSeen(j, w, "PROCESSING", "none", 0, "none")
    BY <2>2, <2>3, SeenEmptied, SeenVisible
  <2>5. IsSeen(j, e, "PROCESSING", "none", 0, "none")
    BY <1>2, <1>5, <1>7 DEF Claims
  <2> HIDE DEF w
  <2>6. e = w
    BY <2>4, <2>5, SeenOnce
  <2>7. a = 0 /\ b \in {0, 1}
    BY <1>7 DEF Claims
  <2> HIDE DEF a, b
  <2>8. Lifecycle(j)!Claim
    BY <1>1, <1>3, <2>1, <2>6, <2>7 DEF w, Lifecycle!Claim, Lifecycle!Nothing
  <2>9. QED
    BY <2>8 DEF Lifecycle!Step, Lifecycle!Next
<1>8. CASE Finishes(s, t, a, b)
  <2> DEFINE outcome == t.result.outcome
             w == Lifecycle(j)!Visible(Lifecycle(j)!Complete(d, outcome, a))
  <2>1. a = 1 /\ b = 0 /\ s.status = "PROCESSING"
    BY <1>8 DEF Finishes
  <2>2. t.result # NoResult
    BY <1>8, ResultsAreResults DEF Finishes
  <2>3. outcome \in Lifecycle(j)!Outcomes
    BY <2>2, ShownFields DEF Lifecycle!Outcomes
  <2>4. IsSeen(j, e, "COMPLETED", outcome, 1, "none")
    BY <1>2, <1>5, <1>8, <2>2 DEF Finishes, ShownOf
  <2> HIDE DEF outcome
  <2>5. IsSeen(j, d, "PROCESSING", s.result.outcome, ShownOf(s), ShownError(s))
    BY <1>2, <2>1
  <2>6. IsSeen(j, w, "COMPLETED", outcome, 1, "none")
    BY <2>1, <2>3, <2>5, SeenCompleted, SeenVisible
  <2> HIDE DEF w
  <2>7. e = w
    BY <2>4, <2>6, SeenOnce
  <2> HIDE DEF a, b
  <2>8. Lifecycle(j)!Finish
    BY <1>1, <1>3, <2>1, <2>3, <2>7 DEF w, Lifecycle!Finish, Lifecycle!Nothing
  <2>9. QED
    BY <2>8 DEF Lifecycle!Step, Lifecycle!Next
<1>9. CASE GivesUpOrBack(s, t, a, b)
  <2> DEFINE error == IF t.retryable THEN "retryable" ELSE "final"
             c == Lifecycle(j)!Emptied(Lifecycle(j)!Moved(d, t.status, error))
             w == Lifecycle(j)!Visible(c)
  <2>1. /\ a = 0 /\ b = 0 /\ s.status = "PROCESSING"
        /\ t.status \in {"PENDING", "FAILED"}
        /\ t.status = "PENDING" => error = "retryable"
    BY <1>9 DEF GivesUpOrBack
  <2>2. error \in {"retryable", "final"}
    OBVIOUS
  <2>3. IsSeen(j, e, t.status, "none", 0, error)
    BY <1>2, <1>5, <1>9 DEF GivesUpOrBack
  <2> HIDE DEF error, a, b
  <2>4. IsSeen(j, Lifecycle(j)!Moved(d, t.status, error), t.status, s.result.outcome,
               ShownOf(s), error)
    BY <1>2, <2>1, <2>2, SeenMoved DEF Statuses
  <2>5. IsSeen(j, w, t.status, "none", 0, error)
    BY <2>4, SeenEmptied, SeenVisible
  <2> HIDE DEF w
  <2>6. e = w
    BY <2>3, <2>5, SeenOnce
  <2>7. CASE t.status = "PENDING"
    <3>1. Lifecycle(j)!PrepareRetry(d) = c
      BY <1>3, <2>1, <2>7 DEF Lifecycle!PrepareRetry
    <3>2. Lifecycle(j)!GiveBack
      BY <1>1, <1>3, <2>1, <2>6, <3>1
        DEF Lifecycle!GiveBack, Lifecycle!Becomes, Lifecycle!Nothing, w
    <3>3. QED
      BY <3>2 DEF Lifecycle!Step, Lifecycle!Next
  <2>8. CASE t.status = "FAILED"
    <3>1. Lifecycle(j)!Claimable(d)
      BY <1>4, <2>1
    <3>2. Lifecycle(j)!Fail(d, error) = c
      BY <2>8, <3>1 DEF Lifecycle!Fail
    <3>3. error \in Lifecycle(j)!Errors
      BY <2>2 DEF Lifecycle!Errors
    <3>4. Lifecycle(j)!GiveUp
      BY <1>1, <2>1, <2>6, <3>1, <3>2, <3>3
        DEF Lifecycle!GiveUp, Lifecycle!Becomes, Lifecycle!Nothing, w
    <3>5. QED
      BY <3>4 DEF Lifecycle!Step, Lifecycle!Next
  <2>9. QED
    BY <2>1, <2>7, <2>8
<1>10. QED
  BY <1>6, <1>7, <1>8, <1>9 DEF Follows

\* Every brief follows in a step.
AllFollow == \A k \in Jobs : Follows(stored[k], stored'[k], Under(run[k]), Under(run'[k]))

\* Those of the other jobs do when a step is about one job.
LEMMA OneFollows ==
  ASSUME JobsInv, AttendedInv, NEW j \in Jobs, NEW y, NEW t, Attended(y, t),
         Follows(stored[j], t, Under(run[j]), Under(y)),
         run' = [run EXCEPT ![j] = y], stored' = [stored EXCEPT ![j] = t]
  PROVE  AllFollow /\ AttendedInv'
<1>1. ASSUME NEW k \in Jobs
      PROVE  /\ Follows(stored[k], stored'[k], Under(run[k]), Under(run'[k]))
             /\ Attended(run'[k], stored'[k])
  <2>1. CASE k = j
    BY <2>1 DEF JobsInv
  <2>2. CASE k # j
    <3>1. run'[k] = run[k] /\ stored'[k] = stored[k]
      BY <2>2 DEF JobsInv
    <3>2. QED
      BY <3>1 DEF AttendedInv, Follows
  <2>3. QED
    BY <2>1, <2>2
<1>2. QED
  BY <1>1 DEF AllFollow, AttendedInv

\* The same, when nothing is written and no analysis begins.
LEMMA NothingShown ==
  ASSUME JobsInv, AttendedInv, NEW j \in Jobs, NEW y, UNCHANGED stored,
         run' = [run EXCEPT ![j] = y], y.pc \in {"idle", "attempt", "settle", "report"}
  PROVE  AllFollow /\ AttendedInv'
<1>1. Under(y) = 0 /\ Attended(y, stored[j])
  BY DEF Under, Attended
<1>2. stored' = [stored EXCEPT ![j] = stored[j]]
  BY Same
<1>3. Follows(stored[j], stored[j], Under(run[j]), Under(y))
  BY <1>1 DEF Follows
<1>4. QED
  BY <1>1, <1>2, <1>3, OneFollows

\* What a MongoDB call of an attempt makes of the brief.
LEMMA WriteFollows ==
  ASSUME JobsInv, ToldInv, AttendedInv, NEW j \in Jobs
  PROVE  /\ run[j].pc = "attempt" =>
              /\ Follows(stored[j], Written(j), Under(run[j]), 0)
              /\ stored[j].status # "COMPLETED" =>
                   /\ Written(j).status = "PROCESSING"
                   /\ \A b \in {0, 1} : Follows(stored[j], Written(j), Under(run[j]), b)
         /\ run[j].pc = "complete" =>
              /\ Follows(stored[j], Written(j), Under(run[j]), 0)
              /\ Written(j).status = "COMPLETED"
         /\ run[j].pc = "catch" => Follows(stored[j], Written(j), Under(run[j]), 0)
<1> DEFINE s == stored[j]
           t == Written(j)
           x == run[j]
<1>1. s \in Record /\ x \in Run /\ s.status # "COMPLETED" => s.result = NoResult
  BY DEF JobsInv, SoundJob, SoundRecord
<1>2. s \in Record /\ x \in Run
  BY DEF JobsInv
<1>3. Attended(x, s) /\ (x.pc = "complete" => FitsSchema(x.reply.result))
  BY DEF AttendedInv, JobsInv, SoundJob, SoundOutcome
<1>4. /\ s.status = "COMPLETED" => t = s
      /\ s.status # "COMPLETED" => t = Updated(j)
  BY DEF Written
<1> HIDE DEF t
<1>5. ASSUME t = s PROVE Follows(s, t, Under(x), 0)
  BY <1>5 DEF Follows
<1>6. ASSUME x.pc = "attempt", s.status # "COMPLETED"
      PROVE  t.status = "PROCESSING" /\ \A b \in {0, 1} : Follows(s, t, Under(x), b)
  <2>1. t.status = "PROCESSING" /\ t.code = "none" /\ t.result = NoResult
    BY <1>1, <1>2, <1>4, <1>6, Updates
  <2>2. Under(x) = 0
    BY <1>6 DEF Under
  <2>3. QED
    BY <1>6, <2>1, <2>2 DEF Follows, Claims
<1>7. ASSUME x.pc = "complete"
      PROVE  t.status = "COMPLETED" /\ Follows(s, t, Under(x), 0)
  <2>1. s.status = "PROCESSING" /\ Under(x) = 1
    BY <1>3, <1>7 DEF Attended, Under
  <2>2. t.status = "COMPLETED" /\ t.code = "none" /\ FitsSchema(t.result)
    BY <1>2, <1>3, <1>4, <1>7, <2>1, Updates
  <2>3. QED
    BY <2>1, <2>2 DEF Follows, Finishes
<1>8. ASSUME x.pc = "catch" PROVE Follows(s, t, Under(x), 0)
  <2>1. s.status \in {"PROCESSING", "COMPLETED"} /\ x.error.code # "none" /\ Under(x) = 0
    BY <1>3, <1>8 DEF Attended, Under
  <2>2. CASE s.status = "PROCESSING"
    <3>1. /\ t.status = IF ExpectsRetry(j) THEN "PENDING" ELSE "FAILED"
          /\ t.code = x.error.code
          /\ t.retryable = x.error.retryable
          /\ t.result = NoResult
      BY <1>1, <1>2, <1>4, <1>8, <2>2, Updates
    <3>2. ExpectsRetry(j) => t.retryable
      BY <3>1 DEF ExpectsRetry
    <3>3. QED
      BY <2>1, <2>2, <3>1, <3>2 DEF Follows, GivesUpOrBack
  <2>3. QED
    BY <1>4, <1>5, <2>1, <2>2
<1>9. x.pc = "attempt" => Follows(s, t, Under(x), 0)
  BY <1>4, <1>5, <1>6
<1>10. QED
  BY <1>6, <1>7, <1>8, <1>9 DEF t

\* startAttempt.
LEMMA StartAttemptFollows ==
  ASSUME JobsInv, ToldInv, AttendedInv, NEW j \in Jobs, StartAttempt(j)
  PROVE  AllFollow /\ AttendedInv'
<1>1. run[j] \in Run /\ run[j].pc = "attempt" /\ stored' = [stored EXCEPT ![j] = Written(j)]
  BY DEF JobsInv, StartAttempt, Write
<1>2. ASSUME NEW y, run' = [run EXCEPT ![j] = y],
             \/ y.pc = "settle"
             \/ stored[j].status # "COMPLETED" /\ y.pc \in {"provider", "complete"}
      PROVE  AllFollow /\ AttendedInv'
  <2>1. CASE y.pc = "settle"
    <3>1. Under(y) = 0 /\ Attended(y, Written(j))
      BY <2>1 DEF Under, Attended
    <3>2. Follows(stored[j], Written(j), Under(run[j]), Under(y))
      BY <1>1, <3>1, WriteFollows
    <3>3. QED
      BY <1>1, <1>2, <3>1, <3>2, OneFollows
  <2>2. CASE stored[j].status # "COMPLETED" /\ y.pc \in {"provider", "complete"}
    <3>1. Under(y) = 1 /\ Attended(y, Written(j))
      BY <1>1, <2>2, WriteFollows DEF Under, Attended
    <3>2. Follows(stored[j], Written(j), Under(run[j]), Under(y))
      BY <1>1, <2>2, <3>1, WriteFollows
    <3>3. QED
      BY <1>1, <1>2, <3>1, <3>2, OneFollows
  <2>3. QED
    BY <1>2, <2>1, <2>2
<1>3. CASE RunGoes(j, "settle", NoError)
  <2>1. run' = [run EXCEPT ![j] = Moved(run[j], "settle", NoError)]
    BY <1>3, RunGoesTo
  <2>2. Moved(run[j], "settle", NoError).pc = "settle"
    BY <1>1 DEF Moved, Run
  <2>3. QED
    BY <1>2, <2>1, <2>2
<1>4. ASSUME stored[j].status # "COMPLETED", NEW pc \in {"provider", "complete"}, NEW reply,
             run' = [run EXCEPT ![j].pc = pc, ![j].reply = reply]
      PROVE  AllFollow /\ AttendedInv'
  <2> DEFINE y == [run[j] EXCEPT !.pc = pc, !.reply = reply]
  <2>1. run' = [run EXCEPT ![j] = y] /\ y.pc = pc
    BY <1>1, <1>4 DEF JobsInv, Run
  <2> HIDE DEF y
  <2>2. QED
    BY <1>2, <1>4, <2>1
<1>5. QED
  BY <1>3, <1>4 DEF StartAttempt

\* analyzeBrief returns or throws.
LEMMA ProviderAnswersFollows ==
  ASSUME JobsInv, ToldInv, AttendedInv, NEW j \in Jobs, ProviderAnswers(j)
  PROVE  AllFollow /\ AttendedInv'
<1> DEFINE x == run[j]
           error == ReplyError(x.reply)
           pc == IF error = NoError THEN "complete" ELSE "catch"
           y == Moved(x, pc, error)
<1>1. /\ x \in Run /\ x.pc = "provider" /\ RunGoes(j, pc, error)
      /\ stored' = [stored EXCEPT ![j] = stored[j]]
  BY Same DEF JobsInv, ProviderAnswers
<1>2. run' = [run EXCEPT ![j] = y] /\ y.pc = pc /\ y.error = error
  <2>1. run' = [run EXCEPT ![j] = y]
    BY <1>1, RunGoesTo
  <2>2. y.pc = pc /\ y.error = error
    BY <1>1 DEF Moved, Run
  <2>3. QED
    BY <2>1, <2>2
<1>3. stored[j].status = "PROCESSING" /\ Under(x) = 1 /\ x.reply \in Replies
  BY <1>1 DEF AttendedInv, Attended, Under, ToldInv, ErrorTold
<1>4. pc = "catch" => error.code # "none"
  BY <1>3, ReplyErrors
<1>5. pc \in {"complete", "catch"}
  OBVIOUS
<1> HIDE DEF y, pc, error
<1>6. Attended(y, stored[j])
  BY <1>2, <1>3, <1>4, <1>5 DEF Attended
<1>7. Follows(stored[j], stored[j], Under(x), Under(y))
  BY <1>3 DEF Follows, Under
<1>8. QED
  BY <1>1, <1>2, <1>6, <1>7, OneFollows

\* complete, prepareRetry and fail.
LEMMA StoreFollows ==
  ASSUME JobsInv, ToldInv, AttendedInv, NEW j \in Jobs, StoreResult(j) \/ StoreError(j)
  PROVE  AllFollow /\ AttendedInv'
<1>1. PICK error : RunGoes(j, "settle", error)
  BY DEF StoreResult, StoreError
<1> DEFINE y == Moved(run[j], "settle", error)
<1>2. /\ run[j] \in Run /\ run[j].pc \in {"complete", "catch"}
      /\ stored' = [stored EXCEPT ![j] = Written(j)]
  BY DEF JobsInv, StoreResult, StoreError, Write
<1>3. run' = [run EXCEPT ![j] = y] /\ y.pc = "settle"
  <2>1. run' = [run EXCEPT ![j] = y]
    BY <1>1, RunGoesTo
  <2>2. y.pc = "settle"
    BY <1>2 DEF Moved, Run
  <2>3. QED
    BY <2>1, <2>2
<1> HIDE DEF y
<1>4. Under(y) = 0 /\ Attended(y, Written(j))
  BY <1>3 DEF Under, Attended
<1>5. Follows(stored[j], Written(j), Under(run[j]), Under(y))
  BY <1>2, <1>4, WriteFollows
<1>6. QED
  BY <1>2, <1>3, <1>4, <1>5, OneFollows

\* A call of MongoDB throws, applied or not.
LEMMA DatabaseThrowsFollows ==
  ASSUME JobsInv, ToldInv, AttendedInv, NEW j \in Jobs, DatabaseThrows(j)
  PROVE  AllFollow /\ AttendedInv'
<1> DEFINE x == run[j]
<1>1. x \in Run /\ x.pc \in {"attempt", "complete", "catch"}
  BY DEF JobsInv, DatabaseThrows
<1>2. PICK pc, error :
        /\ RunGoes(j, pc, error)
        /\ \/ pc = "settle" /\ x.pc \in {"attempt", "catch"}
           \/ pc = "catch" /\ x.pc = "complete" /\ error = InternalError
  BY DEF DatabaseThrows
<1> DEFINE y == Moved(x, pc, error)
<1>3. run' = [run EXCEPT ![j] = y] /\ y.pc = pc /\ y.error = error
  <2>1. run' = [run EXCEPT ![j] = y]
    BY <1>2, RunGoesTo
  <2>2. y.pc = pc /\ y.error = error
    BY <1>1 DEF Moved, Run
  <2>3. QED
    BY <2>1, <2>2
<1> HIDE DEF y
<1>4. Under(y) = 0
  BY <1>2, <1>3 DEF Under
<1>5. InternalError.code # "none"
  BY DEF InternalError, ProcessingError, Error
<1>6. ASSUME NEW t, stored' = [stored EXCEPT ![j] = t],
             Follows(stored[j], t, Under(x), 0),
             x.pc = "complete" => t.status \in {"PROCESSING", "COMPLETED"}
      PROVE  AllFollow /\ AttendedInv'
  <2>1. Attended(y, t)
    BY <1>2, <1>3, <1>5, <1>6 DEF Attended
  <2>2. QED
    BY <1>3, <1>4, <1>6, <2>1, OneFollows
<1>7. CASE Write(j)
  <2>1. stored' = [stored EXCEPT ![j] = Written(j)]
    BY <1>7 DEF Write
  <2>2. Follows(stored[j], Written(j), Under(x), 0)
    BY <1>1, WriteFollows
  <2>3. x.pc = "complete" => Written(j).status = "COMPLETED"
    BY WriteFollows
  <2>4. QED
    BY <1>6, <2>1, <2>2, <2>3
<1>8. CASE UNCHANGED stored
  <2>1. stored' = [stored EXCEPT ![j] = stored[j]]
    BY <1>8, Same
  <2>2. Follows(stored[j], stored[j], Under(x), 0)
    BY DEF Follows
  <2>3. x.pc = "complete" => stored[j].status = "PROCESSING"
    BY DEF AttendedInv, Attended
  <2>4. QED
    BY <1>6, <2>1, <2>2, <2>3
<1>9. QED
  BY <1>7, <1>8 DEF DatabaseThrows

\* Every step is followed by every brief.
LEMMA NextFollows ==
  JobsInv /\ ToldInv /\ AttendedInv /\ [Next]_vars => AllFollow /\ AttendedInv'
<1> SUFFICES ASSUME JobsInv, ToldInv, AttendedInv, [Next]_vars
             PROVE  AllFollow /\ AttendedInv'
  OBVIOUS
<1>1. CASE UNCHANGED <<run, stored>>
  BY <1>1 DEF AllFollow, Follows, AttendedInv
<1>2. CASE Kill
  <2>1. ASSUME NEW k \in Jobs
        PROVE  /\ Follows(stored[k], stored'[k], Under(run[k]), Under(run'[k]))
               /\ Attended(run'[k], stored'[k])
    <3>1. run'[k] = IdleRun /\ stored'[k] = stored[k]
      BY <1>2 DEF Kill
    <3>2. Under(IdleRun) = 0 /\ Attended(IdleRun, stored[k])
      BY IdleRuns DEF Under, Attended
    <3>3. QED
      BY <3>1, <3>2 DEF Follows
  <2>2. QED
    BY <2>1 DEF AllFollow, AttendedInv
<1>3. ASSUME NEW j \in Jobs, JobStep(j) \/ TakeJob(j) PROVE AllFollow /\ AttendedInv'
  <2>1. CASE SettleJob(j)
    <3>1. run[j] \in Run /\ UNCHANGED stored
      BY <2>1 DEF JobsInv, SettleJob
    <3>2. CASE run' = [run EXCEPT ![j] = IdleRun]
      BY <3>1, <3>2, IdleRuns, NothingShown
    <3>3. CASE run' = [run EXCEPT ![j].pc = "report"]
      <4> DEFINE y == [run[j] EXCEPT !.pc = "report"]
      <4>1. run' = [run EXCEPT ![j] = y] /\ y.pc = "report"
        BY <3>1, <3>3 DEF JobsInv, Run
      <4> HIDE DEF y
      <4>2. QED
        BY <3>1, <4>1, NothingShown
    <3>4. QED
      BY <2>1, <3>2, <3>3 DEF SettleJob
  <2>2. CASE ReportFailure(j) \/ TakeJob(j)
    <3>1. PICK y \in {IdleRun, [IdleRun EXCEPT !.pc = "attempt"]} :
            run' = [run EXCEPT ![j] = y] /\ UNCHANGED stored
      BY <2>2 DEF ReportFailure, TakeJob
    <3>2. y.pc \in {"idle", "attempt"}
      BY IdleRuns DEF Run
    <3>3. QED
      BY <3>1, <3>2, NothingShown
  <2>3. QED
    BY <1>3, <2>1, <2>2, StartAttemptFollows, ProviderAnswersFollows, StoreFollows,
      DatabaseThrowsFollows DEF JobStep
<1>4. ASSUME NEW j \in Jobs,
             PromoteJob(j) \/ StalledCheck(j) \/ SendCopy(j) \/ LoseCopy(j)
      PROVE  UNCHANGED <<run, stored>>
  BY <1>4 DEF PromoteJob, StalledCheck, SendCopy, LoseCopy
<1>5. ProcessStep \/ Signal \/ UNCHANGED vars => UNCHANGED <<run, stored>>
  BY DEF ProcessStep, Signal, Connected, BootstrapFails, WorkerReady, CloseNext, jobVars, vars
<1>6. QED
  BY <1>1, <1>2, <1>3, <1>4, <1>5 DEF Next

\* So this worker keeps the promise of BriefLifecycle for every brief, whatever
\* its attempts end with -- a result that fits or not, any error of the
\* provider, a MongoDB call that throws, applied or not -- and wherever its
\* process is stopped or killed: a result is stored once, over a claimed brief
\* and from the analysis of its text; a brief is given back or given up with an
\* error and without a result; a COMPLETED one is never written again.
THEOREM WorkerKeepsThePromise == Spec => JobsFollowLifecycle
<1>1. Init => AttendedInv
  BY IdleRuns DEF Init, AttendedInv, Attended
<1>2. JobsInv /\ ToldInv /\ AttendedInv /\ [Next]_vars => AttendedInv'
  BY NextFollows
<1>3. Init => \A j \in Jobs : Brief(j) = Lifecycle(j)!NewBrief
  <2> SUFFICES ASSUME Init, NEW j \in Jobs PROVE Brief(j) = Lifecycle(j)!NewBrief
    OBVIOUS
  <2>1. PICK text \in Texts : stored[j] = NewRecord(text)
    BY DEF Init
  <2>2. /\ stored[j].status = "PENDING" /\ stored[j].code = "none"
        /\ stored[j].result = NoResult
    BY <2>1 DEF NewRecord
  <2>3. SoundRecord(stored[j])
    BY JobsInit DEF JobsInv, SoundJob
  <2>4. IsSeen(j, Shown(stored[j]), "PENDING", "none", 0, "none")
    BY <2>2, <2>3, ShownFields DEF ShownOf, ShownError
  <2>5. IsSeen(j, Lifecycle(j)!NewBrief, "PENDING", "none", 0, "none")
    BY DEF IsSeen, Lifecycle!Document, Lifecycle!Stored, Lifecycle!Absent,
           Lifecycle!Outcomes, Lifecycle!Errors, Lifecycle!NewBrief, Lifecycle!Unborn
  <2>6. QED
    BY <2>4, <2>5, SeenOnce, ShownNowAndNext
<1>4. JobsInv /\ JobsInv' /\ ToldInv /\ AttendedInv /\ [Next]_vars
        => [\A j \in Jobs : Lifecycle(j)!Step]_vars
  <2> SUFFICES ASSUME JobsInv, JobsInv', ToldInv, AttendedInv, [Next]_vars, NEW j \in Jobs
               PROVE  Lifecycle(j)!Step
    OBVIOUS
  <2>1. SoundRecord(stored[j]) /\ SoundRecord(stored'[j])
    BY DEF JobsInv, SoundJob
  <2>2. Follows(stored[j], stored'[j], Under(run[j]), Under(run'[j]))
    BY NextFollows DEF AllFollow
  <2>3. QED
    BY <2>1, <2>2, FollowedStep
<1>5. QED
  BY <1>1, <1>2, <1>3, <1>4, JobsAlways, ToldAlways, PTL DEF Spec, JobsFollowLifecycle

-----------------------------------------------------------------------------
(* Start and shutdown.                                                     *)

\* The resources, in the order in which they are closed.
LEMMA Order ==
  /\ Len(ClosingOrder) = 6
  /\ ClosingOrder[1] = "operations" /\ ClosingOrder[2] = "worker"
  /\ ClosingOrder[3] = "deadLetterQueue" /\ ClosingOrder[4] = "eventsRedis"
  /\ ClosingOrder[5] = "redis" /\ ClosingOrder[6] = "mongo"
  /\ DOMAIN ClosingOrder = 1 .. 6
  /\ Resources = {"operations", "worker", "deadLetterQueue", "eventsRedis", "redis", "mongo"}
<1>1. DOMAIN ClosingOrder = 1 .. 6 /\ Len(ClosingOrder) = 6
  BY DEF ClosingOrder
<1>2. /\ ClosingOrder[1] = "operations" /\ ClosingOrder[2] = "worker"
      /\ ClosingOrder[3] = "deadLetterQueue" /\ ClosingOrder[4] = "eventsRedis"
      /\ ClosingOrder[5] = "redis" /\ ClosingOrder[6] = "mongo"
  BY DEF ClosingOrder
<1>3. Resources = {ClosingOrder[i] : i \in 1 .. 6}
  BY <1>1 DEF Resources, Range
<1>4. \A i \in 1 .. 6 : i \in {1, 2, 3, 4, 5, 6}
  OBVIOUS
<1>5. QED
  BY <1>1, <1>2, <1>3, <1>4

\* The resource with place i among them.
Nth(i) == ClosingOrder[i]

\* No two have one place, and every one has its own.
LEMMA Places6 ==
  /\ \A i, k \in 1 .. 6 : Nth(i) = Nth(k) => i = k
  /\ \A i \in 1 .. 6 : Nth(i) \in Resources /\ Position(Nth(i)) = i
  /\ \A r \in Resources : \E i \in 1 .. 6 : r = Nth(i)
  /\ \A i \in 1 .. 6 : Nth(i) \notin {"none", "done"}
<1>1. \A i, k \in 1 .. 6 : Nth(i) = Nth(k) => i = k
  BY Order DEF Nth
<1>2. \A i \in 1 .. 6 : Nth(i) \in Resources /\ Nth(i) \notin {"none", "done"}
  BY Order DEF Nth
<1>3. ASSUME NEW i \in 1 .. 6 PROVE Position(Nth(i)) = i
  BY <1>1, Order DEF Position, Nth
<1>4. \A r \in Resources : \E i \in 1 .. 6 : r = Nth(i)
  BY Order DEF Nth
<1>5. QED
  BY <1>1, <1>2, <1>3, <1>4

\* FirstOpen finds the first open resource from place i on, if there is one.
LEMMA FirstOpenFinds ==
  ASSUME NEW i \in 1 .. 7, NEW resources
  PROVE  \/ /\ FirstOpen(i, resources) = "done"
            /\ \A k \in i .. 6 : Nth(k) \notin resources
         \/ \E k \in i .. 6 :
              /\ FirstOpen(i, resources) = Nth(k) /\ Nth(k) \in resources
              /\ \A m \in i .. k - 1 : Nth(m) \notin resources
<1> DEFINE Least(k) == /\ Nth(k) \in resources
                       /\ \A m \in i .. k - 1 : Nth(m) \notin resources
<1>1. CASE \A k \in i .. 6 : Nth(k) \notin resources
  BY <1>1, Order DEF FirstOpen, Nth
<1>2. CASE \E k \in i .. 6 : Nth(k) \in resources
  <2>1. \E k \in i .. 6 : Least(k)
    <3> SUFFICES ASSUME \A k \in i .. 6 : ~Least(k) PROVE FALSE
      OBVIOUS
    <3>1. 1 \in i .. 6 => Nth(1) \notin resources
      OBVIOUS
    <3>2. 2 \in i .. 6 => Nth(2) \notin resources
      BY <3>1
    <3>3. 3 \in i .. 6 => Nth(3) \notin resources
      BY <3>1, <3>2
    <3>4. 4 \in i .. 6 => Nth(4) \notin resources
      BY <3>1, <3>2, <3>3
    <3>5. 5 \in i .. 6 => Nth(5) \notin resources
      BY <3>1, <3>2, <3>3, <3>4
    <3>6. 6 \in i .. 6 => Nth(6) \notin resources
      BY <3>1, <3>2, <3>3, <3>4, <3>5
    <3>7. \A k \in i .. 6 : k \in {1, 2, 3, 4, 5, 6}
      OBVIOUS
    <3>8. QED
      BY <1>2, <3>1, <3>2, <3>3, <3>4, <3>5, <3>6, <3>7
  <2> DEFINE first == CHOOSE k \in i .. 6 : Least(k)
  <2>2. first \in i .. 6 /\ Least(first)
    BY <2>1
  <2>3. FirstOpen(i, resources) = Nth(first)
    BY <1>2, Order DEF FirstOpen, Nth
  <2>4. QED
    BY <2>2, <2>3
<1>3. QED
  BY <1>1, <1>2

\* The types of what the process has besides its jobs.
ProcessTyped ==
  /\ boot \in {"connect", "ready", "done", "failed"}
  /\ closing \in Resources \cup {"none", "done"}
  /\ began \in {"connect", "ready", "done", "failed", "none"}
  /\ open \subseteq Resources
  /\ exit \in {0, 1}
  /\ left \in [FaultKinds -> Nat]

\* How far bootstrap has come tells what was created and when shutdown began.
BootInv ==
  /\ boot = "connect" => open = {} /\ began \in {"none", "connect"}
  /\ began = "none" <=> closing = "none"
  /\ began \in {"done", "failed"} => boot = began
  /\ began = "ready" => boot \in {"ready", "failed"}

\* What was closed before the resource that is being closed stays so; the worker
\* is closed before all that its jobs use, and not before its jobs are over.
OrderInv ==
  /\ \A i \in 1 .. 6 : closing = Nth(i) => \A k \in 1 .. i - 1 : Nth(k) \notin open
  /\ closing = "done" => open = {}
  /\ "worker" \in open =>
       {"deadLetterQueue", "eventsRedis", "redis", "mongo"} \subseteq open
  /\ \A j \in Jobs : run[j].pc # "idle" => "worker" \in open

ProcessInv == ProcessTyped /\ BootInv /\ (began # "connect" => OrderInv)

\* The kinds of faults that are left.
LEMMA SufferTyped ==
  ASSUME left \in [FaultKinds -> Nat], NEW kind \in FaultKinds, Suffer(kind)
  PROVE  left' \in [FaultKinds -> Nat]
BY DEF Suffer

\* Where shutdown begins, or goes on after the first i resources.
LEMMA ClosingGoes ==
  ASSUME NEW i \in 1 .. 7, NEW resources,
         \A k \in 1 .. i - 1 : Nth(k) \notin resources
  PROVE  LET next == FirstOpen(i, resources) IN
         /\ next \in Resources \cup {"done"} /\ next # "none"
         /\ \A m \in 1 .. 6 : next = Nth(m) =>
              \A k \in 1 .. m - 1 : Nth(k) \notin resources
         /\ next = "done" /\ resources \subseteq Resources => resources = {}
<1>1. CASE /\ FirstOpen(i, resources) = "done"
           /\ \A k \in i .. 6 : Nth(k) \notin resources
  <2>1. \A k \in 1 .. 6 : Nth(k) \notin resources
    BY <1>1
  <2>2. QED
    BY <1>1, <2>1, Places6
<1>2. ASSUME NEW k \in i .. 6,
             FirstOpen(i, resources) = Nth(k), Nth(k) \in resources,
             \A m \in i .. k - 1 : Nth(m) \notin resources
      PROVE  LET next == FirstOpen(i, resources) IN
             /\ next \in Resources \cup {"done"} /\ next # "none"
             /\ \A m \in 1 .. 6 : next = Nth(m) =>
                  \A n \in 1 .. m - 1 : Nth(n) \notin resources
             /\ next = "done" /\ resources \subseteq Resources => resources = {}
  <2>1. k \in 1 .. 6 /\ \A m \in 1 .. k - 1 : Nth(m) \notin resources
    BY <1>2
  <2>2. Nth(k) \in Resources /\ Nth(k) \notin {"none", "done"}
        /\ \A m \in 1 .. 6 : Nth(k) = Nth(m) => k = m
    BY <2>1, Places6
  <2>3. QED
    BY <1>2, <2>1, <2>2
<1>3. QED
  BY <1>1, <1>2, FirstOpenFinds

\* A process that has just been started.
LEMMA ProcessInit == Init => ProcessInv
<1> SUFFICES ASSUME Init PROVE ProcessInv
  OBVIOUS
<1>1. ProcessTyped
  BY ProcessAssumption DEF ProcessAssumption, ProcessTyped, Init
<1>2. BootInv
  BY DEF BootInv, Init
<1>3. \A j \in Jobs : run[j].pc = "idle"
  BY DEF Init, IdleRun
<1>4. OrderInv
  BY <1>3, Places6 DEF OrderInv, Init
<1>5. QED
  BY <1>1, <1>2, <1>4 DEF ProcessInv

\* MongoDB is connected, and all but the operations server is created.
LEMMA ConnectedStep == ASSUME ProcessInv, Connected PROVE ProcessInv'
<1> USE DEF Connected, ProcessInv
<1>1. ProcessTyped'
  BY Order DEF ProcessTyped
<1>2. BootInv'
  BY DEF BootInv
<1>3. ASSUME began # "connect" PROVE OrderInv'
  <2>1. closing = "none"
    BY <1>3 DEF BootInv
  <2>2. {"worker", "deadLetterQueue", "eventsRedis", "redis", "mongo"} \subseteq open'
    BY Order
  <2>3. run' = run /\ closing' = "none"
    BY <2>1 DEF jobVars
  <2>4. QED
    BY <2>2, <2>3, Places6 DEF OrderInv
<1>4. QED
  BY <1>1, <1>2, <1>3

\* bootstrap throws.
LEMMA BootstrapFailsStep == ASSUME ProcessInv, BootstrapFails PROVE ProcessInv'
<1> USE DEF BootstrapFails, ProcessInv
<1> DEFINE next == FirstOpen(1, open)
<1>1. left' \in [FaultKinds -> Nat]
  BY SufferTyped DEF ProcessTyped, FaultKinds
<1>2. CASE closing # "none"
  <2>1. closing' = closing /\ began' = began /\ began # "none"
    BY <1>2 DEF Shutdown, BootInv
  <2>2. began = "connect"  \/ (boot = "ready" /\ began = "ready")
    BY <2>1 DEF BootInv, ProcessTyped
  <2>3. ProcessTyped' /\ BootInv'
    BY <1>1, <2>1, <2>2 DEF ProcessTyped, BootInv
  <2>4. OrderInv => OrderInv'
    BY <2>1 DEF OrderInv, jobVars
  <2>5. QED
    BY <2>1, <2>3, <2>4
<1>3. CASE closing = "none"
  <2>1. began' = "failed" /\ closing' = next
    BY <1>3 DEF Shutdown
  <2>2. /\ next \in Resources \cup {"done"} /\ next # "none"
        /\ \A m \in 1 .. 6 : next = Nth(m) => \A k \in 1 .. m - 1 : Nth(k) \notin open
        /\ next = "done" => open = {}
    BY ClosingGoes DEF ProcessTyped
  <2>3. ProcessTyped' /\ BootInv'
    BY <1>1, <2>1, <2>2 DEF ProcessTyped, BootInv
  <2>4. OrderInv
    BY <1>3 DEF BootInv
  <2>5. OrderInv'
    BY <2>1, <2>2, <2>4 DEF OrderInv, jobVars
  <2>6. QED
    BY <2>3, <2>5
<1>4. QED
  BY <1>2, <1>3

\* The worker is ready, and the operations server starts unless shutdown began.
LEMMA WorkerReadyStep == ASSUME ProcessInv, WorkerReady PROVE ProcessInv'
<1> USE DEF WorkerReady, ProcessInv
<1>1. ProcessTyped'
  BY Order DEF ProcessTyped
<1>2. BootInv'
  BY DEF BootInv
<1>3. ASSUME began # "connect" PROVE OrderInv'
  <2>1. CASE began = "ready"
    BY <1>3, <2>1 DEF OrderInv, jobVars
  <2>2. CASE began # "ready"
    <3>1. closing = "none" /\ closing' = "none" /\ open' = open \cup {"operations"}
      BY <1>3, <2>2 DEF BootInv, ProcessTyped
    <3>2. run' = run
      BY DEF jobVars
    <3>3. QED
      BY <1>3, <3>1, <3>2, Places6 DEF OrderInv
  <2>3. QED
    BY <2>1, <2>2
<1>4. QED
  BY <1>1, <1>2, <1>3

\* A signal begins a shutdown.
LEMMA SignalStep == ASSUME ProcessInv, Signal PROVE ProcessInv'
<1> USE DEF Signal, ProcessInv
<1> DEFINE resources == open \cup (IF boot = "connect" THEN {"mongo"} ELSE {})
           next == FirstOpen(1, resources)
<1>1. closing' = next /\ began' = boot
  BY DEF Shutdown
<1>2. /\ next \in Resources \cup {"done"} /\ next # "none"
      /\ \A m \in 1 .. 6 : next = Nth(m) => \A k \in 1 .. m - 1 : Nth(k) \notin resources
      /\ next = "done" /\ resources \subseteq Resources => resources = {}
  BY ClosingGoes
<1>3. ProcessTyped' /\ BootInv'
  BY <1>1, <1>2 DEF ProcessTyped, BootInv
<1>4. ASSUME began' # "connect" PROVE OrderInv'
  <2>1. resources = open /\ open \subseteq Resources
    BY <1>1, <1>4 DEF ProcessTyped
  <2>2. OrderInv
    BY DEF BootInv
  <2>3. QED
    BY <1>1, <1>2, <2>1, <2>2 DEF OrderInv, jobVars
<1>5. QED
  BY <1>3, <1>4

\* One resource after the other is closed.
LEMMA CloseNextStep == ASSUME ProcessInv, CloseNext PROVE ProcessInv'
<1> USE DEF ProcessInv
<1>1. PICK i \in 1 .. 6 : closing = Nth(i)
  BY Places6 DEF CloseNext
<1> DEFINE next == FirstOpen(i + 1, open)
<1>2. /\ open' = open \ {Nth(i)} /\ closing' = next
      /\ boot' = boot /\ began' = began
  BY <1>1, Places6 DEF CloseNext
<1>3. left' \in [FaultKinds -> Nat] /\ exit' \in {0, 1}
  BY SufferTyped DEF CloseNext, ProcessTyped, FaultKinds
<1>4. next \in Resources \cup {"done"} /\ next # "none"
  BY FirstOpenFinds, Places6
<1>5. ProcessTyped' /\ BootInv'
  BY <1>1, <1>2, <1>3, <1>4, Places6 DEF ProcessTyped, BootInv
<1>6. ASSUME began # "connect" PROVE OrderInv'
  <2>1. OrderInv /\ open \subseteq Resources
    BY <1>6 DEF ProcessTyped
  <2>2. \A k \in 1 .. i : Nth(k) \notin open'
    BY <1>1, <1>2, <2>1 DEF OrderInv
  <2>3. \/ next = "done" /\ \A k \in i + 1 .. 6 : Nth(k) \notin open
        \/ \E k \in i + 1 .. 6 :
             next = Nth(k) /\ \A m \in i + 1 .. k - 1 : Nth(m) \notin open
    BY FirstOpenFinds
  <2>4. closing' = "done" => open' = {}
    <3>1. ASSUME next = "done" PROVE \A k \in 1 .. 6 : Nth(k) \notin open'
      BY <1>2, <2>2, <2>3, <3>1, Places6
    <3>2. QED
      BY <1>2, <2>1, <3>1, Places6
  <2>5. \A m \in 1 .. 6 : closing' = Nth(m) => \A k \in 1 .. m - 1 : Nth(k) \notin open'
    BY <1>2, <2>2, <2>3, Places6
  <2>6. "worker" \in open' =>
          {"deadLetterQueue", "eventsRedis", "redis", "mongo"} \subseteq open'
    <3>1. "worker" \in open' => i = 1
      <4>1. 2 \in 1 .. i => Nth(2) \notin open'
        BY <2>2
      <4>2. QED
        BY <4>1, Order DEF Nth
    <3>2. i = 1 => Nth(i) = "operations"
      BY Order DEF Nth
    <3>3. QED
      BY <1>2, <2>1, <3>1, <3>2 DEF OrderInv
  <2>7. \A j \in Jobs : run'[j].pc # "idle" => "worker" \in open'
    <3>1. run' = run /\ (Nth(i) = "worker" => \A j \in Jobs : run[j].pc = "idle")
      BY <1>1 DEF CloseNext, CanClose, jobVars
    <3>2. QED
      BY <1>2, <2>1, <3>1 DEF OrderInv
  <2>8. QED
    BY <2>4, <2>5, <2>6, <2>7 DEF OrderInv
<1>7. QED
  BY <1>2, <1>5, <1>6

\* A process that is killed begins again.
LEMMA KillProcessStep == ASSUME ProcessInv, Kill PROVE ProcessInv'
<1> USE DEF Kill, ProcessInv
<1>1. ProcessTyped'
  BY SufferTyped DEF ProcessTyped, FaultKinds
<1>2. BootInv'
  BY DEF BootInv
<1>3. \A j \in Jobs : run'[j].pc = "idle"
  BY DEF IdleRun
<1>4. OrderInv'
  BY <1>3, Places6 DEF OrderInv
<1>5. QED
  BY <1>1, <1>2, <1>4

\* The jobs' steps: only an open worker lets an execution begin.
LEMMA JobsProcess ==
  ASSUME JobsInv, ProcessInv, NEW j \in Jobs,
         \/ JobStep(j) \/ TakeJob(j) \/ PromoteJob(j) \/ StalledCheck(j)
         \/ SendCopy(j) \/ LoseCopy(j)
  PROVE  ProcessInv'
<1>1. UNCHANGED procVars
  BY DEF JobStep, StartAttempt, ProviderAnswers, StoreResult, StoreError, DatabaseThrows,
    SettleJob, ReportFailure, TakeJob, PromoteJob, StalledCheck, SendCopy, LoseCopy
<1>2. left' \in [FaultKinds -> Nat]
  <2>1. left' = left \/ Suffer("databaseError") \/ Suffer("copyError")
    BY DEF JobStep, StartAttempt, ProviderAnswers, StoreResult, StoreError, DatabaseThrows,
      SettleJob, ReportFailure, TakeJob, PromoteJob, StalledCheck, SendCopy, LoseCopy
  <2>2. left \in [FaultKinds -> Nat] /\ {"databaseError", "copyError"} \subseteq FaultKinds
    BY DEF ProcessInv, ProcessTyped, FaultKinds
  <2>3. QED
    BY <2>1, <2>2, SufferTyped
<1>3. run[j].pc # "idle" \/ "worker" \in open \/ UNCHANGED run
  BY DEF JobStep, StartAttempt, ProviderAnswers, StoreResult, StoreError, DatabaseThrows,
    SettleJob, ReportFailure, TakeJob, TakesJobs, PromoteJob, StalledCheck, SendCopy, LoseCopy
<1>4. \A k \in Jobs \ {j} : run'[k] = run[k]
  BY DEF JobsInv, JobStep, StartAttempt, ProviderAnswers, StoreResult, StoreError,
    DatabaseThrows, SettleJob, ReportFailure, TakeJob, PromoteJob, StalledCheck, SendCopy,
    LoseCopy, RunGoes
<1>5. ProcessTyped' /\ BootInv'
  BY <1>1, <1>2 DEF ProcessInv, ProcessTyped, BootInv, procVars
<1>6. ASSUME began # "connect" PROVE OrderInv'
  <2>1. OrderInv
    BY <1>6 DEF ProcessInv
  <2>2. \A k \in Jobs : run'[k].pc # "idle" => run[k].pc # "idle" \/ "worker" \in open
    BY <1>3, <1>4
  <2>3. QED
    BY <1>1, <2>1, <2>2 DEF OrderInv, procVars
<1>7. QED
  BY <1>1, <1>5, <1>6 DEF ProcessInv, procVars

\* Every step keeps what holds of the process.
LEMMA ProcessNext == JobsInv /\ ProcessInv /\ [Next]_vars => ProcessInv'
<1> SUFFICES ASSUME JobsInv, ProcessInv, [Next]_vars PROVE ProcessInv'
  OBVIOUS
<1>1. CASE ProcessStep
  BY <1>1, ConnectedStep, BootstrapFailsStep, WorkerReadyStep, CloseNextStep DEF ProcessStep
<1>2. CASE Signal \/ Kill
  BY <1>2, SignalStep, KillProcessStep
<1>3. ASSUME NEW j \in Jobs,
             \/ JobStep(j) \/ TakeJob(j) \/ PromoteJob(j) \/ StalledCheck(j)
             \/ SendCopy(j) \/ LoseCopy(j)
      PROVE  ProcessInv'
  BY <1>3, JobsProcess
<1>4. CASE UNCHANGED vars
  BY <1>4 DEF vars, ProcessInv, ProcessTyped, BootInv, OrderInv
<1>5. QED
  BY <1>1, <1>2, <1>3, <1>4 DEF Next

\* What holds of the process holds always.
LEMMA ProcessAlways == Spec => []ProcessInv
<1>1. JobsInv /\ ProcessInv /\ [Next]_vars => ProcessInv'
  BY ProcessNext
<1>2. QED
  BY <1>1, ProcessInit, JobsAlways, PTL DEF Spec

\* Every reachable state is type correct.
THEOREM WorkerTypeCorrect == Spec => []TypeOK
<1>1. JobsInv /\ ProcessInv => TypeOK
  <2> SUFFICES ASSUME JobsInv, ProcessInv PROVE TypeOK
    OBVIOUS
  <2>1. \A j \in Jobs : /\ stored[j].text \in Texts /\ stored[j].status \in Statuses
                         /\ stored[j].code \in Codes /\ stored[j].retryable \in BOOLEAN
    BY DEF JobsInv, Record
  <2>2. QED
    BY <2>1 DEF JobsInv, ProcessInv, ProcessTyped, TypeOK
<1>2. QED
  BY <1>1, JobsAlways, ProcessAlways, PTL

\* Whenever the signal to stop comes, and whatever fails while the process starts
\* or closes, a running job finds its connections open (main.ts shutdown) -- but
\* for a signal that came while bootstrap was still connecting to MongoDB.
THEOREM ConnectionsAreKept == Spec => []JobsKeepTheirConnections
<1>1. ProcessInv => JobsKeepTheirConnections
  <2> SUFFICES ASSUME ProcessInv, began # "connect", NEW j \in Jobs, run[j].pc # "idle"
               PROVE  {"mongo", "redis", "eventsRedis", "deadLetterQueue"} \subseteq open
    BY DEF JobsKeepTheirConnections
  <2>1. "worker" \in open
    BY DEF ProcessInv, OrderInv
  <2>2. QED
    BY <2>1 DEF ProcessInv, OrderInv
<1>2. QED
  BY <1>1, ProcessAlways, PTL

\* With the same exception, a shutdown that is over has left nothing open and no
\* job running.
THEOREM ShutdownIsComplete == Spec => []NothingOutlivesShutdown
<1>1. ProcessInv => NothingOutlivesShutdown
  BY DEF ProcessInv, OrderInv, NothingOutlivesShutdown
<1>2. QED
  BY <1>1, ProcessAlways, PTL

=============================================================================
