# doublespeak-c: formal model

TLA+ models of doublespeak-c, a steganographic codec (C library
`meteor_stego/src`) and the job service around it (`meteor_stego/service`).
Each module is translated from the source it names; `PROJECT.json` maps every
definition to its lines. Paths below are relative to the repository's root,
file names without a directory to `meteor_stego/src`,
`meteor_stego/service` or `meteor_stego/service/gcp`.

    tlc -workers 2 -config Codec.cfg MCCodec.tla             # check an instance
    tlapm CloudJobsProofs.tla                                 # check the proofs

## 1. Inventory

### The codec (C)

**Bit strings and slot coding** (`bits.c`, `prng.c`, `meteor_core.c`).
Stateless but for the keystream position of `MeteorPRNG`. Turns a message into
bits with a zero byte at the end, draws bits from a keystream, maps `beta` bits
(xor a mask) to a slot and a slot back to the bits its range has in common.
Correct if a step of decoding yields exactly the bits the step of encoding
counted as sent, and if draws cost both sides the same number of bits.

**Slot table construction** (`meteor_build_dist`). Four loops over counts,
remainders and a cursor: floor, largest remainders, steal, lay out. Correct if
exactly `2^beta` slots are handed out, every candidate can be reached, and the
model's ranking survives.

**Candidate parsing** (`parse_llm_response`, `llm_client.c`). State: the list
of candidates so far. Correct if the list is prefix-free (otherwise the longest
match of the decoder is ambiguous) and both sides keep the same keys, the
earliest.

**HTTP transport** (`winhttp_post`, `curl_post`, `growbuf_append`,
`llm_client_get_*`, all `llm_client.c`). State: WinHTTP's connection, kept
between requests; per request the attempt, the buffer the body grows in. Hard:
a server that closed the kept connection, a body that breaks off in the middle,
an allocation that fails while it grows. Correct if a caller gets candidates
from a whole answer or a failure, and a closed connection fails no request.

**Style-mode encoder and decoder** (`meteor_encode_styled`, the styled
decoder). Each keeps, in locals: keystream position, text so far, phrase
history, content-word history, subject anchor, last question, last digression
axis, digression latch and counters, phrase count; the encoder an offset into
the message's bits, the decoder the rest of the covertext and the bits so far.
They interact through the covertext only: the decoder has to rebuild every
prompt and every draw with a second copy of the loop. This is the core of the
program and its hardest behaviour: one draw, one word of history, one period
more or less, and everything after it is garbage, without an error. Correct if
the two loops send the same prompts and read the keystream at the same places,
if what is recovered is at any time what was sent, and if the message returns.

**Syllable-mode encoder and decoder** (`encode.c`, `decode.c`). The same idea
per syllable, behind a starting context. State: keystream position, text, the
word being spelled; the decoder finds the words in the covertext first and
spells them again. Hard: the end of a word is a step of coding that leaves
nothing in the covertext but a space, and the decoder has to make it up.

**Syllabifier** (`syllabifier.c`, `meteor_syllabify_word` in `meteor.c`).
Stateless between calls; a loop over neighbouring vowels keeps break positions,
one over the text keeps tokens and counters. Called by neither codec loop.
Hard: positions at zero, behind the end, and between touching vowels, where a
division of a negative number decides. Correct if the syllables rejoin to the
word, tokens count without gaps, and each syllable has a vowel.

**Capacity estimator** (`capacity.c`). Expected bits of a step from a sampled
table, by a second copy of the prefix length. Correct if it expects what the
encoder then sends.

**Keys and ciphers** (`meteor.c`, `prng.c`), **CLI and bindings** (`apps`,
`bindings`): no protocol state of their own; see section 8.

### The job service (Python)

**Job lifecycle** (`jobs.py`, `store.py`): queued, running, then done or
failed. Correct if a job takes each state once, ends, and has a result just if
it is done.

**Local service** (`app.py`, `dispatcher.py`, `worker.py`). One process; state:
the store, the dispatcher's queue, consumer task and executor. Requests and
consumer interleave on the event loop, the executor's thread is on its own;
`stop()` cancels the consumer but not the thread. Correct if one job runs at a
time, in order of submission, and the queue and the store agree.

**GCP service** (`frontend_app.py`, `cloud_tasks.py`, `worker_app.py`,
`firestore_store.py`). Front-ends write a document and enqueue a push; Cloud
Tasks delivers pushes at least once to any worker; a worker has a lock (its one
decode slot), the job in flight, a request handler, a job thread and a SIGTERM
handler. A worker answers 200 before the job is done, so nothing but its own
SIGTERM handler recovers a job in flight. Hard: handlers, threads, redelivery,
SIGTERM, crashes and failing calls in any order, with the shared document read
and written by separate calls; and a push has a budget of attempts
(`infra/terraform/main.tf`), which it also spends on busy workers. Correct if
no slot leaks, no waiting job is without a push and no running one without a
worker, the runs of a job are bounded, and every
accepted job ends.

**Quotas and API keys** (`quota.py`, `auth.py`, `manage_keys.py`). State: the
operator's key records and a counter per key and day, in Firestore; a cache of
records with a TTL in each front-end instance. Three gates decide on a
submission, by counts they read long before the job adds to them. Hard:
instances that submit at once, midnight and changes of keys between any two
calls, calls that fail half-way, a cache filled from an old record. Correct if
limits are exceeded by no more than what races, the daily quota not at all, a
revoked key is refused after the TTL, and the advice to wait is a good one.

**Storage and settings** (`gcs.py`, `settings.py`, `config.py`, `schemas.py`)
and **infrastructure** (`infra/`): configuration and I/O.

The list of what is hard to test, each with its line and the properties aimed
at it, is `hazards` in `PROJECT.json`.

## 2. Modules

    SlotCoding            a table, a word of bits, one step either way
                          SlotCodingProofs: its arithmetic
      MeteorCore          bits of a message, draws, histories
        CodecSession      both sides up to their loops and after them
          StyleCodec      the loops over phrases
          SyllableCodec   the loops over syllables
            Codec         composes them, message to message; the properties
                          CodecProofs
      SlotTable           how a table is built (meteor_build_dist)
        Capacity          what the estimator makes of it
                          SlotTableProofs
    CandidateSet          how a reply becomes candidates (parse_llm_response)
      LLMClient           one request around it, over either HTTP backend
                          LLMClientProofs
    Syllabifier           words into syllables, texts into tokens
                          SyllabifierProofs
    JobLifecycle          abstract: what a job promises
      LocalJobs           local mode, implements it    LocalJobsProofs
      CloudJobs           GCP mode, implements it without faults   CloudJobsProofs
    PushAttempts          the pushes of the GCP mode over time
    Admission             the gates before a job of the GCP mode, and the keys
                          AdmissionProofs

`MC*` modules give the constants of their module for TLC. An operator marked
"mutant" is a plausible bug, not part of the model: the property the manifest
pairs it with fails when it replaces the original.

### Codec: CodecSession, StyleCodec, SyllableCodec, MeteorCore, SlotCoding

`CodecSession` holds the state and what `meteor_encode_impl` and
`meteor_decode_impl` do before and after their loops; `StyleCodec` and
`SyllableCodec` each add the actions of one mode, `Codec` puts them together.
One iteration of a loop is one action: `EncodePhrase` and `DecodePhrase` make
all the draws of the iteration in the code's order, build the prompt, ask the
model, take a step of coding and update every local. `DecoderDraws` and
`DecoderTakes` are written out again, as in `decode.c`, rather than shared with
the encoder: that the two copies agree is the point. The decoder's nested
loops over words and their syllables are `DecodeSyllable` while the word goes
on and, at its end, `DecodeEndOfWord`, or `SkipEndOfWord` when an allocation
or the table fails. The variables `enc.locals` and `dec.locals` are records with the
C locals' names abridged, those of both modes.

Failures come in two kinds. What the code looks at (`EncodeFails`,
`DecodeFails`, key setup and buffers in `BeginEncode` and `BeginDecode`, the
last enlargement of the covertext in `EncodeReturns`) ends the call with an
error. Five it does not notice, and goes on to `METEOR_OK`:

- no memory for the preamble on either side (`Preambles`): all prompts of that
  side lack it, so the sides are `Parted` unless both do. `PreambleBuilt` names
  what may happen; a digression's own preamble is checked;
- a word longer than 511 letters (`MaxPartial`; nothing but the step budget
  bounds a word), of which `Cut` keeps what fits; if the encoder loses letters
  so, `enc.cut` says it;
- no memory for the words of the covertext, which looks like no words
  (`WordsFound`, `dec.wordless`);
- a skipped end-of-word step (`SkipEndOfWord`, `dec.skipped`);
- no memory for the recovered message: the caller is given a null pointer, and
  a length nobody set (`DecodeReturns`, status `NULL`).

The properties hold in spite of each of these or name it as an exception.

*The model* is a function from prompts to tables that is filled in as the
encoder asks (`asked`). A prompt that differs in any field, the decoder's
`Answers` may map to any table. So the checks need no assumption on the model
but that it is deterministic, which the code states and needs (temperature 0,
fixed seed). A prompt is what goes into it as data, not its wording.
The digression's opening, a first request of its own, is represented by what
it depends on.

Abstractions: bytes of `ByteBits` bits, texts over `Char`, the expanded
keystream as a constant sequence per key (ChaCha20 is out of scope), which is
long enough for `MaxSteps + 1` steps: `StepDraws` bounds what one draws, and a
decoder makes up one step more for a word that was left open (section 4).
Candidates of phrases have no punctuation, as the grammar prescribes
(`TablesAssumption`); syllables are letters or the end-of-word mark alone, as
that of `llm_client.c:527-545` and `meteor_core.h:8` have it
(`SyllableAssumption`). Tables are `LaidOut`, as `meteor_build_dist` leaves
them, and prefix-free, as the parser does. A decoder that takes a candidate longer than what is left of the
covertext steps out of the string; what it reads there is undefined, and
`Behind` has it read any text of `Beyond`.

### SlotTable

`Floor`, `TopUp`, `Steal` and `Layout` are one iteration each, and `pc` names
the loop. Probabilities
are exact fractions: integer weights over their sum. Rounding of floats is
outside the model. `Capacity` adds the estimator's two functions of a finished
table, `slot_cp_len` and `expected_cp_len`; what they are compared with is
`EncodeStep` over every value of the keystream.

### CandidateSet

One action per outcome of an iteration (`SkipNotANumber`, `DropConflict`,
`Keep`), plus `Reject` and `Return`; `StoredText` is truncation followed by the
end-of-word mapping. `Say` and `Hear` are the use made of the list: the
encoder writes one candidate, followed by anything, and the decoder looks for
the longest match.

### LLMClient

One request, from the state an earlier one left the connection in. `OpenConn`,
`OpenFails`, `SendFails` and `ConnError` are `winhttp_post` with its second
attempt, `PerformFails` is `curl_post`, which has none (libcurl reopens
connections inside the library). The body arrives in `Pieces`; `ReadPiece`
and `AppendFails` are one call of `growbuf_append`, whose failure libcurl
learns of and the WinHTTP loop ignores; `ReadFails` ends that loop as the
body's end does. A damaged body is rejected by cJSON, or, if it has a hole in
the middle, may read as another reply (`MissTheHole`). `Parse` is
`CandidateSet`'s loop, `Give` the check of the callers
(`llm_client.c:1266-1270`), `Transmit` the use of the answer. `backend` is a
constant of the build.

`IsContinuation` is what the grammar of `build_continuation_grammar` lets a
reply be: as many syllables as were asked for less one, then the end-of-word
mark.

### Syllabifier

`FindBreak` is one iteration of `syllabify_heuristic`'s loop over pairs of
neighbouring vowels; `NucEnd`, `NextNuc`, `Half` (C's division) and
`PastDigraph` are its parts, and `BreakOf` keeps the bounds check. `Pieces`
cuts at the sorted positions; `Sorted` is any order the exchanges may end in.
`Only` is the loop that copies what passes a test, of which the code has two. `SkipNonAlpha`, `CollectWord` and `EmitTokens`
are `syllabify_text`, `TakeWord` and `Join` `meteor_syllabify_word`.

### JobLifecycle, LocalJobs

In `LocalJobs`, what happens between two awaits is one action. `Take` is the
consumer up to its await, `Resume` the rest, `ThreadReturns` and `ThreadRaises`
the thread, `Stop` and `Start` the two ends of a lifespan. `threads` may hold
jobs of an earlier lifespan, since `shutdown(wait=False)` does not stop them.
The histories `submitted` and `started` serve `InOrder`.

### CloudJobs

A call to the store or to the queue is one step. The three flows of a worker
process are `handler`, `thread` and `signal`; while `signal` is active the
event loop does not move, the thread does. `pushes[j]` counts deliveries still
to be made. Faults are actions that spend a bounded budget: `Duplicate`
(Cloud Tasks delivers again), `Sigterm`, `Crash`, and a call that raises, with
or without having taken effect (`EnqueueFails`, `RunRaises`, `DoneRaises`,
`RunUnrecorded`, `RecoverRaises`). The history `lost` names jobs whose recovery
was cut between `mark_queued` and the enqueue, where the code can do nothing.
`stranded` names the jobs a fault leaves in `running` with nobody to run them,
and is filled at the moment it does: a crash while its worker or recovery
looks after the job, a SIGTERM after the status check and before `inflight` is
set, a `mark_running` or `set_failed` that raises, a recovery that raises before
it has queued. `runs` counts the starts of each job by each worker. What
`_work` does when `set_done` raises is two calls and two steps (`DoneRaises`,
then `RunFails` or `RunUnrecorded`).
Firestore, Cloud Tasks and GCS are modelled from how the code uses them.

Not in it: the ten attempts of the queue, so delivery goes on as long as it
has to, and time (`PushAttempts` has both); the gates before a submission
(`Admission`); the text of results.

### PushAttempts

The same pushes with a clock in units of ten seconds. `Refused` is a 429: one
more attempt, the next one after `Backoff`, which doubles from 10 to 160
seconds and is then 300, so the tenth and last attempt comes 1510 seconds
after the first. `Taken` ends the push when the job *starts*
(`worker_app.py:187`), so the queue never sees how many jobs run. Cloud Tasks
is modelled from `retry_config` in `infra/terraform/main.tf`; which worker a
push meets is arbitrary.

### Admission

A request is a record that moves along its `pc`. Authentication is a
dependency that FastAPI runs in a thread, so lookups of one instance overlap:
`LookupHit` and `LookupMiss` read the clock and the cache, `ReadRecord` the
store, `Remember` writes the cache, with the clock of the first step.
`_submit` is a coroutine that never awaits, so an instance makes one
submission at a time (the guard of `BeginSubmit`), but each call it makes to
the store is a step of its own: `CheckBacklog`, `CheckActive`, `Charge` (the
increment), `CheckUsed` (the read behind it), `Create`, `Enqueue`.
`CallRaises` ends a submission at any of them, whether or not the call took
effect. A key's record is the number of changes made to it; odd versions are
valid, as `manage_keys.py` disables and enables in turns, and `replaced` keeps
when each version ended. `StartJob`, `FinishJob` and `RequeueJob` are
`CloudJobs` as far as the counts see it, and so are the losses: `LosePush` (the
queue drops a push after ten attempts, or a recovery does not get to it) and
`LoseWorker` (a crash, or a SIGTERM in the window of section 4) leave the job
`queued` or `running` for good, in `stranded`, up to `MaxLosses` of them. `Tick` is the clock of the caches,
`Midnight` that of `utc_day`, and they are independent, as in the code
(`time.monotonic` and the wall clock). Minting of keys and
`REQUIRE_API_KEY=false` are left out.

## 3. What the runs check

Distinct states in brackets.

| run | instance | question |
|---|---|---|
| `codec` [247617] | both modes, 4 messages of 0 to 4 bytes, 4 keystreams, 2 tables of phrases, 2 of openings and 2 of continuations of a word, 6 steps, bytes of 2 bits, a buffer of 8, histories of 2, words of 4 letters; either side's preamble may fail | Do encoder and decoder stay in step, does the message survive, and what is left of it when one of them is led astray? |
| `codec_terminator` (violation) | 5 steps, room for all bits | Does the decoder stop only at the terminator? |
| `llm_client` [215338] | either backend, any connection; a body of 3 pieces, 1 fault, 1 failed allocation; replies of up to 3 of 7 keys, 3 values each (2 for the third); limit 2, texts of 2 | Does a caller get a whole answer or none, and are its candidates prefix-free, the earliest, able to end a word, and recognised? |
| `slot_table` [99080] | all sequences of up to 5 of 5 weights, and of 9 of 2, 8 slots | Is the table a partition with everyone in it, do its steps invert, and does the estimator expect what they send? |
| `syllabifier` [56385] | texts of up to 5 of 5 characters, words of up to 6 letters; one vowel, a cluster of 3 consonants with 2 digraphs | Do syllables rejoin, count without gaps, and have a vowel each? |
| `local_jobs` [2765] | 3 jobs, 2 lifespans | Does the local service keep the stages, the order and one job at a time, and end what is queued? |
| `admission` [924976] | 3 requests of one caller, 2 instances, one change to and from valid, 1 failing call, 1 job given back, 1 lost push or worker; limits 1 (backlog), 1 (in flight), 2 (a day), a TTL of 1 | By how much do racing submissions exceed the limits, is a revoked key refused in time, and when does waiting help? |
| `cloud_calm` [6391] | 3 jobs, 2 workers, no faults | Does the cloud service implement the lifecycle, liveness included? |
| `cloud_redelivery` [17431] | 2 jobs, 2 workers, 2 redeliveries | Does every accepted job still end, for good? |
| `cloud_storm` [1667031, symmetric] | 2 jobs, 2 workers, one redelivery, SIGTERM and crash, 2 failing calls | Can a slot leak, a waiting job lose its push, a running job its worker, and how often may a worker run a job? |
| `push_attempts` (violation) | 4 jobs at once, 1 worker, 7.5 minutes a job | Does no job wait longer than the backlog limit promises? |
| `cloud_finished` (violation) | 1 job, 1 worker, 1 SIGTERM | Is a finished job left untouched by the recovery? |

**Why the properties.**
`PromptLockstep` and `KeystreamLockstep` compare two histories, step by step,
and localise a divergence long before the message is lost. `AlwaysRecognised`
says that the decoder's fallback to candidate 0 is taken only past the
encoder's last phrase, which needs a message longer than the buffer
(`PastTheEnd`, section 4), or where the decoder is led astray (`Misled`).
`KeystreamLockstep` has no such exception: it is checked also where the two
sides get different answers to different prompts.
`RecoveredIsPrefix` says what the decoder has at any time, so also when it
runs out of steps; `RoundTrip` is the codec's promise, under the conditions
that the next section explains. `DigressionsAreIsolated` follows from a rule
that is spread over a draw, a latch and two counters.
`StepsInvert` quantifies over every message window and mask for every table
`meteor_build_dist` can build, so `codec` may take its tables as given.
`LargestRemainder` and `RankKept` are what the two passes over the counts
promise together. `EstimateIsMean` compares the estimator's copy of the prefix
length, weighted by counts, with the encoder's, summed over ranges.
`EarliestKept` fixes which keys survive. `AnswerIsModels` and
`StaleIsForgiven` say what failures may do to a request, over both backends;
`WordsCanEnd` ties a bound in a grammar to a limit in the parser, two functions
that know of each other only by a comment. `NucleusInEach` and `DigraphsKept`
say how far the heuristic's intentions reach, and name the exceptions.
`SlotHasOneHolder` is an equivalence: one direction excludes the worker that
answers 429 for ever, the other a second job in the slot.
`QueuedHasPush` is what the recovery exists for. `PayloadWhileRunnable` is
why a rerun is possible. `RunningHasRunner` is the same for `running`: what
is not in the hands of a worker or a recovery was left there by one of the
faults that `stranded` names, each at its window; it holds under all faults.
`RunsBounded` is what the status check achieves: however often a job's push is
delivered, one worker process runs the job once, and once more at most after
each SIGTERM. That only one worker runs it is false (section 4).
`WaitingHelps` says that a caller told to wait gets a place, unless a job of
his was lost; without that exception it is false (section 4).
`BacklogBounded` and `ConcurrencyBounded` count, next to the jobs, the
requests that have passed the gate already, and so give the exact price of
reading before writing: one job per other instance. `QuotaKept` says that the
last gate pays nothing for it, since its counter is raised before it is read.
`RevocationInTime` relates what a lookup decides by to when that version was
replaced; it is false if the clock is read after the record.

The type invariants of `CandidateSet`, `LLMClient`, `LocalJobs` and
`CloudJobs` are proved (section 6) and in no run.

**Why the bounds are enough.** The style mode's two tables have candidates of
no, one and two bits and a phrase of two words, so steps end at every offset
in a byte and the longest message may fill five of the six steps.
Six steps give three sentences, so there are openings, continuations,
digressions and a sentence after one; histories of two are full after two
steps; `MaxRecoveredBits = 8` truncates the longest message, which has ten
bits with its terminator, while twelve fit into six steps. Keystream 0 is
all zeros, which makes every redraw fail and every rare draw succeed. Five
weights of {0, 1, 3, 4, 20} in eight slots give vanishing, even and
dominating candidates, nine weights are one more than there are slots;
replies of three keys with a limit of two reach the limit with keys left. Three
pieces are what a hole in the middle needs; one fault and one failed allocation
strike at any call. A word of six letters has room for three vowels that touch
and for two around the whole cluster; blanks and capitals make texts of up to three words. Two workers are what a race of workers needs, two jobs
what a busy worker needs; one fault of each kind, and two failing calls (a
`set_done` and the `set_failed` behind it), may strike in any order and at any
step. Words are cut at `MaxPartial` = 4 letters, which the tables of `codec`
exceed in three steps. A decoder with other prompts than the encoder's may get
any table at each of its steps. In `admission`, three requests on two instances are one more
than every limit of a caller in flight allows with the race, and one more than
the daily quota; one key disabled and enabled again gives a revoked, a
restored and a cached version; two days and two clock values put midnight
and expiry between any two steps.

A run never says that the system may not stop: every `.cfg` has
`CHECK_DEADLOCK FALSE`, because a codec session ends and a service whose jobs
are finished waits.

## 4. Where code and documentation disagree

Each is a run expected to fail; the counterexample is the run's output.

- `codec_terminator`: `null_terminator_found` (`decode.c:15`) looks at the
  last eight bits wherever a step left off; `ARCHITECTURE.md:793` says the
  check is made at byte boundaries. Two neighbouring bytes of a message with
  eight zero bits across their border may end the decoding early.
- `cloud_finished`: the recovery's read and write are two calls while the
  job's thread goes on; a job that gets done in between goes back to `queued`,
  without its payload (`worker_app.py:66`).
- `push_attempts`: `quota.py:79-81` has the limit on the backlog double as the
  worst-case wait, ten jobs of 7.5 minutes. A push that meets busy workers
  spends its ten attempts within 1510 seconds; the fourth of four jobs accepted
  at once by one worker is dropped then and stays `queued`, in the backlog, for
  good. With the four workers of the autoscaler fourteen jobs at once lose
  some in the same way.

Seen while modelling, and not given a run:

- Neither side looks whether its preamble was built (`encode.c:40`,
  `decode.c:105`). Without memory it is NULL, every prompt goes out without it,
  the model may answer otherwise than on the other side, and the call returns
  `METEOR_OK`; `README.md:221` has the decoder ask "for the **identical**
  candidate set". The preamble of a digression is checked (`encode.c:151`). The
  `codec` run has the failure; what it breaks names it as `Parted`, and is
  false without that exception.
- A job may run on two workers at once: its status is read, checked and set by
  separate calls (`worker_app.py:196-199`), so a redelivered push passes on a
  second worker, and the recovery's push is taken while the terminating
  process's thread goes on. `cloud_tasks.py:42-43` says of that push that the
  status "still prevents a double-run". Runs are deterministic, so this costs
  time, not the result. `cloud_storm` has both; `RunsBounded` is what holds.
- `quota.py:97` tells a caller with too many jobs in flight to wait for one to
  finish. A job whose push the queue has dropped, or whose worker was killed, is
  counted in flight (`quota.py:93`) for good; `WaitingHelps` excepts its owner
  (`Stuck`), and is false without that.
- The decoder's buffer has 8192 bits and drops what does not fit
  (`decode.c:276`), so of a message of 1024 bytes or more it never recovers the
  terminator. `encode.c:240-242` says "decode stops consuming the covertext the
  moment it recovers the null terminator and never looks at whatever trailing
  text follows"; but if the encoder's loop left a sentence open, this decoder
  makes a step of its own on the closing period: it asks the model, matches
  nothing, takes the first candidate and steps over its length, out of the
  string (`decode.c:263-265`, `:300`). What it recovers is not touched, because
  the buffer is full. `PromptLockstep` and `AlwaysRecognised` are false without
  their exception `PastTheEnd`.
- The style loop that reaches `max_steps` returns a partial covertext with
  `METEOR_OK` (`encode.c:90`); `meteor.h:185` has `METEOR_ERR_CAPACITY` for a
  message too long for `max_steps`. `RecoveredIsPrefix` says what arrives.
- With more candidates than slots a candidate's range is empty and its end -1,
  which the lookup compares unsigned (`meteor_core.c:150`). If it is the first
  candidate, its end is -1 and every value falls into its range. The service's
  limits allow it (`schemas.py:73-74`). Such a step sends no bits, so the two
  sides still agree (`StepsInvert` holds); it only wastes the step.
- `syllabifier.c:151-153` says "two adjacent vowel groups — no break", but
  vowels that touch count as -1 consonants and are split; of three, the two
  breaks coincide and one syllable is empty, since the loop under
  "deduplicate/sort breaks" (`syllabifier.c:171`) only sorts. Stepping off a
  digraph may end inside the next one, though digraphs "must not be split"
  (`syllabifier.c:63`): "astra" becomes "ast" and "ra".
- The grammars of phrases and openings put no bound on the number of
  candidates, although the note at `llm_client.c:371-380` has bounded
  repetition as the rule.
- With `num_candidates` 1 the continuation grammar still asks for a syllable
  and the mark, of which the parser keeps the first: words never end.
  `WordsCanEnd` is checked with a limit of 2 and proved for every other than 1.
- The WinHTTP read loop ignores a failed `growbuf_append`
  (`llm_client.c:197`) and takes an error for the end of the body;
  `AnswerIsModels` excepts the first; the second does no harm, because an
  object that is cut off is no JSON.
- The estimator's `candidates[0]` need not be the most probable one, as the
  comment at `capacity.c:126` has it, and it samples words while the styled
  encoder sends phrases.
- `extract_words` returns NULL and a count of 0 when it has no memory
  (`decode.c:52`, `:64`). Its caller (`decode.c:346`) takes that for a covertext
  without words and returns an empty message with `METEOR_OK`; `RoundTrip`
  excepts it (`dec.wordless`).
- `bits_to_bytes` without memory (`bits.c:32`) returns NULL and does not set the
  length, which `meteor_decode_impl` passes on uninitialised, with `METEOR_OK`
  (`decode.c:484-487`).
- A word is cut at 511 letters on either side without an error (`encode.c:309`,
  `decode.c:411`). Nothing but the step budget bounds a word, so an encoder
  whose word the bits never end loses what it spells after that. `enc.cut`
  names the case.
- A failed job may have a result: `set_done` takes effect and raises, and
  `set_failed` follows (`worker_app.py:206-212`).
- A submission whose push fails leaves a job in `queued` that no worker will
  see (`frontend_app.py:82`). It counts against its owner and the backlog
  for good; `Orphans` in `WaitingHelps` excepts its owner.
- Two submissions of one caller may both raise the counter before either
  reads it (`quota.py:57-60`); if one place was left, both are refused.
- `enforce` treats a limit of 0 as off (`quota.py:92`, `:102`), but a 0 in a
  key's record becomes the default (`auth.py:67-69`); only a negative one
  switches a gate off.
- With `REQUIRE_API_KEY=false` nothing sets `app.state.usage`
  (`frontend_app.py:43-46`), which `_submit` reads (`:79`).
- In syllable mode a decoder that cannot allocate the end-of-word step or its
  table goes on without it (`decode.c:431`, `decode.c:438`), though the
  comment above (`decode.c:418-422`) says that skipping the step desyncs the
  stream silently and has to be an error. The model has it as
  `SkipEndOfWord`. `PromptLockstep` and `AlwaysRecognised` hold all the same;
  `KeystreamLockstep`, `RecoveredIsPrefix` and `RoundTrip` except it
  (`dec.skipped`), and are false otherwise.
- An encoder that runs out of steps inside a word closes the word without an
  end-of-word step (`encode.c:313`), and the decoder makes one up
  (`decode.c:418`). Its bits come behind all that was sent, so only a message
  that is truncated already is affected; `Dangling` in `Codec` names the case.
- An object in which no value is a number yields an empty response
  (`llm_client.c:795`), where `llm_client.h:161-162` says NULL; all callers
  reject it (`llm_client.c:1266-1270`), which is `Give`.
- A SIGTERM between `mark_running` and the assignment of `inflight`
  (`worker_app.py:199-202`) finds nothing to recover, and the job stays
  `running`; so does one whose process is killed, and one whose `set_failed`
  raises. Nothing sweeps such jobs. `RunningHasRunner` excepts these windows and
  nothing else.
- `stop()` leaves a running thread behind, so for a while after a restart of
  the lifespan two jobs may run (`dispatcher.py:55`, against lines 4-7).
  Therefore `OneAtATime` and `InOrder` speak of the first lifespan.

## 5. Fairness

`LocalJobs!FairSpec`: weak fairness of `Take` and `Resume` (the event loop
runs what is ready) and of a thread's end (a run makes at most `max_steps`
requests, each with a timeout). None of `Submit`, `Stop` and `Start`, so
`QueuedJobsEnd` excepts a service that is stopped.

`CloudJobs!Fairness`: weak fairness of each flow of a worker; of a started
submission; of the delivery of each job's push, which is what the retries of
Cloud Tasks amount to while attempts last; and of the replacement of a process
that ended (the Kubernetes deployment). A push that finds every worker busy is
not refused for ever under weak fairness because runs end, and finished
jobs free slots that only finitely many other jobs compete for. No fairness of
faults. The liveness properties are checked without SIGTERM, crashes and
failing calls, which can leave a job in `running` for good (section 4).

`Admission!FairSpec`: weak fairness of `Enqueue` (a submission that has
written its job is alone on its event loop, and its next call returns or
times out), `StartJob` and `FinishJob`. These two are enabled only as long as
neither the push nor the worker was lost (`Carried`), since the code carries a
job no further: the queue tries ten times and nothing sweeps `running`. None of `RequeueJob`, `CallRaises`, changes of keys or
clocks.

`Codec`, `SlotTable`, `CandidateSet`, `LLMClient` and `Syllabifier` have safety
properties only: their loops are bounded. `PushAttempts` states a bound on
time, and time passes when no delivery is due.

## 6. What is proved

For every value of the constants, that is any number of jobs, workers, faults,
lifespans, front-end instances and requests, any reply and any limit. The assumptions are the `ASSUME`s of the
modules, which TLC evaluates.

**LLMClientProofs**, first half, on `CandidateSet`: `TypeCorrect`,
`CandidatesPrefixFree`,
`DecoderHearsEncoder`. `IInv` is the type invariant, `PrefixFree` and
`Transmission` (after `Say`, the covertext goes on with the text of the
candidate said). `PrefixFree` alone is inductive under `Keep` by
`ConflictIsPrefix`: the `memcmp` over the shorter length is the prefix test in
both directions. The last theorem adds `PrefixesAreComparable`: two texts the
covertext goes on with are prefixes of one another, so in a prefix-free list
only the one that was said fits (`OnlySaidFits`), whatever follows it.
`EarliestWins` needs `Sources`, that every candidate came from a key the loop
has passed.

Second half, on the whole request: `AnswerIsWhole`, `StaleForgiven`, `RequestPrefixFree`,
`RequestKeepsEarliest`, `RequestIsHeard`, `EveryWordCanEnd`. The invariant `RequestInv` follows a
hole from where it arises (`HoleInv`: only after a failed allocation, never
with libcurl), a connection from where it is stale (`ConnInv`: on the first
attempt only), and says that the loop has not begun while the body may still
change (`LoopInv`). From the last, `LoopSteps`: each step of a request is one
of `CandidateSet`, or none, or leads to one of its initial states. So the
invariants of the first half carry over, with their lemmas.
`EveryWordCanEnd` has the hypothesis `MaxCandidates # 1`, without which it is
false (section 4). It needs `LoopEnds`: when a request is answered, the loop has
looked at the whole reply or has as many candidates as were asked for. A
continuation is no longer than the limit, so its last key, the mark, was looked
at; it is then kept, or in the way of a candidate kept before it
(`EarliestKept`), which starts with no character of the mark
(`MarkAssumption`) and so cannot be.

**AdmissionProofs**: `TypeCorrect`, `RevocationEffective`, `QuotaHolds`,
`BacklogLimited`, `ConcurrencyLimited`. `TypeOK` holds two facts that the rest
needs: an instance is in at most one submission, and there is no job of a
request that is still in the gates. `RevocationInTime` is not inductive, for a
lookup may find what another one cached: `KeysInv` says of every entry, and of
every record read but not yet cached, how old it can be. For the quota,
`QuotaInv` counts the requests that raised a day's counter (`Charged`) and
those past the last gate (`Admitted`): when one passes, all that were charged
are within the counter it has just read. The two other gates read a count and
act later; what they did not count is past the gate, at another instance, and
there is one such request at each (`OneAtEachInstance`, an injection into the
instances). `GatesAreTheWay` says that no other step adds to the counts.

**CloudJobsProofs**: `TypeCorrect`, `SlotHeldByOne`, `NoJobForgotten`.
`IInv == TypeOK /\ SlotHasOneHolder /\ QueuedHasPush`, together with
`RecoversWhileDraining`: without it a second SIGTERM could discard a recovery
that is about to enqueue. The type invariant ties a record's `job` to its
`pc`, which each step needs to know whose document it writes. `QueuedHasPush`
needs `SlotHasOneHolder`, since a push handed to a handler counts as on its
way only as long as the handler is not overwritten. One lemma per action, one
step in it per conjunct.

Two more hold under all faults. `RunningIsRun` has `Noted` beside the property:
a worker past the window has noted its job, so a SIGTERM hands the job to the
recovery. `RunsFew` bounds the runs of a job by a worker (`RunsBounded`). Its
invariant `RunsInv` counts a `Credit`: the runs made, the one about to be made
(past `mark_running`), and the one that may be made while the job can pass the
status check. The check turns the third into the second, `Reply` the second
into the first, and only a recovery gives the third again; recoveries that have
yet to do so (`Pending`) and those that have are no more than the SIGTERMs.
What the check does not exclude is a run on another worker, which is why the
bound is per worker.

Two hold for some of the faults only, and say so in their hypotheses, each of
which excludes the faults for which the property is false (section 4).
`StagesKept` (no redelivery, SIGTERM or failing call) rests on `RunInv`: of each
job there is one token, which is its submission, its push or the handler that holds it
(`OneToken`), and at most one flow of control between the handler's check and
the end of the thread (`OneRunner`). `StagesKept` is the refinement
of `JobLifecycle!Safe`; crashes do not break it, since a crash moves no job.
`PayloadKept` (no SIGTERM) is inductive next to `IInv`.

**LocalJobsProofs**: `TypeCorrect`, `StagesKept` (every behaviour of
`LocalJobs` is one of `JobLifecycle!Safe`, a refinement), `RunsOneAtATime`,
`StartsInOrder`, `QueueAndStoreAgree`. The first two rest on `Staged`: jobs in
the queue are `queued`, each once; jobs in a thread are `running`; and a job
whose exception has not been looked at is still `running`, in no thread. The
others rest on `OneLife`, which holds of the first lifespan: the thread's job
is the one awaited, and `submitted` is `started` followed by `queue`.

**SlotCodingProofs, SlotTableProofs**: `TypeCorrect`, `SharesAreRounded`,
`RankSurvives`, `AllReachable`, `TablesLaidOut`, `EncodingInverts`,
`EstimatesAreMeans`, for any weights and any `Beta`. `SlotCodingProofs` has the arithmetic: shifts, the value
of a string of bits, and that all words between two ends share the ends'
common prefix. From it `StepInverts`: on a `LaidOut` table a step of decoding
gives back the bits a step of encoding counted. The invariant of
`SlotTableProofs` follows the passes. While flooring, counts and fractions add
up to the weights seen so far; while topping up, a candidate has been given at
most the one slot that takes its fraction below zero, and as long as slots are
left some fraction is above it, so the sum of the fractions is what is still to
be handed out. While stealing, all slots are handed out (`total = Slots`) and
ranks differ by one slot at most (`Ranked`); a donor with
two slots exists while a candidate has none, by the pigeonhole. The ranges of
the layout then are `LaidOut`. `EstimatesAreMeans` compares a sum over
candidates with one over all masks. Masking is its own inverse, so over all
masks every word comes up once (`MaskedWords`). The bits sent depend on the
candidate whose range holds the word only, so their sum over words is one over
candidates, each weighted by its slots (`SumByClass`, `MasksOfCandidate`); and
the encoder's and the estimator's copies of the prefix length agree
(`CopiesAgree`).

**CodecProofs**, first half: `PromptsInStep`, `MasksInStep`, `PhrasesRecognised`,
`PrefixRecovered`, `MessagesComeBack` for the style mode, for any keystream,
message, budget, sizes of buffers and histories, and any model; and
`DigressionsApart` for both modes. The model is assumed to answer with tables
that are `LaidOut` and prefix-free and of phrases as the grammar has them
(`TablesAssumption`): `TablesLaidOut` and `CandidatesPrefixFree` prove that of
the code. The assumption is the only link between the modules.

The argument is that the decoder's locals before its n-th step are the
encoder's before its n-th, though it has nothing but the covertext. `Encoded`
says what the history `asked` is worth: the locals before step n + 1 are what
`EncodePhrase` makes of those before step n and of the answer (`Follows`), and
texts only grow (`Grows`), so that no two prompts are equal and the decoder,
sending the n-th, gets the n-th answer (`Answers`). `Decoded` says
that the decoder is `InStep(n)` for the number n of steps it has made: same
locals, the rest of the covertext behind the text of those n steps, and in its
buffer the bits sent so far, padded and cut at the buffer's end. The step of
the proof is `DecoderFollows`. `Recognition` finds the phrase, because what
follows in the covertext is that phrase and then a space, a period or nothing,
and in a prefix-free table only one candidate fits; `LoopsAgree` compares the
two copies of the loop; `StepInverts` yields the bits. When the encoder's steps
are used up and the decoder goes on it is `OffTheEnd`, with a full buffer:
this case is what made earlier forms of `PromptLockstep` and
`AlwaysRecognised` false (section 4). And a decoder that lacks the preamble the
encoder had, or has the one it lacked, is `Astray` from its first step: other
answers, other phrases, other texts. What it draws depends only on where
sentences end, which is itself drawn (`DrawsAlike`), so the masks stay in step. `MessagesComeBack` adds
`BytesBack`, on `bits_to_bytes`: cut at the first byte of zeros, the padded
bits are the message. The invariant `SInv` is the conjunction; TLC checked it
on the instance of `codec` first. `DigressionsApart` has an invariant of its
own, `DInv`: `Remembers` ties the latch and the counters of the locals to the
opening of the last sentence in `asked`.

Second half, the syllable mode. The decoder has no text to walk along, only
the words `ExtractWords` finds in the covertext, and must know from them alone
where a syllable and where a word ended. `WInv` is `Written` and `ReadBack`.
`Written` has the encoder at a place made of the words written and the part of
the next one; each step leads on, to a longer part or into a later word
(`Leads`), so once more no two prompts are equal. It ends with what
`ExtractWords` makes of the covertext: those words and no others, whatever
spaces the joins put between them. `ReadBack` has the decoder stand at the
encoder's place after as many steps (`StandsAt`): the same text and part, the
words still to do, and what is left of the first of them. While something is
left it is the rest of that word, so the syllable is recognised; when nothing
is, the encoder's step was the mark, which no letter is a prefix of. Two cases
leave the lockstep within `ReadBack`: `Along` lets a decoder that skipped an end-of-word step
have other draws but the same prompts, and in `PastWord` it has ended a word
that the encoder left open (`Dangling`), with bits of its own behind all that
were sent. A decoder whose encoder cut a word, or who lost the words, is in
`Misread` instead, of which only its draws are known.

From both halves: `PromptsAlwaysInStep`, `MasksAlwaysInStep`,
`CandidatesRecognised`, `PrefixAlwaysRecovered`, `EveryMessageComesBack`, which
are the run's properties as they stand, and `TypeCorrect`. The last has `TInv`
beside the other two: steps are counted, the place in the keystream is at most
`Limit` of the steps made (`Sends`, `Hearing`), so no draw is ever read behind
its end, unless the encoder cut a word, whose letters may take the decoder more
steps; histories keep their length, and the decoder's buffer its own.

**SyllabifierProofs**: `SyllablesRejoin`, `TokensNumbered`,
`SyllablesHaveNuclei`, `DigraphsUncut`, for any alphabet, any digraphs that
start with a consonant, as those of the code do (`syllabifier.c:66-72`), any
text and buffer. The work is about one word. Its vowels' places ascend with
none between neighbours (`VPosIs`, `NeighboursIn`), so `NucEnd` never leaves
the first vowel of a pair, while `NextNuc`, where vowels touch, goes back
through the whole run. Every pair then gets a break (`BreakIs`), in front of
the second vowel or earlier (`Splits`), or half-way into the run (`Touches`);
the bounds check of the code never drops one. Of two pairs in a row the breaks
come in order, with a vowel between them, or coincide between three vowels
(`BreaksApart`). So the sort moves nothing (`SortedIs`: an order without
repetition that differs from the given one would, by the pigeonhole, pass over
something smaller), and the pieces rejoin (`PiecesRejoin`). The invariant `Inv`
then says what is read (`Spelt`: tokens and the current word spell it) and how
tokens are numbered (`InOrder`, `EndWord`).

What a recursive function computes over a string of bits, a sum or a sequence
is proved by `UpTo`, induction in the form of a set that contains 0 and with
each number the next one, or by `ByAppending`, the same over sequences.

Only model-checked is what is out of the prover's reach, liveness under
fairness: `QueuedJobsEnd`, `KeepsLifecycle` (whose safety part is `StagesKept`),
`EveryAcceptedJobEnds` and `WaitingHelps`. Every invariant of every passing run
is a theorem, `PayloadWhileRunnable` for a service that is not terminated.

## 7. Plan

Done, in this order: SlotCoding, MeteorCore, Codec; CandidateSet with its
proofs; SlotTable; JobLifecycle, LocalJobs with its proofs; CloudJobs with its
proofs; Admission; LLMClient, Syllabifier, Capacity, PushAttempts; the proofs
of Admission and LLMClient; those of the cloud service with part of the
faults, of SlotTable and of the codec's style mode; of its syllable mode, its
types, the estimator and Syllabifier; the failures nobody notices, and what
holds of running jobs and runs under every fault. Left:

1. *One proof across the modules*: `TablesAssumption` and `SyllableAssumption`
   are what the other modules' theorems say of the code; a module that has the
   answers made by `SlotTable` and `LLMClient` would discharge them.

Where a new run is needed, one that asks a weaker question of the same module
is merged into it: a dozen questions are what a reader follows.

## 8. Not modelled

- Key derivation and ciphers: no protocol state; a keystream is a constant.
- JSON and the wording of prompts: only what a prompt depends on matters to
  both sides' agreement. The health check: one GET without state.
- The optional libhyphen backend of the syllabifier: a library behind the same
  two callers.
- Float rounding in `meteor_build_dist`, and `1 << beta` for `beta` 31: the
  model computes with exact integers.
- The estimator's averages over samples and its expansion factors per style:
  float arithmetic without cases.
- CLI, bindings, GCS, settings, schemas, OIDC, Terraform, Kubernetes:
  configuration and I/O without state of their own. From them come the
  timeouts, limits and the grace period that the fairness rests on.
- Expiry of usage counters (the TTL policy in `infra/terraform/main.tf`): jobs'
  documents have none and stay.
