# A TLA+ verification of the NLP server

`src/` is a client/server system in C for three text operations (word count,
topic, summary). One server process takes requests over TCP, queues them for
one processing thread, and answers; an admin client asks it over a Unix socket
for the list of clients and the length of the queue. This directory holds
TLA+ modules translated from that code, TLC configurations that check them on
small instances, and TLAPS proofs, for every size, about the request queue, the
server, the wire protocol, the summary and the processing thread. It covers the
threads of the server, the bytes on the wire, and the text algorithms that
compute the answers.

## 1. The system

| Part | Where | State | Operations | What makes it correct |
|---|---|---|---|---|
| Request queue | `server.c:27-87` | ring of 100 slots, `front`, `rear`, `count`, a mutex, `not_empty`, `not_full` | `enqueue` (handlers), `dequeue` (processing thread), reading `count` (main) | a FIFO; no wakeup lost; nobody waits for ever |
| Client list, handlers | `server.c:202-255` | `clients[0..client_count-1]`, `clients_mutex`; per thread `client_fd`, `req`, `proc_req` | read a request, enqueue it, count it; at the end remove the entry and close | entry, handler and descriptor agree; no request lost; everything is given back at the end |
| Accept loop | `server.c:306-423` | two listening sockets, `revents` | poll, accept, register, start a handler | clients get a handler; the limit is kept |
| Admin interface | `server.c:258-304` | `admin_resp` | one command per connection, run by the main thread itself | one consistent answer; the accept loop comes back |
| Processing thread | `server.c:89-199` | the request, `collection`, the Bayes classifier | dequeue, add the text to the collection, compute, send | every request answered, to the right client |
| Wire protocol | `protocol.c`, `protocol.h` | the stream | four pairs of send and receive functions, one `write`/`read` per field | what is received is what was sent |
| Clients | `client.c`, `nlp_client.py`, `admin_client.c` | one connection | connect, send, receive, close | size limits agree with the server's |
| Text algorithms | `nlp.c` | token lists, arrays of sentences; the classifier's tables and the collection, which live as long as the thread | tokenise, count, classify, train, summarise | the summary is a best choice in the order of the text; a topic is learnt once, for the right domain; searches report no word that is not there |

How they interact. The main thread hands each accepted descriptor to a new
detached handler thread. A handler puts `ProcessingRequest` values, which carry
the *number* of the descriptor, into the queue; the processing thread takes
them out and writes the response to that number, without the handler. Handlers
and the main thread share the list of clients, in which an entry is also found
by the descriptor's number. The kernel reuses numbers, lowest first. So the
same small integer is, in five places, the name of a connection, and the places
are brought up to date at different moments by different threads.

What is hard to test: orders of those moments; a queue that is full or empty at
the moment of a signal; clients that leave between a request and its answer, or
between two writes of the answer, or do not read it; texts that arrive in pieces;
commands that never come; answers that depend on every request before. Section 8 lists what can go wrong and which property covers it.

## 2. Modules

| Module | Models | |
|---|---|---|
| `BoundedFifo` | what the queue promises | abstract specification |
| `RequestQueue` | ring, mutexes, condition variables of `enqueue`/`dequeue` and the admin reads | implements `BoundedFifo` |
| `RequestQueueProofs` | | theorems about `RequestQueue` |
| `Server` | all threads, the client list, descriptors, the programs at the other end | composed with `BoundedFifo` |
| `ServerRegistryProofs` | | invariant of `Server`: types, who owns which descriptor and entry |
| `ServerProofs` | | theorems about `Server`, for all programs |
| `ServerAnswersProofs` | | theorems about `Server`, for patient programs |
| `Wire` | messages as fields on a byte stream | |
| `WireProofs` | | theorems about `Wire`, and the lemmas that a receiver asks for the fields that its sender writes |
| `Text` | the functions of `nlp.c` on texts: words, tokens, sentences, `strcasestr`, TF-IDF, scores | operators |
| `TextProofs` | | lemmas about `Text`: sentences, words, tokens, the search, scores |
| `BestSentences` | what `generate_summary` promises | abstract specification |
| `Summary` | the loops of `generate_summary` | implements `BestSentences`; uses `Text` |
| `SummaryProofs` | | theorems about `Summary` |
| `Classifier` | Bayes classifier and keyword topics | operators; uses `Text` |
| `Processing` | the processing thread: one request after another, what it remembers | composed of `Classifier` and `Summary` |
| `ProcessingProofs` | | theorems about `Processing` |
| `MCRequestQueue`, `MCServer`, `MCWire`, `MCSummary`, `MCProcessing` | | constants for TLC |

`Server` uses the abstract queue and not the ring: since `RequestQueue`
implements `BoundedFifo`, an `enqueue` is one `Put` and a `dequeue` one `Get`.
`Server` in turn takes messages as whole; that they are is the question of
`Wire`. `Server` leaves open what an answer says, `Processing` leaves out the
queue before and the socket after the processing thread: the thread is
sequential, so what it computes depends on the order of the requests only,
which `NothingLost` and `AnswersInOrder` of `Server` are about.

Operators named `...Bug` are single plausible mistakes (a dropped guard, a
missing signal, two calls swapped). No specification uses them. Each property
of a passing run has one: with it in the place of the definition that follows,
TLC must find the property violated, so no property holds only because the
model could not break it.

### RequestQueue

One step is a critical section up to its `pthread_cond_wait` or unlock. `pc[t]`
says where a thread is: `lock` (about to take the queue's mutex), `held` (owns
it, at the test of the `while`), `wait` (in `pthread_cond_wait`), `clients`
(about to take `clients_mutex`). `not_empty` and `not_full` are the sets of
threads asleep on each condition variable. A signal removes any one sleeper; a
woken thread competes for the mutex with all others (`Acquire`) and tests its
condition again; `SpuriousWakeup` removes a sleeper without a signal, as POSIX
allows.

| Code | Action |
|---|---|
| `enqueue`, lines 59-61 / 63-69 | `EnqueueWait` / `EnqueueInsert` |
| `dequeue`, lines 76-78 / 80-86 | `DequeueWait` / `DequeueTake` |
| handler builds `proc_req`, calls `enqueue` | `CallEnqueue` |
| handler updates its entry under `clients_mutex` | `UpdateClientInfo` |
| `ADMIN_GET_QUEUE_STATUS`, `ADMIN_GET_CLIENTS`, the read of `count` | `AdminQueueStatus`, `AdminGetClients`, `AdminReadCount` |

### Server

`fds` is the descriptor table: which connection is open at each number.
`Accept` takes the lowest free number, `CloseFd` frees one. `peer`, `sent`,
`inbox`, `outbox` describe the programs at the other end and what travels.
A connection is identified by name, so that the model can say whose answer
arrived where; the code has only the number.

* Handler of connection `c`: `HandlerReceive`, `HandlerEnqueue`,
  `HandlerCount`, back to the start; `HandlerFail`, `HandlerRemove`,
  `HandlerClose` at the end of the stream or on a text that is too long
  (type `"oversized"`). `remove_client` swaps the last entry in.
* Processing thread: `Dequeue`, `Process`, then one `SendPart` per write. A
  write to a closed descriptor fails and the thread goes on to the next
  request, as the code does, which ignores the result. A peer that closes with
  bytes it has not read resets the connection at once; one that had read all
  may reset it when the next bytes come (`reset`). A write after that is told
  of the reset as an error, or raises SIGPIPE, for which the program has no
  handler: `alive` becomes FALSE and no thread takes a step. A client in `Deaf`
  does not read: after `SocketBuffer` writes the next one blocks (`Blocked`)
  until it goes.
* Main thread: `Poll`, `AcceptClient`, `RegisterClient`, `SpawnHandler`,
  `AcceptAdmin`, `AdminReceive` or `AdminHangup`, `AdminCopyClients`,
  `AdminReadQueue`, one `AdminReply` per write, `AdminClose`. In `AdminCopyClients` it keeps
  `clients_mutex` until it has read the queue. `AcceptFails` is the lack of
  descriptors; the `continue` passes a waiting admin client over. `SpawnFails`
  is `pthread_create` failing, possible once `SureThreads` handlers run: the
  connection stays, listed or not, without a thread (`"unborn"`), and
  `pthread_detach` is given a `client_tid` that nothing has set, which may end
  the process.
* Clients: `Connect`, `ClientSend`, `Close`. `Window` bounds the unanswered
  requests of a connection (both clients wait for each answer: 1). A patient
  client stays until it is answered; one in `Impatient` may be interrupted at
  any time. `Mute` admin connections never send.

### Wire

A message is a sequence of fields with a width and, where a later field
depends on it (status, length, number of clients), a value. `Write` sends the
next field; `Arrive` moves any number of bytes to the receiver, so that pieces
end anywhere if the link is `split`, and at the end of some write if not.
`Read` is one `read` of the C functions, which takes what is there for the
whole field. `RecvExact` is one `recv` of the loop in the Python client.
`Sizes` says which field comes next, from what was received; `Refused...`
holds the size tests of the C receivers; `EndOfStream` is `read` returning 0.
Bytes that are not exactly the sender's field are decoded to any `Garbage`
value. Contents of texts are opaque. A request begins as a file with a size in
bytes and in characters (`Files`, the tests of the two clients); `RequestText`
is what is sent of it: the C client cuts it to its buffer, the Python client
sends all of it and a NUL.

### Text, Summary and BestSentences

A text is a sequence of characters of four kinds (letters, other characters of
a PCRE word, sentence ends, the rest), so that `\b[a-zA-Z]+\b` and
`[^.!?]+[.!?]` can be said as what they select: `WordStarts`, `SentenceEnds`.
`tokenize_text` returns the bag of tokens, in lower case, without stopwords
and without words that do not fit the 256 bytes of its buffer (`TokenBuffer`).
`strcasestr` is the loop of `nlp.c:619-636` with its variables `p`, `np`,
`startn`: `Turn` is one turn, `Completes` the test that ends it with a result.
A score is a fraction of integers; logarithms come from a table `Ln` of
integers, scaled and rounded (three decimals in the run `summary`, four in
`processing`, any in the proofs); the factor 1 / `doc_length`, common to all sentences of the
text, is left out, since scores are only compared.

| Code | Action of `Summary` |
|---|---|
| `split_sentences` finds none, 521-525 | `NoSentence` |
| `calculate_tf_idf`, `split_sentences`, scoring, 513-547 | `ScoreSentences` |
| one turn of the inner loop 550-558 / 571-583 | `Rank` / `Order` |
| 561-569 | `Select` |
| 586-614 | `Join` |

`BestSentences` has one step: the answer is any list, without repetition, of
as many sentences as asked for, such that no other sentence scores higher, in
the order of first occurrence. It says nothing of loops, leaves the choice
among equal scores open, and takes what a sentence, a score and an occurrence
are as parameters; `Summary` gives it those of `Text`.

### Classifier and Processing

A classifier is, for each domain, a number of documents and a bag of words;
`probability`, `total_documents` and `word_count_size` follow from these.
`classify_text_bayes` compares sums of logarithms with the floor -1.0, as the
code does (`Unit` is 1.0 in the scale of `Ln`); `determine_topic` counts keywords. `Processing` begins with `Train`,
one step for each of the initial texts (`server.c:97-122`), and then has one
action per branch of the `switch`: `Dequeue` (the text joins the collection),
`CountWords`, `DetermineTopic` (Bayes, then keywords, then training with the
answer), `Summarise` (a step of `Summary`) and `SendSummary`, `UnknownType`.
Its collection is the `documents` of `Summary`, and the other variables of
`Summary` are those of the current call of `generate_summary`, which are gone
when it returns. `responses` is a record of all that was sent.

## 3. Runs

| Run | Configuration | Asks | Result |
|---|---|---|---|
| `queue` | 2 handlers with a request each, capacity 2 (ring wraps, fills, empties) | `TypeOK`, `NoLostWakeup`, `ImplementsFifo`, `QueuedIsProcessed`, `FullQueueDrains`, `AdminReturns`, deadlock | holds, 19 272 states |
| `server_clients` | 3 impatient clients, 3 descriptors, list of 2, requests normal or oversized, thread creation may fail while a handler runs, symmetric | `TypeOK`, `RegistryCoherent`, `RequestCountExact`, `OnlyOwnHandlerRemoves` | holds, 2.5 million |
| `server_admin` | 2 clients with 2 requests each, of which one is impatient and one does not read, and an impatient admin client; 2 descriptors, list of 1, queue of 2 | `NoFdLeak`, `NothingLost`, `AdminSnapshot`, `HangupReclaimed`, `AdminAnswered` | holds, 823 000 |
| `server_answers` | 3 patient clients with 2 requests each, 2 descriptors, queue of 1 | `AnswersInOrder`, `ServerSurvives`, `RequestsAnswered`, `AcceptedWhenFree` | holds, 315 000 |
| `wire` | 2 messages; responses to the Python client over any stream; all four kinds between the C programs, writes not split | `TypeOK`, `ReceivedAsSent`, `FailsForCause`, `Delivered` | holds, 232 000 |
| `summary` | 2481 collections, see below | `SummaryTypeOK`, `LeadWithoutContrast`, `OwnWordsFound`, `FoundIsThere`, `ImplementsBest`, `Answered` | holds, 17 600 |
| `processing` | any 4 of 10 requests, 3 domains | `TypeOK`, `AskedAgain`, `LearnsItsAnswers`, `SummaryOfHistory` | holds, 36 700 |
| `stale_fd` | 2 clients, 2 descriptors, one impatient | `OnlyOwnAnswers` | violated |
| `sigpipe` | the same | `ServerSurvives` | violated |
| `wire_short_read` | one request, numbers of one byte, any stream | `ReceivedAsSent` | violated |
| `summary_order` | texts of up to 3 pieces | `MaintainsOrder` | violated |
| `bayes_floor` | one of the requests of `processing` | `LikeliestAnswered` | violated |

What some of these mean for the code:

* `ImplementsBest`: the two hand-written exchange sorts and the copy between
  them, whatever the scores, lose and repeat no sentence.
* `LeadWithoutContrast`: a server's first summary is the first three sentences
  of the text, since every `idf` is log(2/2); TF-IDF needs other texts.
* `FoundIsThere` and `OwnWordsFound`: the search is not a correct `strcasestr`
  (it misses `aab` in `aaab` and any single letter), but it reports nothing that
  is not there, and finds the words of two letters or more of a sentence in
  that sentence and in its text, which the scores rest on.
* `AdminAnswered`: the run reaches the states where the processing thread is
  stuck in a write, the queue is full and a handler waits for room, while the
  main thread holds `clients_mutex` and reads the queue. The handler waits
  without `clients_mutex`, so the admin client is answered. The command of this
  run is the one that takes both mutexes, `ADMIN_GET_CLIENTS`; the other one is
  in the run `queue`.
* `AcceptedWhenFree`: an `accept` that fails for want of a descriptor costs no
  client its turn, as long as descriptors become free.
* `AskedAgain`, `LearnsItsAnswers`: learning an answer does not undo it, and
  what was learnt is exactly the initial texts and the topics answered. Both are
  proved for any number of requests.
* `SummaryOfHistory`: a summary is a best choice with respect to the texts of
  all requests so far, of every type.
* `FailsForCause`: the server refuses nothing that the C client sends, and of
  the Python client's texts only those that leave no room for the NUL.

Bounds, and why they are enough.

* Queue: with capacity 2 the indices wrap and `rear` and `front` meet both full
  and empty; with two handlers, one can sleep while the other takes the slot it
  was woken for. Requests may be queued again after they were processed, so the
  run has no end. The proofs remove this bound for the safety properties.
* List of 1 or 2 with one connection more: an entry in the middle is removed
  and another moved, and a connection finds the list full. With `SureThreads`
  of 1 any later client may stay without a thread; elsewhere threads start.
* `SocketBuffer` of 0: the first write to a client that does not read holds
  the processing thread up, until the client goes.
* As many descriptors as connections (`server_clients`) let a number be reused
  as soon as it is free; fewer let `accept` fail.
* `MaxRequests` (1 or 2) bounds what a client sends and `Window` how much of it
  before it is answered. In `server_admin` it is 2: two clients send more than
  the queue of 2 and the processing thread hold, so that requests of one
  connection are behind each other in the queue and a handler waits for room.
  In the other runs a client waits for each answer, as both clients do; that
  answers keep their order with any `Window` is proved.
* `TwoWrites` stands for the 3 to 6 writes of a response and `AdminWrites` for
  the 4, and one for each client, of an admin response: a peer can go and a
  descriptor change hands between the first and the last.
* Wire: lengths and list entries of two bytes, other numbers of one, files of 0
  to 2 bytes where `MAX_TEXT_SIZE` is 2 (empty, below the limit, at it, and of
  one character in two bytes), texts of responses of 1 and 2 bytes, lists of 0
  to 2. Two messages make the end of one and the beginning of the next arrive
  together.
* Summary: texts of up to 4 pieces, which are sentences that share words, end
  in one another or repeat, and a run of word characters that is no word, so 4
  sentences compete for 3 places; every text of up to 4 of 5 characters; each
  alone, after itself, and after 3 other texts that hold partial matches.
* Processing: 3 domains and 4 initial texts, and a table of logarithms as long as
  `MaxTokens` and `MaxRequests` ask for (65); 4 requests let a topic be learnt,
  asked for again, and a summary be computed after them; the 6 texts have no token, one token (known in one
  domain, with and without keyword), and several, known and unknown. As in
  `server.c:97-122` half of the initial training is of the last domain.

`CHECK_DEADLOCK FALSE` in all runs but `queue`: programs send a bounded number
of messages, and a summary is done when it is answered, so the model stops.
Symmetry is used in `server_clients` only, which has no liveness property.

## 4. What the failing runs show

Each is one property that a statement of the repository supports and the code
does not keep; the trace is TLC's.

* `stale_fd` (`server.c:190`, `:230`). A client sends and leaves. Its handler
  sees the end of the stream and closes the descriptor while the request is
  queued; the next client is accepted on the same number and gets the answer.
  An admin client can be accepted on it as well, and then has the answer
  between the writes of its own response.
* `sigpipe` (`server.c:190`). A client leaves before its answer. The first
  write is refused by its kernel, the next kills the process. README.md:233-235
  lists "Connection failures" as handled.
* `wire_short_read` (`protocol.c:46`). A text of two bytes arrives one byte at
  a time. The first is taken for all of it and the request for complete; the
  second stays in the stream, where `receive_request` looks for the type of the
  next request. Numbers are of one byte in this run, so that nothing but a text
  can be cut. The C functions are sound only where no write is split, which
  the run `wire` assumes of them and a text of 64 KB over TCP does not get.
* `summary_order` (`nlp.c:574`). In "b.aab.b." the third sentence repeats the
  first; `strstr` finds both at the same place, and the third goes before
  "aab.": the summary is "b. b. aab. ". The same happens to a sentence that
  ends an earlier one. README.md:217 says "Maintain original sentence order in
  summary". `ImplementsBest` shows what holds instead.
* `bayes_floor` (`nlp.c:188`). The first request is a text that "Sport" was
  trained with; "Sport" gives it the highest probability of the three domains,
  1/6, and the answer is "Necunoscut". The comment at `nlp.c:233` says "return
  the domain with the highest probability", but `max_prob` begins at -1.0, so
  only a probability above 1/e is answered. No text of two different tokens
  has one, however long the classifier is trained with its own answers: for
  all of them the keywords decide (`KeywordsGiveTopic` in `ProcessingProofs`).

Seen while modelling, without a run of their own:

* An admin connection that never sends keeps the accept loop in the `read` at
  `server.c:260` (called at `:415`), and no client is accepted any more. In the
  model it is an admin client in `Mute`; the runs have none.
* The eleventh client is served, unlisted: `server.c:389` guards the entry
  only, README.md:223 says "10 concurrent connections". `RegistryCoherent` is
  checked with such clients.
* A text without a token has only the prior, 4/8 for "Tehnologie", and gets
  that topic.
* Keywords with diacritics or spaces (`nlp.c:45-56`; README.md:208-210 names
  "jucător" and "președinte") equal no token, which is of ASCII letters.
* The C client accepts a file of 65536 bytes and drops its last one
  (`client.c:53`, `:94`).

Where such a case would hide others, the passing runs exclude it and say so.
`server_answers` has patient clients, under whom no answer goes astray;
`NothingLost` and the registry properties are checked with impatient ones. The
liveness properties of `server_admin` are conditioned on `alive`.
`HangupReclaimed` excepts a handler that waits for room in the queue while the
processing thread is held up by a client that does not read, which is as long
as that client likes; it excepts no other handler. `AdminAnswered` speaks of an
admin client that was accepted, `AcceptedWhenFree` of the moments with a free
descriptor: two clients that stay may keep both.

## 5. Fairness

* `RequestQueue`: weak fairness of a step inside a critical section (its thread
  owns the mutex and is runnable); strong fairness of taking a mutex, since
  others may hold it again and again: pthread mutexes promise no order, but the
  scheduler does not deny one thread for ever. The processing thread always
  returns to `dequeue`. Nothing is assumed of the calls, which come from the
  network, nor of spurious wakeups. A woken handler is not promised the slot it
  was woken for, and no property says that each call of `enqueue` returns: new
  arrivals may overtake it for ever.
* `Server`: weak fairness of each handler, of the processing thread and of the
  main thread; each blocks only where its next call blocks. Clients need not
  send or leave; an admin client that is not mute sends its command or closes,
  as `admin_client.c` does without waiting for input. A handler in `enqueue`
  needs only weak fairness on the checked bounds, since the requests, and so
  the overtaking, come to an end.
* `Summary`: weak fairness of the thread that runs it, which waits for nothing.
  `Processing` has no fairness and no liveness: that its loop goes on is
  `Server`'s `RequestsAnswered`.
* `Wire`: bytes arrive, the receiver reads on, a sender that has begun a
  message finishes it or ends. It need not send another.

## 6. Proofs

All theorems are checked by TLAPS, each leaf by an SMT solver, Zenon or LS4.
Each rests on the assumption that its module states about the constants, which
TLC evaluates in every run, and on the hypotheses in its statement, if any.

| Theorem | States | Hypotheses |
|---|---|---|
| `TypeCorrect`, `NoWakeupIsLost` | `TypeOK`, `NoLostWakeup` of `RequestQueue` | |
| `QueueIsFifo` | `RequestQueue` implements `BoundedFifo` | |
| `ServerTypes`, `ListIsCoherent`, `NoDescriptorIsLost`, `AdminSeesOneMoment`, `CountsAreExact`, `NoRequestIsLost` | `TypeOK`, `RegistryCoherent`, `NoFdLeak`, `AdminSnapshot`, `RequestCountExact`, `NothingLost` of `Server` | |
| `OnlyOwnEntryRemoved` | the action property `OnlyOwnHandlerRemoves` | |
| `AnswersKeepOrder` | `AnswersInOrder` | `Patient` |
| `ServerLives` | `ServerSurvives` | `Patient`, enough threads |
| `WireTypes` | `TypeOK` of `Wire` | |
| `MessagesArrive`, `GivesUpForCause` | `ReceivedAsSent`, `FailsForCause` | `Sound` |
| `SummaryTypes` | `SummaryTypeOK` | |
| `SearchMakesNothingUp`, `SentencesHaveTheirWords` | `FoundIsThere`, `OwnWordsFound` | |
| `FirstSummaryLeads` | `LeadWithoutContrast` | |
| `SummaryIsBest` | `Summary` implements `BestSentences` | |
| `ProcessingTypes` | `TypeOK` of `Processing` | |
| `SummariesFollowHistory`, `ClassifierLearnsAnswers`, `AnswersRepeat` | `SummaryOfHistory`, `LearnsItsAnswers`, `AskedAgain` | |

### The queue

From `QueueAssumption` alone: a capacity of at least 1, any finite set of
handlers that does not contain the two other threads, any requests.

None of the three is inductive. `count` stays in range because the thread that
changes it owns the mutex and has just tested it, so `IInv` adds
`MutualExclusion` and `WellLocated` (who can be asleep on which variable).
`RingCoherent` ties `rear` to `front + count`, without which the slot that
`EnqueueInsert` writes need not be the one after the last. `NoLostWakeup` is
stronger than the sentence one would write first ("nobody sleeps while there
is room"), which is false: between a signal and the moment the woken handler
has the mutex, handlers do sleep beside a free slot. What holds, and is
inductive, is a count: free slots never outnumber the handlers that are on
their way (`Retrying`), while any sleep. `DequeueTake` frees one slot and wakes
one; an arriving handler that takes the slot fills it; one that finds the queue
full and goes back to sleep does so only when there is no free slot to lose.

The refinement maps the ring to the sequence `Queued`, read from `front`.
`InsertAppends` and `TakeRemoves` are its two real steps: the write at the new
`rear` leaves the slots of the other `count` requests alone and is the last of
the sequence; the moved `front` drops the first. Every other action leaves
`Queued` and `request` as they are (`SameQueued`).

### The server

From `ServerAssumption`: any connections, admin connections and request types,
any finite set of descriptors, any limits of at least 1, any programs that
leave at any time, are mute or do not read.

The question behind the registry properties is who owns a descriptor. The
invariant `OwnerInv` answers it at every moment: `Descriptors` says that an open
descriptor belongs to one handler, which knows its number, or to the main
thread between `accept` and `pthread_create` or while it serves an admin client;
`Registry` that an entry lives from `RegisterClient` to `HandlerRemove` and not
until `HandlerClose`, so that a number is never reused while an entry names it.
This order of the two calls at the end of `client_handler` is what the proof of
`RegistryCoherent` turns on: closed first, the number could be accepted again
and two entries have it. The other parts are what the steps of the proof ask
for: `Kinds` (a TCP backlog holds clients, a Unix one admin clients),
`MainThread` (what it knows at each place of its loop, in particular that the
`revents` it still looks at are of a connection that still waits),
`NotAccepted` (a waiting connection has no descriptor and waits once), and
`Snapshot` (only the main thread keeps `clients_mutex` over a step, and its
copy is the list while it does), from which `AdminSnapshot` follows.

`IInv` adds the counts and sequences. `NothingLost` says that what has entered
the queue (collection, request in hand, queue) followed by what is still to
enter (handler, inbox), taken connection by connection, is the sequence of its
requests; each step moves one text from the front of one part to the end of the
one before. `RequestCountExact` relates the same sequence to the entry of the
list; it needs that one handler at a time counts.

`AnswersInOrder` and `ServerSurvives` are not true of all programs: `stale_fd`
and `sigpipe` show how they fail. They are proved for those of the run
`server_answers`: `Patient` says that no program leaves before it is answered
(`Impatient` is empty) and none sends a text that is refused, after which the
handler would close a connection that has requests in the queue. `Served` is
what then holds while the process lives: a request in the server's hands names
a descriptor that still belongs to its connection (`InFlight`), a connection
ends only when all is answered (`Endings`), and the responses written are those
to the requests processed, but for the one being written (`Replies`). Of an
admin client it says that all it has got is the first writes of its one
response (`AdminReplies`, `Begun`).
`ServerLives` has to exclude, besides, that `pthread_create` fails, since
`pthread_detach` of an unset `pthread_t` may do anything: no more connections
than threads that start for sure.

### The wire

From `WireAssumption`: any widths of at least 1, any lengths and sizes, any
number of messages, of any kind, one behind the other.

`WireTypes` holds over all links. `MessagesArrive` and `GivesUpForCause` need
`Sound`: each link has a reader that waits for the whole field (the Python
client), or does not split writes. The run `wire_short_read` shows that neither
can be dropped. The invariant `SInv` says that the bytes that are not received
yet (those put aside by the reader, those in its buffer, those under way) are a
`Stream`: all the bytes of consecutive fields, from the next one to receive to
the next one to write, without a gap. Every write adds a field at its end;
arrival moves its boundaries; a read takes its first field, if the size that
the receiver asks for is the width of that field. That it is, is the subject of
the first part of `WireProofs`: for each kind of message, after any number of fields
received as they were sent, `Sizes`, which looks at the values received, agrees
with `Fields`, which looks at the message. Without splitting, the stream that
waits begins with a whole write (`Pieces`), so that one `read` returns it.

### The summary

From `TextAssumption` and `SummaryAssumption`: any alphabet of four disjoint
kinds of characters with a `tolower`, any table of logarithms that grows and
reaches far enough for the collection, any collections of texts, any
`max_sentences` of at least 1.

The sort is treated once, for a sequence and a strict order of its elements:
`SortedSoFar` is what holds at the head of the inner loop, and `ExchangeSorts`,
`RowSorts` and `SortEnds` are one turn, the end of a row, and the end. That an
exchange keeps the elements between its two places right needs the order to be
transitive. The scores are fractions, compared by cross products, so this rests
on the denominators being positive (`ScoreIsFraction`, `HigherIsTransitive`);
the other order compares results of `strstr`, which are places because every
sentence of the text is found in it (`SentenceIsFound`). That in turn needs
that there is an end for every number of a sentence (`RankIsTaken`). `IInv`
says that the array is a permutation of the sentences with their scores
(`ArrayInv`), and that the chosen ones are a permutation of the first of it
(`ChoiceInv`). The refinement maps the answer to the numbers of the chosen ones
when they are joined: `Join` is the one step of `BestSentences`, all others
stutter.

Two functions of `Text` are recursive: the search, and the sum in a score,
which the libraries define by a fold. The induction theorems of the prover's
library cannot be used, so `TextProofs` has its own, about functions and sets
instead of operators: a recursion whose argument descends by some rank has a
solution (`RecursionDefines`, built from solutions up to each rank), and what
passes from the next argument to each holds of all (`DescentInduction`). The
least rank at which something fails is the least number of a set, and that
there is one comes from the well-foundedness of finite sets (`LeastNumber`).
With these, what `strcasestr` returns can be shown by an invariant of its loop
(`SearchReturns`). For `FoundIsThere` it says that the `np - 1` characters from
`startn` on are the first of the needle. For `OwnWordsFound` it says that `np`
is NULL where the word begins, since the character before it is no letter, and
that from then on the comparison is inside the word; that the word is a word of
the whole text too needs that sentences stand between terminators
(`SentenceWord`). `LeadWithoutContrast` puts both together: each token that
counts in a sentence is found in every document of the collection, all of which
are the text; so each `idf` is 0 (`ScoreIsFraction`), no score is higher than
another, and the first sort leaves the array as it was (`LeadInv`).

### The processing thread

From `ProcessingAssumption`, `ClassifierAssumption` and the assumptions of the
summary: any requests, in any order and any number, any distinct domains with
any keywords, any initial texts with tokens that have one for each domain. The summary asks
for 3 sentences, as `server.c:174` does.

`SummaryOfHistory` speaks of a moment that is over: what was the collection
when the summary was computed. `CollectionInv` says what it is at any moment,
the texts of the responses sent and of the request in hand, and `AnswersInv`
that each response sent, whose text and predecessors do not change any more, was
right. `CallInv` says that while `generate_summary` runs its variables have the
invariant `IInv` of `Summary`, and that they are fresh at all other times: so
the steps of a call are those proved in `SummaryProofs`, and what it returns is
an answer of `BestSentences` (`ChoiceIsBest`). `IInv` speaks of the collection,
which `Dequeue` changes; it does so between calls only.

`LearnsItsAnswers` compares the counts of the classifier with sums over the texts
it has learnt, and a step makes one text more. The library takes the elements of
a set for such a sum in an order that nobody knows, so the one added need not be
the first. `SumWithout` says that it may be: any element can be taken out first,
shown by `DescentInduction` over the subsets. `ClassifierInv` says of each
domain that its counts are those sums (`Knows`), and `Learns` that
`train_bayes_classifier` keeps them so, for the domain it is called with and no
other (`OthersLearnNothing`). That the topic answered is a domain or `Unknown`
(`TopicIs`), in which case nothing is learnt, comes from the loop over the
domains (`FirstLargestIs`), a recursion over their numbers.

`KeywordsDecide`, the invariant of the lemma `KeywordsGiveTopic`, says how far
the failure that `bayes_floor` shows goes, and `AskedAgain` rests on it. It is
an inequality. What it uses of logarithms is in
`ClassifierAssumption`, where TLC evaluates it on the table of the run: a
product `a * b` is at most a quarter of the square of `a + b`, and a quarter is
less than 1/e. Two different tokens have, in the words of a domain, no more
copies together than there are words, so with the one that is added to each
count the product of their probabilities is at most a quarter
(`TwoAreUnlikely`); every other factor is at most 1 (`TextIsUnlikely`). This
needs a domain to have a word, since in an empty one each token would have
probability 1: `CountsInv` says that it has one as soon as it has a text, which
rests on the initial texts having tokens (`server.c:97-122`). `CountsInv` also
bounds the counts by the number of texts, so that the table reaches them, where
`MaxTokens` is the most tokens of a text (`MAX_TEXT_SIZE` bounds them).

`AskedAgain` compares two answers with any number of requests of other types
between them. It is not inductive: `LastHolds` says that the last topic answered
is what its text would be answered *now* (`TopicOf`, which reads the classifier
only), so that the next request for it gets that. Only `DetermineTopic` changes
the classifier, and what it must keep is the answer it gives (`AnswerStays`). A
text of two tokens gets its topic from its keywords before and after. For a text of
one token or none, the domain that was answered has one text more, and so do all
texts together: the prior `a / b` becomes `(a + 1) / (b + 1)`, which is no less, and
that of any other domain, `a / (b + 1)`, no more (`OwnGetsLikelier`,
`OthersGetNoLikelier`). The probability of the token in the domain grows likewise
if the domain knows it (`TokenGetsLikelier`): with `k` copies more its count grows
by `k` and the number of words by `k`. If the domain does not know it, the
number of different words grows too, and the fraction could fall; but then it was at most
1/3 before, which is less than 1/e, and so Bayes cannot have answered that
domain. The one left is that a text first answered by its keywords is not given
another topic by Bayes once it is learnt: no other domain has become likelier, so Bayes
answers the same one or, again, none. When two domains are as likely as each
other, the loop over the domains keeps the first, before and after
(`LargestStays`). That a fraction grows when the same is added to both of its parts, and that
3 is more than e, are the two facts of logarithms that `ClassifierAssumption`
adds. The first is true of the real ones. A table rounded too coarsely does not
keep it (three decimals do not, for 65 numbers; four do), so TLC's evaluation of the
assumption on the table of the run is what shows that it is not empty.

### Only model-checked

* All liveness: `QueuedIsProcessed`, `FullQueueDrains`, `AdminReturns`,
  `HangupReclaimed`, `AdminAnswered`, `RequestsAnswered`, `AcceptedWhenFree`,
  `Delivered`, `Answered`. The prover does not reason about fairness.
* The five properties of section 4 that fail.

All other properties that the passing runs check, the safety invariants, the
action property and the two refinements, are theorems.

## 7. What is not modelled

* Allocation failing (`malloc`, `realloc`, `strdup`) and `poll` failing, and
  the answers that report the first ("Eroare la procesare" and others). The code
  tests some allocations and goes on with the results of others: after the
  `realloc` at `server.c:144` fails, the next one begins with NULL and leaves all
  slots but the last unset, which `calculate_tf_idf` then reads.
* Rounding: scores are exact fractions over logarithms of some decimals, and
  the code multiplies `double`s, so a tie that rounding breaks, in the code or
  here, is not seen. `BestSentences` leaves the choice among equals open.
* `score_sentences` (`nlp.c:464-481`), which nothing calls, and the test
  `summary_length <= 0`, which cannot succeed where there is a sentence.
* The words of the lists in `nlp.c:10-62` and of the training texts: the
  modules take any; the runs use short ones.
* The set-up of the sockets and the end of the program after a failing `poll`
  (nothing else ends its loop).
* The clients' file input and output. The Python client's class
  may send several requests on a connection, its `main` sends one.
* Build files, sample texts.

## 8. Hazards

The list of hazards, each with its line and its properties, is in
`PROJECT.json`. Where a property covers a hazard under a condition only, the
note there says so; the C client's single `read` of a long summary
(`protocol.c:164`), for one, is covered where no write is split, and breaks
otherwise as `wire_short_read` shows for requests.
