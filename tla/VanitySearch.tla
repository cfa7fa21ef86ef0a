---------------------------- MODULE VanitySearch ----------------------------
(***************************************************************************)
(* The parallel key search of src/src/vanity.rs.  Worker threads draw keys  *)
(* until one of them matches the prefix; the first match wins a compare-   *)
(* and-exchange on `found`, goes through a channel of capacity one to the   *)
(* main thread, and everybody else stops.  A key is abstracted to whether  *)
(* it matches, a candidate to the worker that found it.                    *)
(***************************************************************************)
EXTENDS Integers, Sequences, FiniteSetsExt

CONSTANTS
    Workers,     \* the threads spawned: thread_count of them
    Batch,       \* ATTEMPT_BATCH_SIZE
    MaxTries,    \* bound: keys one worker draws at most
    Panics       \* TRUE when a worker may panic (random source, encoding)

ASSUME WorkersAssumption ==
    Workers # {} /\ IsFiniteSet(Workers) /\ "nobody" \notin Workers
ASSUME BatchAssumption == Batch \in Nat \ {0} /\ MaxTries \in Nat /\ Panics \in BOOLEAN

VARIABLES
    found,      \* the shared AtomicBool
    attempts,   \* the shared AtomicU64
    channel,    \* sync_channel(1): candidates sent and not received
    wpc,        \* where each worker is
    pending,    \* pending_attempts of each worker
    tries,      \* keys each worker has drawn, counted by nobody in the code
    mpc,        \* where the main thread is
    candidate,  \* what the main thread received
    previous,   \* previous_attempts of the progress report
    result      \* what run returns

vars == <<found, attempts, channel, wpc, pending, tries, mpc, candidate, previous, result>>
worker == <<wpc, pending, tries>>
main == <<mpc, candidate, previous, result>>

Gone(w) == wpc[w] \in {"sent", "stopped", "panicked"}
Step(w, from, to) == wpc[w] = from /\ wpc' = [wpc EXCEPT ![w] = to]

Init ==
    /\ found = FALSE /\ attempts = 0 /\ channel = <<>>
    /\ wpc = [w \in Workers |-> "test"]
    /\ pending = [w \in Workers |-> 0]
    /\ tries = [w \in Workers |-> 0]
    /\ mpc = "receive" /\ candidate = "nobody" /\ previous = 0 /\ result = "none"

-----------------------------------------------------------------------------
(* search_worker *)

\* while !found.load()
Test(w) ==
    /\ \/ found /\ Step(w, "test", "flush")
       \/ ~found /\ tries[w] < MaxTries /\ Step(w, "test", "draw")
    /\ UNCHANGED <<found, attempts, channel, pending, tries, main>>

\* A new key; it matches the prefix or not.
Draw(w) ==
    /\ \E to \in {"claim", "count"} : Step(w, "draw", to)
    /\ pending' = [pending EXCEPT ![w] = @ + 1]
    /\ tries' = [tries EXCEPT ![w] = @ + 1]
    /\ UNCHANGED <<found, attempts, channel, main>>

\* Mutant: a plain load and store instead of the compare-and-exchange.
ClaimsAlways(w) == TRUE
\* compare_exchange(false, true) succeeds.
Claims(w) == ~found

Claim(w) ==
    /\ \/ Claims(w) /\ Step(w, "claim", "won") /\ found' = TRUE
       \/ ~Claims(w) /\ Step(w, "claim", "count") /\ UNCHANGED found
    /\ UNCHANGED <<attempts, channel, pending, tries, main>>

\* pending_attempts after a full batch was added.
PendingAfterBatch(w) == 0

Count(w) ==
    /\ Step(w, "count", "test")
    /\ IF pending[w] = Batch
       THEN /\ attempts' = attempts + pending[w]
            /\ pending' = [pending EXCEPT ![w] = PendingAfterBatch(w)]
       ELSE UNCHANGED <<attempts, pending>>
    /\ UNCHANGED <<found, channel, tries, main>>

AddWinning(w) ==
    /\ Step(w, "won", "send")
    /\ attempts' = attempts + pending[w]
    /\ UNCHANGED <<found, channel, pending, tries, main>>

Send(w) ==
    /\ channel = <<>>
    /\ Step(w, "send", "sent")
    /\ channel' = <<w>>
    /\ UNCHANGED <<found, attempts, pending, tries, main>>

Flush(w) ==
    /\ Step(w, "flush", "stopped")
    /\ attempts' = attempts + pending[w]
    /\ UNCHANGED <<found, channel, pending, tries, main>>

\* The thread unwinds and drops its sender.
Panic(w) ==
    /\ Panics
    /\ \E from \in {"draw", "won"} : Step(w, from, "panicked")
    /\ UNCHANGED <<found, attempts, channel, pending, tries, main>>

Worker(w) ==
    \/ Test(w) \/ Draw(w) \/ Claim(w) \/ Count(w)
    \/ AddWinning(w) \/ Send(w) \/ Flush(w)

-----------------------------------------------------------------------------
(* VanitySearch::run after the workers are spawned *)

Receive ==
    /\ mpc = "receive"
    /\ \E w \in Workers : channel = <<w>> /\ candidate' = w
    /\ channel' = <<>>
    /\ mpc' = "stop"
    /\ UNCHANGED <<found, attempts, worker, previous, result>>

\* One second without a candidate: the progress report.
Timeout ==
    /\ mpc = "receive" /\ channel = <<>> /\ previous # attempts
    /\ previous' = attempts
    /\ UNCHANGED <<found, attempts, channel, worker, mpc, candidate, result>>

\* Mutant: the main thread gives up when one worker has gone.
SomeSenderGone == channel = <<>> /\ \E w \in Workers : Gone(w)
\* RecvTimeoutError::Disconnected: every sender is dropped and nothing is left.
SendersGone == channel = <<>> /\ \A w \in Workers : Gone(w)

Disconnected ==
    /\ mpc = "receive" /\ SendersGone
    /\ mpc' = "stop"
    /\ UNCHANGED <<found, attempts, channel, worker, candidate, previous, result>>

Stop ==
    /\ mpc = "stop"
    /\ found' = TRUE
    /\ mpc' = "join"
    /\ UNCHANGED <<attempts, channel, worker, candidate, previous, result>>

\* Mutant: a key is returned before the other workers have been joined.
JoinedWinner == candidate # "nobody" \/ \A w \in Workers : Gone(w)
Joined == \A w \in Workers : Gone(w)

Join ==
    /\ mpc = "join" /\ Joined
    /\ mpc' = "done"
    /\ result' = IF \E w \in Workers : wpc[w] = "panicked" THEN "panicked"
                 ELSE IF candidate = "nobody" THEN "no_key" ELSE "key"
    /\ UNCHANGED <<found, attempts, channel, worker, candidate, previous>>

Main == Receive \/ Timeout \/ Disconnected \/ Stop \/ Join

Next == Main \/ \E w \in Workers : Worker(w) \/ Panic(w)

\* Threads are scheduled for ever; a panic is never owed.
Fairness ==
    /\ WF_vars(Receive \/ Disconnected \/ Stop \/ Join)
    /\ \A w \in Workers : WF_vars(Worker(w))

Spec == Init /\ [][Next]_vars
FairSpec == Spec /\ Fairness

-----------------------------------------------------------------------------
(* Every variable keeps its type, and a worker never overruns its batch.   *)
TypeOK ==
    /\ found \in BOOLEAN
    /\ attempts \in Nat
    /\ channel \in {<<>>} \cup {<<w>> : w \in Workers}
    /\ wpc \in [Workers -> {"test", "draw", "claim", "count", "won", "send", "flush",
                            "sent", "stopped", "panicked"}]
    /\ pending \in [Workers -> 0..Batch]
    /\ \A w \in Workers : wpc[w] \in {"test", "draw"} => pending[w] < Batch
    /\ tries \in [Workers -> Nat]
    /\ mpc \in {"receive", "stop", "join", "done"}
    /\ candidate \in Workers \cup {"nobody"}
    /\ previous \in Nat
    /\ result \in {"none", "panicked", "no_key", "key"}

Winner(w) == wpc[w] \in {"won", "send", "sent"}

(* Two workers that match at the same time do not both deliver a key: the  *)
(* second would wait for ever in the full channel and the join with it.    *)
OneWinner == \A v, w \in Workers : Winner(v) /\ Winner(w) => v = w

(* A worker that sends never finds the channel full.                       *)
SenderNeverWaits == \A w \in Workers : wpc[w] = "send" => channel = <<>>

(* run never reports "all workers stopped without finding a key": workers  *)
(* stop only after a match or a panic, and a match is always received.     *)
NeverEmptyHanded == result # "no_key"

Total(f) == MapThenSumSet(LAMBDA w : f[w], Workers)

(* The number of attempts reported with a key is the number of keys drawn  *)
(* by all workers, the ones that lost included.                            *)
AttemptsExact == result = "key" => attempts = Total(tries)

(* Once a key is found (or the search given up) run returns.               *)
SearchEnds == found ~> result # "none"

-----------------------------------------------------------------------------
(* Why the search is safe: the parts of an inductive invariant.            *)

\* The flag and the claim: found has a winner until the main thread stops.
FoundInv ==
    /\ \A w \in Workers : Winner(w) \/ wpc[w] \in {"flush", "stopped"} => found
    /\ found /\ mpc = "receive" =>
           \E w \in Workers : Winner(w) \/ wpc[w] = "panicked"

\* A candidate is in the channel or received exactly when its worker sent it.
ChannelInv ==
    /\ \A w \in Workers : wpc[w] = "sent" <=> channel = <<w>> \/ candidate = w
    /\ candidate # "nobody" => channel = <<>>
    /\ mpc = "receive" => candidate = "nobody"

\* Giving up without a candidate means that a worker panicked.
GivenUpInv ==
    /\ mpc # "receive" /\ candidate = "nobody" =>
           \E w \in Workers : wpc[w] = "panicked"
    /\ result # "no_key"

SearchInv == OneWinner /\ FoundInv /\ ChannelInv /\ GivenUpInv

\* The keys of each worker that the shared counter holds.
Counted ==
    [w \in Workers |-> IF wpc[w] \in {"send", "sent", "stopped"} THEN tries[w]
                       ELSE tries[w] - pending[w]]

\* The counter holds what was added, and everybody has added before the end.
AttemptsInv ==
    /\ (\A w \in Workers : wpc[w] # "panicked") => attempts = Total(Counted)
    /\ result = "key" => \A w \in Workers : wpc[w] \in {"sent", "stopped"}

=============================================================================
