----------------------------- MODULE LogShipping -----------------------------
(***************************************************************************)
(* The circular log buffer, the log shippers that empty it, one thread per  *)
(* agent identity, and the main thread that stops them one after the other *)
(* and ships what is left.  All shippers share one buffer.  An entry is its *)
(* number in the order of logging.                                         *)
(***************************************************************************)
EXTENDS Integers, Sequences, FiniteSets, SequencesExt

CONSTANTS
    Agents,      \* number of agent identities with a shipper
    MaxSize,     \* max_size_bytes
    Large,       \* entries of size MaxSize + 1, too large for the buffer; others have size 1
    BatchSize,   \* batch_size
    Retries,     \* max_retries
    MaxEntries   \* bound: entries logged

Parameters ==
    /\ {Agents, MaxSize, BatchSize, MaxEntries} \subseteq Nat \ {0}
    /\ Retries \in Nat
    /\ Large \subseteq 1..MaxEntries

Entries == 1..MaxEntries
Main == Agents + 1
Workers == 1..Main

VARIABLES
    buffer,    \* the deque of CircularLogBuffer
    logged,    \* entries logged so far
    warn,      \* an overflow whose warning is not logged yet
    load,      \* per worker: what it took from the buffer and still has to ship
    attempt,   \* per worker: attempts made for its batch
    event,     \* _stop_event of each shipper
    alive,     \* is the thread of the shipper running?
    client,    \* _client: "open", "closed" but not yet dropped, or "none"
    at, step,  \* stop_all: the shipper being stopped, and how far stop() is
    received,  \* history: what the server got, in order
    lost,      \* history: entries dropped, given up or skipped
    due        \* history: entries logged before the last stop() collected the buffer

lvars == <<buffer, logged, warn, load, attempt, event, alive, client, at, step,
           received, lost, due>>
history == <<received, lost, due>>

LogTypeOK ==
    /\ buffer \in Seq(Entries)
    /\ logged \in 0..MaxEntries
    /\ warn \in BOOLEAN
    /\ load \in [Workers -> Seq(Entries)]
    /\ attempt \in [Workers -> 0..Retries]
    /\ event \in [1..Agents -> BOOLEAN]
    /\ alive \in [1..Agents -> BOOLEAN]
    /\ client \in [1..Agents -> {"open", "closed", "none"}]
    /\ at \in 1..Agents
    /\ step \in {"run", "join", "ship", "close", "drop", "done"}
    /\ received \in Seq(Entries)
    /\ lost \subseteq Entries /\ due \subseteq Entries

\* ensure_log_shipper for every offering: buffer set up, threads started.
LogInit ==
    /\ buffer = <<>> /\ logged = 0 /\ warn = FALSE
    /\ load = [w \in Workers |-> <<>>]
    /\ attempt = [w \in Workers |-> 0]
    /\ event = [a \in 1..Agents |-> FALSE]
    /\ alive = [a \in 1..Agents |-> TRUE]
    /\ client = [a \in 1..Agents |-> "open"]
    /\ at = 1 /\ step = "run"
    /\ received = <<>> /\ lost = {} /\ due = {}

-----------------------------------------------------------------------------
\* The bytes of a sequence of entries: the sum of their sizes.
Total(s) == Len(s) + MaxSize * Cardinality({i \in 1..Len(s) : s[i] \in Large})

\* add(): the longest rest that fits.
Trim(s) ==
    LET fits == {i \in 1..(Len(s) + 1) : Total(SubSeq(s, i, Len(s))) <= MaxSize}
        first == CHOOSE i \in fits : \A j \in fits : i <= j
    IN  SubSeq(s, first, Len(s))

\* emit() of a record, or of the warning about an overflow, which warns no
\* further.
Log(warning) ==
    /\ logged < MaxEntries
    /\ warning => warn
    /\ LET all == Append(buffer, logged + 1)
           kept == Trim(all) IN
       /\ buffer' = kept
       /\ lost' = lost \cup (ToSet(all) \ ToSet(kept))
       /\ warn' = IF warning THEN FALSE ELSE warn \/ kept # all
    /\ logged' = logged + 1
    /\ UNCHANGED <<load, attempt, event, alive, client, at, step, received, due>>

\* get_and_clear()
GetAndClear(w) ==
    /\ load' = [load EXCEPT ![w] = buffer]
    /\ buffer' = <<>>

Batch(w) == SubSeq(load[w], 1, IF Len(load[w]) < BatchSize THEN Len(load[w]) ELSE BatchSize)
Rest(w) == SubSeq(load[w], BatchSize + 1, Len(load[w]))
Shipper(w) == IF w = Main THEN at ELSE w

\* The interval has passed and the thread calls _ship_logs.
Collect(a) ==
    /\ alive[a] /\ ~event[a] /\ load[a] = <<>>
    /\ GetAndClear(a)
    /\ UNCHANGED <<logged, warn, attempt, event, alive, client, at, step, history>>

\* _ship_loop ends once the batches at hand are shipped.
ThreadEnds(a) ==
    /\ alive[a] /\ event[a] /\ load[a] = <<>>
    /\ alive' = [alive EXCEPT ![a] = FALSE]
    /\ UNCHANGED <<buffer, logged, warn, load, attempt, event, client, at, step, history>>

NextBatch(w) ==
    /\ load' = [load EXCEPT ![w] = Rest(w)]
    /\ attempt' = [attempt EXCEPT ![w] = 0]

\* Mutant: one attempt too many.
LastAttemptLate(w) == attempt[w] > Retries

LastAttempt(w) == attempt[w] = Retries

\* One attempt of _ship_batch.  A closed client raises; without one a fresh one
\* is used.  An error may come after the server has stored the batch.
ShipBatch(w) ==
    /\ load[w] # <<>>
    /\ \E answer \in {"ok", "404", "error", "unknown"} :
         /\ client[Shipper(w)] = "closed" => answer = "error"
         /\ received' = IF answer \in {"ok", "unknown"} THEN received \o Batch(w) ELSE received
         /\ IF answer \in {"ok", "404"} \/ LastAttempt(w)
            THEN NextBatch(w) ELSE attempt' = [attempt EXCEPT ![w] = @ + 1] /\ UNCHANGED load
         /\ lost' = IF answer = "404" \/ (answer # "ok" /\ LastAttempt(w))
                    THEN lost \cup ToSet(Batch(w)) ELSE lost
    /\ UNCHANGED <<buffer, logged, warn, event, alive, client, at, step, due>>

-----------------------------------------------------------------------------
(* stop_all: stop() of each shipper in turn.                                 *)

Stop ==
    /\ step = "run"
    /\ event' = [event EXCEPT ![at] = TRUE]
    /\ step' = "join"
    /\ UNCHANGED <<buffer, logged, warn, load, attempt, alive, client, at, history>>

\* Mutant: the thread is joined without a timeout.
JoinedWithoutTimeout ==
    /\ step = "join" /\ ~alive[at]
    /\ step' = "ship"
    /\ GetAndClear(Main)
    /\ due' = 1..logged
    /\ UNCHANGED <<logged, warn, attempt, event, alive, client, at, received, lost>>

\* The thread has ended, or the timeout is over; _ship_logs collects the rest,
\* and the main thread ships it with ShipBatch.
Joined ==
    /\ step = "join"
    /\ step' = "ship"
    /\ GetAndClear(Main)
    /\ due' = 1..logged
    /\ UNCHANGED <<logged, warn, attempt, event, alive, client, at, received, lost>>

CloseClient ==
    /\ step = "ship" /\ load[Main] = <<>>
    /\ client' = [client EXCEPT ![at] = "closed"]
    /\ step' = "close"
    /\ UNCHANGED <<buffer, logged, warn, load, attempt, event, alive, at, history>>

DropClient ==
    /\ step = "close"
    /\ client' = [client EXCEPT ![at] = "none"]
    /\ IF at < Agents THEN at' = at + 1 /\ step' = "run" ELSE step' = "done" /\ UNCHANGED at
    /\ UNCHANGED <<buffer, logged, warn, load, attempt, event, alive, history>>

\* The agent has ended its work and everything logged is where it will stay.
LogEnded == step = "done" /\ UNCHANGED lvars

MainStep == Stop \/ Joined \/ CloseClient \/ DropClient
LogNext ==
    \/ \E warning \in BOOLEAN : Log(warning)
    \/ \E a \in 1..Agents : Collect(a) \/ ThreadEnds(a)
    \/ \E w \in Workers : ShipBatch(w)
    \/ MainStep \/ LogEnded

-----------------------------------------------------------------------------
\* Every logged entry is in exactly one place: the buffer, the hands of one
\* worker, or settled (at the server or written off); none is forgotten between
\* the buffer and the threads, and no two workers hold the same one.
Held == UNION {ToSet(load[w]) : w \in Workers}
Settled == ToSet(received) \cup lost
NothingForgotten ==
    /\ 1..logged = ToSet(buffer) \cup Held \cup Settled
    /\ \A w \in Workers : ToSet(load[w]) \cap ToSet(buffer) = {}
    /\ \A v, w \in Workers : v # w => ToSet(load[v]) \cap ToSet(load[w]) = {}

\* The buffer holds at most its size, and an overflow costs the oldest entries:
\* what is in it are the last entries logged, without a gap.
BufferKeepsNewest ==
    /\ Total(buffer) <= MaxSize
    /\ \A i \in 1..Len(buffer) : buffer[i] = logged - Len(buffer) + i

\* Once the agent has stopped, nothing that was logged before the last shipper
\* collected the buffer is still in it.
StopDrains == step = "done" => ToSet(buffer) \cap due = {}

-----------------------------------------------------------------------------
\* What makes these inductive: the main thread holds nothing before it collects
\* the buffer, and what is due has left the buffer for good.
LogInv ==
    /\ LogTypeOK
    /\ NothingForgotten
    /\ BufferKeepsNewest
    /\ step # "ship" => load[Main] = <<>>
    /\ due \subseteq 1..logged
    /\ ToSet(buffer) \cap due = {}
==============================================================================
