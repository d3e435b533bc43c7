-------------------------- MODULE MessageOrdering --------------------------
(***************************************************************************)
(* An ordered channel (shared/messaging/ordering.py).  A sender numbers    *)
(* its messages; the network reorders, duplicates and loses them; each     *)
(* arrival is a task that runs receive(), and a background loop delivers   *)
(* what has waited too long.  The only suspension is the handler called in *)
(* _deliver, so a task's steps run from one handler call to the next.      *)
(***************************************************************************)
EXTENDS Integers, Sequences, FiniteSets

CONSTANTS
    LastSequence,   \* the messages are numbered 0 .. LastSequence
    Copies,         \* how often the network delivers a message at most
    BufferSize      \* buffer_size

ASSUME OrderingAssumption ==
    LastSequence \in Nat /\ Copies \in Nat /\ BufferSize \in Nat

Messages == 0 .. LastSequence
Loop == <<-1, 0>>
Arrivals == Messages \X (1 .. Copies)
Deliverers == Arrivals \cup {Loop}

VARIABLES
    handled,        \* a handler is registered (on_message), and suspends
    network,        \* copies that have not arrived
    nextExpected,   \* SequenceTracker._next_expected
    gaps,           \* the numbers in SequenceTracker._gaps
    buffer,         \* OrderedMessageChannel._buffer: the numbers
    aged,           \* buffered messages older than max_wait_ms
    nextDelivery,   \* _next_delivery
    delivering,     \* of each task, the message its handler has; -1: none
    staleLeft,      \* the stale numbers the loop has listed and not reached
    deadLetters,    \* messages dropped with the buffer full
    delivered       \* _delivery_queue: what the consumer gets

OrderingVars == <<handled, network, nextExpected, gaps, buffer, aged, nextDelivery,
                  delivering, staleLeft, deadLetters, delivered>>

OrderingInit ==
    /\ handled \in BOOLEAN
    /\ network = Arrivals
    /\ nextExpected = 0 /\ gaps = {}
    /\ buffer = {} /\ aged = {} /\ nextDelivery = 0
    /\ delivering = [d \in Deliverers |-> -1]
    /\ staleLeft = {} /\ deadLetters = {} /\ delivered = <<>>

Least(S) == CHOOSE n \in S : \A m \in S : n <= m

-----------------------------------------------------------------------------
\* A task holds message n until its handler returns; without a handler the
\* message goes to the queue at once.
Busy(d) == delivering[d] # -1

\* record(): a number below the next expected one is a duplicate, a number
\* above it opens a gap; the next expected number moves past it either way.
Record(n) ==
    /\ nextExpected' = IF n >= nextExpected THEN n + 1 ELSE nextExpected
    /\ gaps' = (gaps \cup (nextExpected .. n - 1)) \cap
                    (IF n = nextExpected THEN n + 1 .. LastSequence ELSE Messages)

IsDuplicate(n) == n < nextExpected

Lose(a) ==
    /\ a \in network
    /\ network' = network \ {a}
    /\ UNCHANGED <<handled, nextExpected, gaps, buffer, aged, nextDelivery, delivering,
                   staleLeft, deadLetters, delivered>>

ReceiveDuplicate(a) ==
    /\ a \in network /\ IsDuplicate(a[1])
    /\ network' = network \ {a}
    /\ Record(a[1])
    /\ UNCHANGED <<handled, buffer, aged, nextDelivery, delivering, staleLeft, deadLetters, delivered>>

\* The next message in order goes to the handler at once.
ReceiveNext(a) ==
    /\ a \in network /\ ~IsDuplicate(a[1]) /\ a[1] = nextDelivery
    /\ network' = network \ {a}
    /\ Record(a[1])
    /\ delivering' = [delivering EXCEPT ![a] = a[1]]
    /\ UNCHANGED <<handled, buffer, aged, nextDelivery, staleLeft, deadLetters, delivered>>

ReceiveEarly(a) ==
    /\ a \in network /\ ~IsDuplicate(a[1]) /\ a[1] # nextDelivery
    /\ network' = network \ {a}
    /\ Record(a[1])
    /\ IF Cardinality(buffer) < BufferSize
       THEN buffer' = buffer \cup {a[1]} /\ UNCHANGED deadLetters
       ELSE deadLetters' = deadLetters \cup {a[1]} /\ UNCHANGED buffer
    /\ UNCHANGED <<handled, aged, nextDelivery, delivering, staleLeft, delivered>>

\* The handler returns: the message is queued, the next delivery moves on, and
\* the next message is taken from the buffer if it is there.
Flush(a) ==
    /\ a \in Arrivals /\ Busy(a)
    /\ delivered' = Append(delivered, delivering[a])
    /\ nextDelivery' = nextDelivery + 1
    /\ LET n == nextDelivery + 1
       IN  /\ delivering' = [delivering EXCEPT ![a] = IF n \in buffer THEN n ELSE -1]
           /\ buffer' = buffer \ {n} /\ aged' = aged \ {n}
    /\ UNCHANGED <<handled, network, nextExpected, gaps, staleLeft, deadLetters>>

-----------------------------------------------------------------------------
(* The loop that gives up waiting for a gap.                                 *)

\* Of two buffered messages the lower was sent, and arrived, before the other.
Age(n) ==
    /\ n \in buffer \ aged /\ \A m \in buffer \ aged : n <= m
    /\ aged' = aged \cup {n}
    /\ UNCHANGED <<handled, network, nextExpected, gaps, buffer, nextDelivery, delivering,
                   staleLeft, deadLetters, delivered>>

\* As the code must not be: the stale numbers are taken newest first, or not
\* before the gap in front of them closes.
Wake_Newest ==
    /\ ~Busy(Loop) /\ aged # {}
    /\ LET n == CHOOSE m \in aged : \A k \in aged : k <= m
       IN  /\ delivering' = [delivering EXCEPT ![Loop] = n]
           /\ buffer' = buffer \ {n} /\ staleLeft' = aged \ {n} /\ aged' = aged \ {n}
    /\ UNCHANGED <<handled, network, nextExpected, gaps, nextDelivery, deadLetters, delivered>>

\* The loop wakes up, lists the stale numbers and takes the first.
Wake ==
    /\ ~Busy(Loop) /\ aged # {}
    /\ LET n == Least(aged)
       IN  /\ delivering' = [delivering EXCEPT ![Loop] = n]
           /\ buffer' = buffer \ {n} /\ staleLeft' = aged \ {n} /\ aged' = aged \ {n}
    /\ UNCHANGED <<handled, network, nextExpected, gaps, nextDelivery, deadLetters, delivered>>

\* A listed number that a receive() has delivered meanwhile is passed over.
DeliverStale ==
    /\ Busy(Loop)
    /\ delivered' = Append(delivered, delivering[Loop])
    /\ nextDelivery' = IF delivering[Loop] >= nextDelivery
                       THEN delivering[Loop] + 1 ELSE nextDelivery
    /\ LET left == staleLeft \cap buffer
           n    == Least(left)
       IN  IF left = {}
           THEN /\ delivering' = [delivering EXCEPT ![Loop] = -1]
                /\ staleLeft' = {} /\ UNCHANGED <<buffer, aged>>
           ELSE /\ delivering' = [delivering EXCEPT ![Loop] = n]
                /\ buffer' = buffer \ {n} /\ aged' = aged \ {n}
                /\ staleLeft' = left \ {n}
    /\ UNCHANGED <<handled, network, nextExpected, gaps, deadLetters>>

\* Without a handler nothing suspends: a step is taken only when no other task
\* is in the middle of its own.
Alone(d) == handled \/ \A e \in Deliverers \ {d} : ~Busy(e)

OrderingNext ==
    \/ \E a \in Arrivals : /\ Alone(a)
                           /\ \/ Lose(a) \/ ReceiveDuplicate(a) \/ ReceiveNext(a)
                              \/ ReceiveEarly(a) \/ Flush(a)
    \/ \E n \in Messages : Alone(Loop) /\ Age(n)
    \/ Alone(Loop) /\ (Wake \/ DeliverStale)

\* Handlers return, and the loop keeps waking up.
OrderingFairness ==
    /\ \A a \in Arrivals : WF_OrderingVars(Flush(a))
    /\ \A n \in Messages : WF_OrderingVars(Alone(Loop) /\ Age(n))
    /\ WF_OrderingVars(Alone(Loop) /\ (Wake \/ DeliverStale))

OrderingSpec == OrderingInit /\ [][OrderingNext]_OrderingVars /\ OrderingFairness

-----------------------------------------------------------------------------
InHand == {delivering[d] : d \in Deliverers} \ {-1}
Queued == {delivered[i] : i \in 1 .. Len(delivered)}

\* No copy of a message is delivered, handed over or buffered a second time,
\* whatever the network duplicates; and without a handler that suspends, what the
\* consumer gets is in order, stale messages and the numbers skipped for them
\* included.
DeliveredInOrder ==
    /\ \A i, j \in 1 .. Len(delivered) : delivered[i] = delivered[j] => i = j
    /\ \A d, e \in Deliverers : Busy(d) /\ delivering[d] = delivering[e] => d = e
    /\ Queued \cap InHand = {} /\ (Queued \cup InHand) \cap buffer = {}
    /\ ~handled => \A i, j \in 1 .. Len(delivered) : i < j => delivered[i] < delivered[j]
=============================================================================
