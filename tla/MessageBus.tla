----------------------------- MODULE MessageBus -----------------------------
(***************************************************************************)
(* The ZeroMQ publisher and subscriber (src/src/zmq_publisher.py), with    *)
(* the library installed.  If the port is taken the publisher writes to a  *)
(* bounded in-process queue instead, which drops its oldest message when   *)
(* full and is read by consume().                                          *)
(*                                                                         *)
(* The PUB/SUB sockets are external: messages reach a connected subscriber *)
(* in order, and are dropped when there is none, at the high-water mark,   *)
(* and when the publisher stops (LINGER is 0).                             *)
(***************************************************************************)
EXTENDS Integers, Sequences, FiniteSets, SequencesExt

CONSTANTS Topics,                \* topics of messages
          Subscribed,            \* the topics the subscriber asked for
          HighWater,             \* high_water_mark of the sockets
          QueueSize,             \* maxsize of InProcessQueue
          MaxMessages, MaxStarts \* bounds

VARIABLES running,               \* _running of the publisher
          fallback,              \* whether it has a _fallback_queue
          sequence,              \* _sequence
          wire,                  \* messages between the sockets
          queue,                 \* InProcessQueue
          subscriber,            \* "off", "waiting" in receive(), "handling" in on_message
          received,              \* numbers handed to on_message or returned by consume()
          starts,
          lost                   \* history: numbers that will never be received

vars == <<running, fallback, sequence, wire, queue, subscriber, received, starts, lost>>

TypeOK ==
  /\ running \in BOOLEAN /\ fallback \in BOOLEAN
  /\ sequence \in 0..MaxMessages
  /\ Len(wire) <= HighWater /\ Len(queue) <= QueueSize
  /\ subscriber \in {"off", "waiting", "handling"}
  /\ lost \subseteq 1..sequence

Init ==
  /\ running = FALSE /\ fallback = FALSE /\ sequence = 0 /\ wire = << >> /\ queue = << >>
  /\ subscriber = "off" /\ received = << >>
  /\ starts = 0 /\ lost = {}

Numbers(messages) == {messages[i].sequence : i \in DOMAIN messages}

-----------------------------------------------------------------------------
(* ZMQPublisher                                                            *)

\* start(): if the port cannot be bound a new queue replaces the old one.  Once there is a
\* queue it is used, also when a later start() gets the port.
Start(bound) ==
  /\ ~running /\ starts < MaxStarts
  /\ starts' = starts + 1
  /\ running' = TRUE
  /\ \/ bound /\ UNCHANGED <<fallback, queue, lost>>
     \/ ~bound /\ fallback' = TRUE /\ queue' = << >> /\ lost' = lost \cup Numbers(queue)
  /\ UNCHANGED <<sequence, wire, subscriber, received>>

\* stop() drops what the socket still holds; the queue stays.
Stop ==
  /\ running
  /\ running' = FALSE
  /\ wire' = << >>
  /\ lost' = lost \cup Numbers(wire)
  /\ UNCHANGED <<fallback, sequence, queue, subscriber, received, starts>>

\* Numbers go on over stop() and start().
NextSequence == sequence + 1

\* publish() to the socket, of a message the subscriber asked for or not
PublishSocket(topic) ==
  /\ running /\ ~fallback /\ sequence < MaxMessages
  /\ sequence' = NextSequence
  /\ \/ /\ subscriber # "off" /\ topic \in Subscribed /\ Len(wire) < HighWater
        /\ wire' = Append(wire, [sequence |-> sequence', topic |-> topic])
        /\ UNCHANGED lost
     \/ lost' = lost \cup {sequence'} /\ UNCHANGED wire
  /\ UNCHANGED <<running, fallback, queue, subscriber, received, starts>>

\* InProcessQueue.publish(): the oldest message makes room.
PublishQueue(topic) ==
  /\ running /\ fallback /\ sequence < MaxMessages
  /\ sequence' = NextSequence
  /\ LET full == Len(queue) = QueueSize IN
       /\ queue' = Append(IF full THEN Tail(queue) ELSE queue, [sequence |-> sequence', topic |-> topic])
       /\ lost' = IF full THEN lost \cup {Head(queue).sequence} ELSE lost
  /\ UNCHANGED <<running, fallback, wire, subscriber, received, starts>>

-----------------------------------------------------------------------------
(* ZMQSubscriber, and the reader of the queue                              *)

Subscribe ==
  /\ subscriber = "off"
  /\ subscriber' = "waiting"
  /\ UNCHANGED <<running, fallback, sequence, wire, queue, received, starts, lost>>

\* receive() and run_loop(): the next message goes to on_message.
Receive ==
  /\ subscriber = "waiting" /\ wire # << >>
  /\ wire' = Tail(wire)
  /\ received' = Append(received, Head(wire).sequence)
  /\ subscriber' = "handling"
  /\ UNCHANGED <<running, fallback, sequence, queue, starts, lost>>

\* on_message is over, whether it returned or raised.
Handled ==
  /\ subscriber = "handling"
  /\ subscriber' = "waiting"
  /\ UNCHANGED <<running, fallback, sequence, wire, queue, received, starts, lost>>

\* stop() of the subscriber; messages on their way are gone.
Unsubscribe ==
  /\ subscriber = "waiting"
  /\ subscriber' = "off"
  /\ wire' = << >>
  /\ lost' = lost \cup Numbers(wire)
  /\ UNCHANGED <<running, fallback, sequence, queue, received, starts>>

\* consume() and consume_all()
Consume(n) ==
  /\ n \in 1..Len(queue)
  /\ queue' = SubSeq(queue, n + 1, Len(queue))
  /\ received' = received \o [i \in 1..n |-> queue[i].sequence]
  /\ UNCHANGED <<running, fallback, sequence, wire, subscriber, starts, lost>>

Next ==
  \/ \E bound \in BOOLEAN : Start(bound)
  \/ \E topic \in Topics : PublishSocket(topic) \/ PublishQueue(topic)
  \/ Stop \/ Subscribe \/ Receive \/ Handled \/ Unsubscribe
  \/ Consume(1) \/ Consume(Len(queue))

Spec == Init /\ [][Next]_vars

-----------------------------------------------------------------------------
(* Properties                                                              *)

\* What is received has ever larger numbers, over restarts of the publisher and changes between
\* socket and queue, so that a gap tells of lost messages (publish()).
InOrder == \A i, j \in DOMAIN received : i < j => received[i] < received[j]

\* Every number given out is received, lost, or on its way, and only one of them: a full queue
\* or socket drops whole messages and delivers none twice (publish(), consume()).
NumbersAccounted ==
  LET places == <<Range(received), lost, Numbers(wire), Numbers(queue)>> IN
  /\ UNION Range(places) = 1..sequence
  /\ \A i, j \in 1..4 : i # j => places[i] \cap places[j] = {}
=============================================================================
