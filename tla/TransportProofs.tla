-------------------------- MODULE TransportProofs ---------------------------
(***************************************************************************)
(* The transports of MCServices: the message bus and the tick buffer.      *)
(*                                                                         *)
(* The bus keeps the places a message can be in apart, in the order of the *)
(* numbers; the buffer keeps those of a tick apart, and the commands of a  *)
(* call show in the list.  The candles of get_ohlcv() are a fold: by       *)
(* induction on the ticks folded (over a set, as in DataLemmas), those of  *)
(* the first k ticks are the right ones.                                   *)
(***************************************************************************)
EXTENDS MCServices, DataLemmas

-----------------------------------------------------------------------------
(* The message bus                                                         *)

Message == [sequence : Nat, topic : Topics]

\* Messages in the order of their numbers
Rising(s) == \A i, j \in 1..Len(s) : i < j => s[i].sequence < s[j].sequence

\* Ever larger numbers
Ascending(r) == \A i, j \in 1..Len(r) : i < j => r[i] < r[j]

\* Messages between the publisher and a reader: in order, of the n numbers given out, and later
\* than all those received, r.
Sent(s, n, r) ==
  /\ s \in Seq(Message) /\ Rising(s)
  /\ \A i \in 1..Len(s) : s[i].sequence \in 1..n
  /\ \A i \in 1..Len(s), j \in 1..Len(r) : r[j] < s[i].sequence

\* What a reader has is in order.
Read(n, r) == r \in Seq(Nat) /\ Ascending(r) /\ In(r) \subseteq 1..n

\* Every number is somewhere, and no lost one is on its way or was received.
Placed ==
  /\ 1..sequence \subseteq In(received) \cup lost \cup Bus!Numbers(wire) \cup Bus!Numbers(queue)
  /\ lost \cap (In(received) \cup Bus!Numbers(wire) \cup Bus!Numbers(queue)) = {}
  /\ lost \subseteq 1..sequence

BusTypes ==
  /\ bus_running \in BOOLEAN /\ fallback \in BOOLEAN /\ sequence \in 0..BusMessages
  /\ subscriber \in {"off", "waiting", "handling"}
  /\ Len(wire) <= HighWater /\ Len(queue) <= QueueSize

\* Inductive.  Messages are in the socket or in the queue, never in both: a publisher with a queue
\* does not use the socket again, and one that is stopped has emptied it.
BusIInv ==
  /\ BusTypes
  /\ Sent(wire, sequence, received) /\ Sent(queue, sequence, received)
  /\ Read(sequence, received)
  /\ fallback \/ ~bus_running => wire = << >>
  /\ ~fallback => queue = << >>
  /\ Placed

\* The numbers of a sequence of messages
LEMMA NumbersOf ==
  ASSUME NEW s \in Seq(Message)
  PROVE  Bus!Numbers(s) = {s[i].sequence : i \in 1..Len(s)}
BY DEF Bus!Numbers

\* The first message leaves.
LEMMA MessageTaken ==
  ASSUME NEW s \in Seq(Message), s # << >>, Rising(s)
  PROVE  /\ Tail(s) \in Seq(Message) /\ Rising(Tail(s)) /\ Len(Tail(s)) = Len(s) - 1
         /\ Head(s) \in Message /\ Head(s) = s[1] /\ 1 \in 1..Len(s)
         /\ \A i \in 1..Len(Tail(s)) : /\ i + 1 \in 1..Len(s) /\ Tail(s)[i] = s[i + 1]
                                       /\ Head(s).sequence < Tail(s)[i].sequence
         /\ Bus!Numbers(s) = {Head(s).sequence} \cup Bus!Numbers(Tail(s))
         /\ Head(s).sequence \notin Bus!Numbers(Tail(s))
<1>1. /\ Tail(s) \in Seq(Message) /\ Len(s) \in Nat \ {0} /\ Len(Tail(s)) = Len(s) - 1
      /\ Head(s) = s[1] /\ 1 \in 1..Len(s)
      /\ \A i \in 1..Len(Tail(s)) : Tail(s)[i] = s[i + 1]
  OBVIOUS
<1>2. \A i \in 1..Len(Tail(s)) : i + 1 \in 1..Len(s) /\ 1 < i + 1
  BY <1>1
<1>3. \A i \in 1..Len(Tail(s)) : Head(s).sequence < Tail(s)[i].sequence
  BY <1>1, <1>2 DEF Rising
<1>4. Rising(Tail(s))
  <2> SUFFICES ASSUME NEW i \in 1..Len(Tail(s)), NEW j \in 1..Len(Tail(s)), i < j
               PROVE  Tail(s)[i].sequence < Tail(s)[j].sequence
    BY DEF Rising
  <2>1. i + 1 < j + 1 /\ i + 1 \in 1..Len(s) /\ j + 1 \in 1..Len(s)
    BY <1>1, <1>2
  <2>2. s[i + 1].sequence < s[j + 1].sequence
    BY <2>1 DEF Rising
  <2> QED BY <1>1, <2>2
<1>5. \A i \in 1..Len(s) : s[i] \in Message
  OBVIOUS
<1>6. \A i \in 1..Len(s) : i = 1 \/ (i - 1 \in 1..Len(Tail(s)) /\ Tail(s)[i - 1] = s[i])
  BY <1>1
<1>7. Bus!Numbers(s) = {Head(s).sequence} \cup Bus!Numbers(Tail(s))
  <2>1. Bus!Numbers(s) = {s[i].sequence : i \in 1..Len(s)}
    BY NumbersOf
  <2>2. Bus!Numbers(Tail(s)) = {Tail(s)[i].sequence : i \in 1..Len(Tail(s))}
    BY <1>1, NumbersOf
  <2>3. Bus!Numbers(s) \subseteq {Head(s).sequence} \cup Bus!Numbers(Tail(s))
    <3> SUFFICES ASSUME NEW i \in 1..Len(s)
                 PROVE  s[i].sequence \in {Head(s).sequence} \cup Bus!Numbers(Tail(s))
      BY <2>1
    <3>1. CASE i = 1
      BY <1>1, <3>1
    <3>2. CASE i - 1 \in 1..Len(Tail(s)) /\ Tail(s)[i - 1] = s[i]
      BY <2>2, <3>2
    <3> QED BY <1>6, <3>1, <3>2
  <2>4. Head(s).sequence \in Bus!Numbers(s)
    BY <1>1, <2>1
  <2>5. Bus!Numbers(Tail(s)) \subseteq Bus!Numbers(s)
    <3> SUFFICES ASSUME NEW i \in 1..Len(Tail(s))
                 PROVE  Tail(s)[i].sequence \in Bus!Numbers(s)
      BY <2>2
    <3>1. Tail(s)[i] = s[i + 1] /\ i + 1 \in 1..Len(s)
      BY <1>1, <1>2
    <3> QED BY <2>1, <3>1
  <2> QED BY <2>3, <2>4, <2>5
<1>8. Head(s).sequence \notin Bus!Numbers(Tail(s))
  <2>1. Bus!Numbers(Tail(s)) = {Tail(s)[i].sequence : i \in 1..Len(Tail(s))}
    BY <1>1, NumbersOf
  <2>2. Head(s).sequence \in Nat
    BY <1>1, <1>5 DEF Message
  <2> QED BY <1>3, <2>1, <2>2
<1>9. Head(s) \in Message
  BY <1>1, <1>5
<1> QED BY <1>1, <1>2, <1>3, <1>4, <1>7, <1>8, <1>9

\* A message with a new number comes.
LEMMA MessagePut ==
  ASSUME NEW s \in Seq(Message), Rising(s), NEW m \in Message,
         \A i \in 1..Len(s) : s[i].sequence < m.sequence
  PROVE  /\ Append(s, m) \in Seq(Message) /\ Rising(Append(s, m)) /\ Len(Append(s, m)) = Len(s) + 1
         /\ \A i \in 1..Len(s) + 1 : Append(s, m)[i] = IF i <= Len(s) THEN s[i] ELSE m
         /\ Bus!Numbers(Append(s, m)) = Bus!Numbers(s) \cup {m.sequence}
<1>1. /\ Append(s, m) \in Seq(Message) /\ Len(Append(s, m)) = Len(s) + 1 /\ Len(s) \in Nat
      /\ \A i \in 1..Len(s) + 1 : Append(s, m)[i] = IF i <= Len(s) THEN s[i] ELSE m
  OBVIOUS
<1>2. Rising(Append(s, m))
  <2> SUFFICES ASSUME NEW i \in 1..Len(s) + 1, NEW j \in 1..Len(s) + 1, i < j
               PROVE  Append(s, m)[i].sequence < Append(s, m)[j].sequence
    BY <1>1 DEF Rising
  <2>1. i \in 1..Len(s) /\ Append(s, m)[i] = s[i]
    BY <1>1
  <2>2. CASE j <= Len(s)
    BY <1>1, <2>1, <2>2 DEF Rising
  <2>3. CASE ~(j <= Len(s))
    BY <1>1, <2>1, <2>3
  <2> QED BY <2>2, <2>3
<1>3. Bus!Numbers(Append(s, m)) = Bus!Numbers(s) \cup {m.sequence}
  <2>1. Bus!Numbers(s) = {s[i].sequence : i \in 1..Len(s)}
    BY NumbersOf
  <2>2. Bus!Numbers(Append(s, m)) = {Append(s, m)[i].sequence : i \in 1..Len(s) + 1}
    BY <1>1, NumbersOf
  <2>3. \A i \in 1..Len(s) : i \in 1..Len(s) + 1 /\ Append(s, m)[i] = s[i]
    BY <1>1
  <2>4. \A i \in 1..Len(s) + 1 : i \in 1..Len(s) \/ Append(s, m)[i] = m
    BY <1>1
  <2>5. Len(s) + 1 \in 1..Len(s) + 1 /\ Append(s, m)[Len(s) + 1] = m
    BY <1>1
  <2> QED BY <2>1, <2>2, <2>3, <2>4, <2>5
<1> QED BY <1>1, <1>2, <1>3

-----------------------------------------------------------------------------
\* Nothing is on its way.
LEMMA SentNone ==
  ASSUME NEW n \in Nat, NEW r \in Seq(Nat)
  PROVE  Sent(<< >>, n, r) /\ Bus!Numbers(<< >>) = {} /\ Len(<< >>) = 0
<1>1. << >> \in Seq(Message) /\ Len(<< >>) = 0 /\ 1..0 = {}
  OBVIOUS
<1>2. Bus!Numbers(<< >>) = {}
  BY <1>1, NumbersOf
<1> QED BY <1>1, <1>2 DEF Sent, Rising

\* What is on its way has numbers given out, later than those received.
LEMMA SentNumbers ==
  ASSUME NEW s, NEW n \in Nat, NEW r \in Seq(Nat), Sent(s, n, r)
  PROVE  Bus!Numbers(s) \subseteq 1..n /\ Bus!Numbers(s) \cap In(r) = {}
<1>1. s \in Seq(Message) /\ Bus!Numbers(s) = {s[i].sequence : i \in 1..Len(s)}
  BY NumbersOf DEF Sent
<1>2. Bus!Numbers(s) \subseteq 1..n
  BY <1>1 DEF Sent
<1>3. ASSUME NEW x, x \in Bus!Numbers(s), x \in In(r) PROVE FALSE
  <2>1. PICK i \in 1..Len(s) : x = s[i].sequence
    BY <1>1, <1>3
  <2>2. PICK j \in 1..Len(r) : x = r[j]
    BY <1>3 DEF In
  <2>3. r[j] < s[i].sequence /\ x \in Nat
    BY <1>2, <1>3 DEF Sent
  <2> QED BY <2>1, <2>2, <2>3
<1> QED BY <1>2, <1>3

\* A new number is given out: what is on its way and what was received stays as it is, and the
\* message with the number may follow.
LEMMA NumberGiven ==
  ASSUME NEW s, NEW n \in Nat, NEW r, Sent(s, n, r), Read(n, r), NEW topic \in Topics
  PROVE  LET m == [sequence |-> n + 1, topic |-> topic] IN
         /\ Sent(s, n + 1, r) /\ Read(n + 1, r)
         /\ Sent(Append(s, m), n + 1, r)
         /\ Len(Append(s, m)) = Len(s) + 1 /\ Len(s) \in Nat
         /\ Bus!Numbers(Append(s, m)) = Bus!Numbers(s) \cup {n + 1}
<1> DEFINE m == [sequence |-> n + 1, topic |-> topic]
<1>1. m \in Message /\ m.sequence = n + 1
  BY DEF Message
<1>2. s \in Seq(Message) /\ Rising(s) /\ r \in Seq(Nat) /\ Len(s) \in Nat
  BY DEF Sent, Read
<1>3. 1..n \subseteq 1..n + 1 /\ n + 1 \in 1..n + 1 /\ \A x \in 1..n : x < n + 1
  OBVIOUS
<1>4. Sent(s, n + 1, r) /\ Read(n + 1, r)
  <2>1. Sent(s, n + 1, r)
    BY <1>2, <1>3 DEF Sent
  <2>2. Read(n + 1, r)
    BY <1>2, <1>3 DEF Read
  <2> QED BY <2>1, <2>2
<1> HIDE DEF m
<1>5. \A i \in 1..Len(s) : s[i].sequence < m.sequence
  BY <1>1, <1>3 DEF Sent
<1>6. /\ Append(s, m) \in Seq(Message) /\ Rising(Append(s, m)) /\ Len(Append(s, m)) = Len(s) + 1
      /\ \A i \in 1..Len(s) + 1 : Append(s, m)[i] = IF i <= Len(s) THEN s[i] ELSE m
      /\ Bus!Numbers(Append(s, m)) = Bus!Numbers(s) \cup {m.sequence}
  BY <1>1, <1>2, <1>5, MessagePut
<1>7. Sent(Append(s, m), n + 1, r)
  <2>1. ASSUME NEW i \in 1..Len(s) + 1
        PROVE  /\ Append(s, m)[i].sequence \in 1..n + 1
               /\ \A j \in 1..Len(r) : r[j] < Append(s, m)[i].sequence
    <3>1. CASE i <= Len(s)
      <4>1. i \in 1..Len(s) /\ Append(s, m)[i] = s[i]
        BY <1>2, <1>6, <3>1
      <4> QED BY <4>1, <1>3 DEF Sent
    <3>2. CASE ~(i <= Len(s))
      <4>1. Append(s, m)[i] = m
        BY <1>6, <3>2
      <4>2. \A j \in 1..Len(r) : r[j] \in 1..n
        BY DEF Read, In
      <4> QED BY <4>1, <4>2, <1>1, <1>3
    <3> QED BY <3>1, <3>2
  <2> QED BY <2>1, <1>6 DEF Sent
<1> QED BY <1>1, <1>2, <1>4, <1>6, <1>7 DEF m

\* The first message is received, or makes room.
LEMMA FirstLeaves ==
  ASSUME NEW s, s # << >>, NEW n \in Nat, NEW r, Sent(s, n, r), Read(n, r)
  PROVE  LET x == Head(s).sequence IN
         /\ Sent(Tail(s), n, r) /\ Sent(Tail(s), n, Append(r, x)) /\ Read(n, Append(r, x))
         /\ Len(Tail(s)) = Len(s) - 1 /\ Len(s) \in Nat
         /\ x \in 1..n /\ x \notin In(r) /\ In(Append(r, x)) = In(r) \cup {x}
         /\ Bus!Numbers(s) = {x} \cup Bus!Numbers(Tail(s)) /\ x \notin Bus!Numbers(Tail(s))
<1> DEFINE x == Head(s).sequence
<1>1. s \in Seq(Message) /\ Rising(s) /\ r \in Seq(Nat) /\ Len(s) \in Nat
  BY DEF Sent, Read
<1>2. /\ Tail(s) \in Seq(Message) /\ Rising(Tail(s)) /\ Len(Tail(s)) = Len(s) - 1
      /\ Head(s) = s[1] /\ 1 \in 1..Len(s)
      /\ \A i \in 1..Len(Tail(s)) : /\ i + 1 \in 1..Len(s) /\ Tail(s)[i] = s[i + 1]
                                    /\ x < Tail(s)[i].sequence
      /\ Bus!Numbers(s) = {x} \cup Bus!Numbers(Tail(s)) /\ x \notin Bus!Numbers(Tail(s))
  BY <1>1, MessageTaken
<1>3. x \in 1..n /\ \A j \in 1..Len(r) : r[j] < x
  BY <1>2 DEF Sent
<1> HIDE DEF x
<1>4. Sent(Tail(s), n, r)
  <2>1. ASSUME NEW i \in 1..Len(Tail(s))
        PROVE  /\ Tail(s)[i].sequence \in 1..n
               /\ \A j \in 1..Len(r) : r[j] < Tail(s)[i].sequence
    <3>1. i + 1 \in 1..Len(s) /\ Tail(s)[i] = s[i + 1]
      BY <1>2
    <3> QED BY <3>1 DEF Sent
  <2> QED BY <2>1, <1>2 DEF Sent
<1>5. x \in Nat
  BY <1>3
<1>6. /\ Append(r, x) \in Seq(Nat) /\ In(Append(r, x)) = In(r) \cup {x}
      /\ Len(Append(r, x)) = Len(r) + 1 /\ Len(r) \in Nat
  BY <1>1, <1>5, AppendedIn
<1>7. \A j \in 1..Len(r) + 1 : Append(r, x)[j] = IF j <= Len(r) THEN r[j] ELSE x
  BY <1>1, <1>5
<1>8. Sent(Tail(s), n, Append(r, x))
  <2>1. ASSUME NEW i \in 1..Len(Tail(s)), NEW j \in 1..Len(r) + 1
        PROVE  Append(r, x)[j] < Tail(s)[i].sequence
    <3>1. CASE j <= Len(r)
      <4>1. j \in 1..Len(r) /\ Append(r, x)[j] = r[j]
        BY <1>6, <1>7, <3>1
      <4> QED BY <4>1, <1>4 DEF Sent
    <3>2. CASE ~(j <= Len(r))
      BY <1>2, <1>7, <3>2
    <3> QED BY <3>1, <3>2
  <2> QED BY <2>1, <1>4, <1>6 DEF Sent
<1>9. Ascending(Append(r, x))
  <2> SUFFICES ASSUME NEW i \in 1..Len(r) + 1, NEW j \in 1..Len(r) + 1, i < j
               PROVE  Append(r, x)[i] < Append(r, x)[j]
    BY <1>6 DEF Ascending
  <2>1. i \in 1..Len(r) /\ Append(r, x)[i] = r[i]
    BY <1>6, <1>7
  <2>2. CASE j <= Len(r)
    <3>1. j \in 1..Len(r) /\ Append(r, x)[j] = r[j]
      BY <1>6, <1>7, <2>2
    <3> QED BY <2>1, <3>1 DEF Read, Ascending
  <2>3. CASE ~(j <= Len(r))
    BY <1>3, <1>7, <2>1, <2>3
  <2> QED BY <2>2, <2>3
<1>10. In(r) \subseteq 1..n /\ x \notin In(r)
  <2>1. In(r) \subseteq 1..n
    BY DEF Read
  <2>2. ASSUME x \in In(r) PROVE FALSE
    <3>1. PICK j \in 1..Len(r) : x = r[j]
      BY <2>2 DEF In
    <3> QED BY <1>3, <1>5, <3>1
  <2> QED BY <2>1, <2>2
<1>11. Read(n, Append(r, x))
  BY <1>3, <1>6, <1>9, <1>10 DEF Read
<1> QED BY <1>1, <1>2, <1>3, <1>4, <1>6, <1>8, <1>10, <1>11 DEF x

\* The first k messages are received at once.
LEMMA FirstLeave ==
  ASSUME NEW s, NEW n \in Nat, NEW r, Sent(s, n, r), Read(n, r), NEW k \in 1..Len(s)
  PROVE  LET x == [i \in 1..k |-> s[i].sequence]
             t == SubSeq(s, k + 1, Len(s)) IN
         /\ Sent(t, n, r \o x) /\ Read(n, r \o x) /\ Len(t) = Len(s) - k /\ Len(s) \in Nat
         /\ In(r \o x) \cup Bus!Numbers(t) = In(r) \cup Bus!Numbers(s)
<1> DEFINE x == [i \in 1..k |-> s[i].sequence]
           t == SubSeq(s, k + 1, Len(s))
           q == r \o x
<1>1. /\ s \in Seq(Message) /\ Rising(s) /\ r \in Seq(Nat) /\ Len(s) \in Nat /\ Len(r) \in Nat
      /\ k \in Nat /\ k <= Len(s) /\ Bus!Numbers(s) = {s[i].sequence : i \in 1..Len(s)}
  BY NumbersOf DEF Sent, Read
<1>2. /\ t \in Seq(Message) /\ Len(t) = Len(s) - k
      /\ \A i \in 1..Len(s) - k : t[i] = s[k + i] /\ k + i \in 1..Len(s)
  BY <1>1
<1>3. x \in Seq(Nat) /\ Len(x) = k /\ \A i \in 1..k : x[i] = s[i].sequence /\ i \in 1..Len(s)
  <2>1. \A i \in 1..k : i \in 1..Len(s) /\ s[i] \in Message
    BY <1>1
  <2>2. x \in [1..k -> Nat]
    BY <2>1 DEF Message
  <2> QED BY <1>1, <2>1, <2>2
<1> HIDE DEF x, t
<1>4. /\ q \in Seq(Nat) /\ Len(q) = Len(r) + k
      /\ \A j \in 1..Len(r) + k : q[j] = IF j <= Len(r) THEN r[j] ELSE x[j - Len(r)]
  BY <1>1, <1>3, Joined
<1> HIDE DEF q
<1>5. ASSUME NEW j \in 1..Len(r) + k
      PROVE  \/ j \in 1..Len(r) /\ q[j] = r[j]
             \/ j - Len(r) \in 1..k /\ q[j] = s[j - Len(r)].sequence /\ j > Len(r)
  <2>1. CASE j <= Len(r)
    BY <1>1, <1>4, <2>1
  <2>2. CASE ~(j <= Len(r))
    <3>1. j - Len(r) \in 1..k /\ j > Len(r)
      BY <1>1, <2>2
    <3> QED BY <1>3, <1>4, <2>2, <3>1
  <2> QED BY <2>1, <2>2
<1>6. \A i, j \in 1..Len(s) : i < j => s[i].sequence < s[j].sequence
  BY DEF Sent, Rising
<1>7. \A i \in 1..Len(s), j \in 1..Len(r) : r[j] < s[i].sequence
  BY DEF Sent
<1>8. Sent(t, n, q)
  <2>1. Rising(t)
    <3> SUFFICES ASSUME NEW i \in 1..Len(t), NEW j \in 1..Len(t), i < j
                 PROVE  t[i].sequence < t[j].sequence
      BY DEF Rising
    <3>1. k + i < k + j /\ k + i \in 1..Len(s) /\ k + j \in 1..Len(s)
      BY <1>1, <1>2
    <3> QED BY <1>2, <1>6, <3>1
  <2>2. \A i \in 1..Len(t) : t[i].sequence \in 1..n
    BY <1>2 DEF Sent
  <2>3. ASSUME NEW i \in 1..Len(t), NEW j \in 1..Len(q) PROVE q[j] < t[i].sequence
    <3>1. t[i] = s[k + i] /\ k + i \in 1..Len(s)
      BY <1>2
    <3>2. CASE j \in 1..Len(r) /\ q[j] = r[j]
      BY <1>7, <3>1, <3>2
    <3>3. CASE j - Len(r) \in 1..k /\ q[j] = s[j - Len(r)].sequence
      <4>1. j - Len(r) \in 1..Len(s) /\ j - Len(r) < k + i
        BY <1>1, <1>2, <3>3
      <4> QED BY <1>6, <3>1, <3>3, <4>1
    <3> QED BY <1>4, <1>5, <3>2, <3>3
  <2> QED BY <1>2, <2>1, <2>2, <2>3 DEF Sent
<1>9. Ascending(q)
  <2> SUFFICES ASSUME NEW i \in 1..Len(r) + k, NEW j \in 1..Len(r) + k, i < j
               PROVE  q[i] < q[j]
    BY <1>4 DEF Ascending
  <2>1. CASE i \in 1..Len(r) /\ q[i] = r[i] /\ j \in 1..Len(r) /\ q[j] = r[j]
    BY <2>1 DEF Read, Ascending
  <2>2. CASE i \in 1..Len(r) /\ q[i] = r[i] /\ j - Len(r) \in 1..k /\ q[j] = s[j - Len(r)].sequence
    <3>1. j - Len(r) \in 1..Len(s)
      BY <1>3, <2>2
    <3> QED BY <1>7, <2>2, <3>1
  <2>3. CASE /\ i - Len(r) \in 1..k /\ q[i] = s[i - Len(r)].sequence /\ i > Len(r)
             /\ j - Len(r) \in 1..k /\ q[j] = s[j - Len(r)].sequence
    <3>1. i - Len(r) \in 1..Len(s) /\ j - Len(r) \in 1..Len(s) /\ i - Len(r) < j - Len(r)
      BY <1>1, <1>3, <2>3
    <3> QED BY <1>6, <2>3, <3>1
  <2>4. CASE i > Len(r) /\ j \in 1..Len(r)
    BY <1>1, <2>4
  <2> QED BY <1>5, <2>1, <2>2, <2>3, <2>4
<1>10. In(q) \subseteq 1..n
  <2> SUFFICES ASSUME NEW j \in 1..Len(r) + k PROVE q[j] \in 1..n
    BY <1>4 DEF In
  <2>1. CASE j \in 1..Len(r) /\ q[j] = r[j]
    BY <2>1 DEF Read, In
  <2>2. CASE j - Len(r) \in 1..k /\ q[j] = s[j - Len(r)].sequence
    <3>1. j - Len(r) \in 1..Len(s)
      BY <1>3, <2>2
    <3> QED BY <2>2, <3>1 DEF Sent
  <2> QED BY <1>5, <2>1, <2>2
<1>11. In(q) \subseteq In(r) \cup Bus!Numbers(s)
  <2> SUFFICES ASSUME NEW j \in 1..Len(r) + k PROVE q[j] \in In(r) \cup Bus!Numbers(s)
    BY <1>4 DEF In
  <2>1. CASE j \in 1..Len(r) /\ q[j] = r[j]
    BY <2>1 DEF In
  <2>2. CASE j - Len(r) \in 1..k /\ q[j] = s[j - Len(r)].sequence
    BY <1>1, <1>3, <2>2
  <2> QED BY <1>5, <2>1, <2>2
<1>12. Bus!Numbers(t) \subseteq Bus!Numbers(s)
  <2>1. Bus!Numbers(t) = {t[i].sequence : i \in 1..Len(t)}
    BY <1>2, NumbersOf
  <2> QED BY <1>1, <1>2, <2>1
<1>13. In(r) \subseteq In(q)
  <2> SUFFICES ASSUME NEW j \in 1..Len(r) PROVE r[j] \in In(q)
    BY DEF In
  <2>1. j \in 1..Len(r) + k /\ j <= Len(r)
    BY <1>1
  <2>2. q[j] = r[j] /\ j \in 1..Len(q)
    BY <1>4, <2>1
  <2> QED BY <2>2 DEF In
<1>14. Bus!Numbers(s) \subseteq In(q) \cup Bus!Numbers(t)
  <2> SUFFICES ASSUME NEW i \in 1..Len(s) PROVE s[i].sequence \in In(q) \cup Bus!Numbers(t)
    BY <1>1
  <2>1. CASE i <= k
    <3>1. Len(r) + i \in 1..Len(r) + k /\ ~(Len(r) + i <= Len(r)) /\ (Len(r) + i) - Len(r) = i
          /\ i \in 1..k
      BY <1>1, <2>1
    <3>2. q[Len(r) + i] = s[i].sequence /\ Len(r) + i \in 1..Len(q)
      BY <1>3, <1>4, <3>1
    <3> QED BY <3>2 DEF In
  <2>2. CASE ~(i <= k)
    <3>1. i - k \in 1..Len(s) - k /\ k + (i - k) = i
      BY <1>1, <2>2
    <3>2. t[i - k] = s[i] /\ i - k \in 1..Len(t)
      BY <1>2, <3>1
    <3>3. Bus!Numbers(t) = {t[j].sequence : j \in 1..Len(t)}
      BY <1>2, NumbersOf
    <3> QED BY <3>2, <3>3
  <2> QED BY <2>1, <2>2
<1>15. Read(n, q)
  BY <1>4, <1>9, <1>10 DEF Read
<1>16. In(q) \cup Bus!Numbers(t) = In(r) \cup Bus!Numbers(s)
  BY <1>11, <1>12, <1>13, <1>14
<1> QED BY <1>1, <1>2, <1>8, <1>15, <1>16 DEF x, t, q

\* The bus starts with nothing given out.
LEMMA BusStart == ASSUME TransportConstants, Bus!Init PROVE BusIInv
<1>1. /\ bus_running = FALSE /\ fallback = FALSE /\ sequence = 0 /\ wire = << >> /\ queue = << >>
      /\ subscriber = "off" /\ received = << >> /\ lost = {}
  BY DEF Bus!Init
<1>2. HighWater \in Nat /\ QueueSize \in Nat /\ BusMessages \in Nat
  BY DEF TransportConstants
<1>3. received \in Seq(Nat) /\ Len(received) = 0 /\ 1..0 = {}
  BY <1>1
<1>4. Sent(<< >>, 0, received) /\ Bus!Numbers(<< >>) = {} /\ Len(<< >>) = 0
  BY <1>3, SentNone
<1>5. Read(0, received)
  BY <1>3 DEF Read, Ascending, In
<1>6. BusTypes
  <2>1. Len(wire) <= HighWater /\ Len(queue) <= QueueSize
    <3>1. Len(wire) = 0 /\ Len(queue) = 0
      BY <1>1
    <3> QED BY <1>2, <3>1
  <2>2. sequence \in 0..BusMessages
    BY <1>1, <1>2
  <2> QED BY <1>1, <2>1, <2>2 DEF BusTypes
<1>7. Placed
  BY <1>1, <1>3, <1>4 DEF Placed
<1> QED BY <1>1, <1>4, <1>5, <1>6, <1>7 DEF BusIInv

\* The invariant, with what its parts say of the numbers.
LEMMA BusFacts ==
  ASSUME TransportConstants, BusIInv
  PROVE  /\ sequence \in Nat /\ received \in Seq(Nat)
         /\ Bus!Numbers(wire) \subseteq 1..sequence /\ Bus!Numbers(queue) \subseteq 1..sequence
         /\ In(received) \subseteq 1..sequence
         /\ HighWater \in Nat /\ QueueSize \in Nat \ {0} /\ BusMessages \in Nat
<1>1. HighWater \in Nat /\ QueueSize \in Nat \ {0} /\ BusMessages \in Nat
  BY DEF TransportConstants
<1>2. sequence \in Nat /\ received \in Seq(Nat) /\ In(received) \subseteq 1..sequence
  BY <1>1 DEF BusIInv, BusTypes, Read
<1>3. Sent(wire, sequence, received) /\ Sent(queue, sequence, received)
  BY DEF BusIInv
<1> QED BY <1>1, <1>2, <1>3, SentNumbers

\* A new queue replaces the old one, whose messages are lost.
LEMMA StartStep ==
  ASSUME TransportConstants, BusIInv, NEW bound \in BOOLEAN, Bus!Start(bound)
  PROVE  BusIInv'
<1> USE BusFacts DEF Bus!Start
<1>1. CASE bound
  <2>1. /\ UNCHANGED <<fallback, queue, lost, sequence, wire, subscriber, received>>
        /\ bus_running' = TRUE
    BY <1>1
  <2> QED BY <2>1 DEF BusIInv, BusTypes, Placed
<1>2. CASE ~bound
  <2>1. /\ bus_running' = TRUE /\ fallback' = TRUE /\ queue' = << >>
        /\ lost' = lost \cup Bus!Numbers(queue)
        /\ sequence' = sequence /\ wire' = wire /\ subscriber' = subscriber /\ received' = received
        /\ wire = << >>
    BY <1>2 DEF BusIInv
  <2>2. Sent(<< >>, sequence, received) /\ Bus!Numbers(<< >>) = {} /\ Len(<< >>) = 0
    BY SentNone
  <2>3. BusTypes'
    BY <2>1, <2>2 DEF BusIInv, BusTypes
  <2>4. Bus!Numbers(queue) \cap In(received) = {}
    BY SentNumbers DEF BusIInv
  <2>5. Placed'
    BY <2>1, <2>2, <2>4 DEF BusIInv, Placed
  <2> QED BY <2>1, <2>2, <2>3, <2>5 DEF BusIInv
<1> QED BY <1>1, <1>2

\* What the socket held is lost.
LEMMA WireLost ==
  ASSUME TransportConstants, BusIInv, wire' = << >>, lost' = lost \cup Bus!Numbers(wire),
         UNCHANGED <<fallback, sequence, queue, received>>,
         bus_running' \in BOOLEAN, subscriber' \in {"off", "waiting", "handling"},
         Bus!Numbers(wire) \cap Bus!Numbers(queue) = {}
  PROVE  BusIInv'
<1>1. Sent(<< >>, sequence, received) /\ Bus!Numbers(<< >>) = {} /\ Len(<< >>) = 0
  BY BusFacts, SentNone
<1>2. BusTypes'
  BY <1>1, BusFacts DEF BusIInv, BusTypes
<1>3. Bus!Numbers(wire) \cap In(received) = {}
  BY BusFacts, SentNumbers DEF BusIInv
<1>4. Placed'
  BY <1>1, <1>3, BusFacts DEF BusIInv, Placed
<1> QED BY <1>1, <1>2, <1>4 DEF BusIInv

\* Messages are in the socket or in the queue.
LEMMA OnePlace ==
  ASSUME BusIInv
  PROVE  Bus!Numbers(wire) \cap Bus!Numbers(queue) = {}
<1>1. Bus!Numbers(<< >>) = {}
  BY SentNone, << >> \in Seq(Nat), 0 \in Nat
<1> QED BY <1>1 DEF BusIInv, BusTypes

\* stop() of the publisher or of the subscriber
LEMMA StopStep ==
  ASSUME TransportConstants, BusIInv, Bus!Stop \/ Bus!Unsubscribe
  PROVE  BusIInv'
<1>1. CASE Bus!Stop
  <2>1. /\ bus_running' = FALSE /\ wire' = << >> /\ lost' = lost \cup Bus!Numbers(wire)
        /\ UNCHANGED <<fallback, sequence, queue, subscriber, received>>
    BY <1>1 DEF Bus!Stop
  <2> QED BY <2>1, WireLost, OnePlace DEF BusIInv, BusTypes
<1>2. CASE Bus!Unsubscribe
  <2>1. /\ subscriber' = "off" /\ wire' = << >> /\ lost' = lost \cup Bus!Numbers(wire)
        /\ UNCHANGED <<bus_running, fallback, sequence, queue, received>>
    BY <1>2 DEF Bus!Unsubscribe
  <2> QED BY <2>1, WireLost, OnePlace DEF BusIInv, BusTypes
<1> QED BY <1>1, <1>2

\* A message goes into the socket, or is lost.
LEMMA SocketStep ==
  ASSUME TransportConstants, BusIInv, NEW topic \in Topics, Bus!PublishSocket(topic)
  PROVE  BusIInv'
<1>1. /\ bus_running = TRUE /\ fallback = FALSE /\ sequence < BusMessages
      /\ sequence' = sequence + 1 /\ queue = << >>
      /\ bus_running' = bus_running /\ fallback' = fallback /\ queue' = queue
      /\ subscriber' = subscriber /\ received' = received
  BY DEF Bus!PublishSocket, Bus!NextSequence, BusIInv, BusTypes
<1>2. /\ sequence \in Nat /\ received \in Seq(Nat)
      /\ Bus!Numbers(wire) \subseteq 1..sequence /\ Bus!Numbers(queue) \subseteq 1..sequence
      /\ In(received) \subseteq 1..sequence /\ lost \subseteq 1..sequence
      /\ HighWater \in Nat /\ QueueSize \in Nat \ {0} /\ BusMessages \in Nat
  BY BusFacts DEF BusIInv, Placed
<1>3. Sent(wire, sequence, received) /\ Sent(queue, sequence, received) /\ Read(sequence, received)
  BY DEF BusIInv
<1> DEFINE m == [sequence |-> sequence + 1, topic |-> topic]
<1>4. /\ Sent(wire, sequence + 1, received) /\ Read(sequence + 1, received)
      /\ Sent(Append(wire, m), sequence + 1, received)
      /\ Len(Append(wire, m)) = Len(wire) + 1 /\ Len(wire) \in Nat
      /\ Bus!Numbers(Append(wire, m)) = Bus!Numbers(wire) \cup {sequence + 1}
  BY <1>2, <1>3, NumberGiven
<1>5. Sent(queue, sequence + 1, received)
  BY <1>2, <1>3, NumberGiven
<1>6. 1..sequence + 1 = 1..sequence \cup {sequence + 1} /\ sequence + 1 \notin 1..sequence
  BY <1>2
<1>7. CASE Len(wire) < HighWater /\ wire' = Append(wire, m) /\ lost' = lost
  <2> HIDE DEF m
  <2>1. BusTypes'
    BY <1>1, <1>2, <1>4, <1>7 DEF BusIInv, BusTypes
  <2>2. Placed'
    BY <1>1, <1>2, <1>4, <1>6, <1>7 DEF BusIInv, Placed
  <2> QED BY <1>1, <1>4, <1>5, <1>7, <2>1, <2>2 DEF BusIInv
<1>8. CASE lost' = lost \cup {sequence + 1} /\ wire' = wire
  <2>1. BusTypes'
    BY <1>1, <1>2, <1>8 DEF BusIInv, BusTypes
  <2>2. Placed'
    BY <1>1, <1>2, <1>6, <1>8 DEF BusIInv, Placed
  <2> QED BY <1>1, <1>4, <1>5, <1>8, <2>1, <2>2 DEF BusIInv
<1>9. \/ Len(wire) < HighWater /\ wire' = Append(wire, m) /\ lost' = lost
      \/ lost' = lost \cup {sequence + 1} /\ wire' = wire
  BY <1>1 DEF Bus!PublishSocket
<1> QED BY <1>7, <1>8, <1>9

\* A message goes into the queue; the oldest one of a full queue is lost.
LEMMA QueueStep ==
  ASSUME TransportConstants, BusIInv, NEW topic \in Topics, Bus!PublishQueue(topic)
  PROVE  BusIInv'
<1> DEFINE m == [sequence |-> sequence + 1, topic |-> topic]
<1>1. /\ bus_running = TRUE /\ fallback = TRUE /\ sequence < BusMessages
      /\ sequence' = sequence + 1 /\ wire = << >>
      /\ bus_running' = bus_running /\ fallback' = fallback /\ wire' = wire
      /\ subscriber' = subscriber /\ received' = received
  BY DEF Bus!PublishQueue, Bus!NextSequence, BusIInv, BusTypes
<1>2. /\ sequence \in Nat /\ received \in Seq(Nat)
      /\ Bus!Numbers(wire) \subseteq 1..sequence /\ Bus!Numbers(queue) \subseteq 1..sequence
      /\ In(received) \subseteq 1..sequence /\ lost \subseteq 1..sequence
      /\ HighWater \in Nat /\ QueueSize \in Nat \ {0} /\ BusMessages \in Nat
  BY BusFacts DEF BusIInv, Placed
<1>3. Sent(wire, sequence, received) /\ Sent(queue, sequence, received) /\ Read(sequence, received)
  BY DEF BusIInv
<1>4. Sent(wire, sequence + 1, received) /\ Read(sequence + 1, received)
  BY <1>2, <1>3, NumberGiven
<1>5. Bus!Numbers(wire) = {}
  BY <1>1, <1>2, SentNone
<1>6. 1..sequence + 1 = 1..sequence \cup {sequence + 1} /\ sequence + 1 \notin 1..sequence
  BY <1>2
<1>7. /\ queue' = Append(IF Len(queue) = QueueSize THEN Tail(queue) ELSE queue, m)
      /\ lost' = IF Len(queue) = QueueSize THEN lost \cup {Head(queue).sequence} ELSE lost
  BY <1>1 DEF Bus!PublishQueue
<1>8. Len(queue) <= QueueSize
  BY DEF BusIInv, BusTypes
<1>9. CASE Len(queue) # QueueSize
  <2>1. queue' = Append(queue, m) /\ lost' = lost
    BY <1>7, <1>9
  <2>2. /\ Sent(Append(queue, m), sequence + 1, received)
        /\ Len(Append(queue, m)) = Len(queue) + 1 /\ Len(queue) \in Nat
        /\ Bus!Numbers(Append(queue, m)) = Bus!Numbers(queue) \cup {sequence + 1}
    BY <1>2, <1>3, NumberGiven
  <2> HIDE DEF m
  <2>3. BusTypes'
    BY <1>1, <1>2, <1>8, <1>9, <2>1, <2>2 DEF BusIInv, BusTypes
  <2>4. Placed'
    BY <1>1, <1>2, <1>5, <1>6, <2>1, <2>2 DEF BusIInv, Placed
  <2> QED BY <1>1, <1>4, <2>1, <2>2, <2>3, <2>4 DEF BusIInv
<1>10. CASE Len(queue) = QueueSize
  <2> DEFINE rest == Tail(queue)
             oldest == Head(queue).sequence
  <2>0. queue # << >>
    BY <1>2, <1>10
  <2>1. queue' = Append(rest, m) /\ lost' = lost \cup {oldest}
    BY <1>7, <1>10
  <2>2. /\ Sent(rest, sequence, received) /\ Len(rest) = Len(queue) - 1
        /\ oldest \in 1..sequence /\ oldest \notin In(received)
        /\ Bus!Numbers(queue) = {oldest} \cup Bus!Numbers(rest) /\ oldest \notin Bus!Numbers(rest)
    BY <1>2, <1>3, <2>0, FirstLeaves
  <2> HIDE DEF rest, oldest
  <2>3. /\ Sent(Append(rest, m), sequence + 1, received)
        /\ Len(Append(rest, m)) = Len(rest) + 1
        /\ Bus!Numbers(Append(rest, m)) = Bus!Numbers(rest) \cup {sequence + 1}
    BY <1>2, <1>3, <2>2, NumberGiven
  <2> HIDE DEF m
  <2>4. BusTypes'
    BY <1>1, <1>2, <1>8, <1>10, <2>1, <2>2, <2>3 DEF BusIInv, BusTypes
  <2>5. Placed'
    BY <1>1, <1>2, <1>5, <1>6, <2>1, <2>2, <2>3 DEF BusIInv, Placed
  <2> QED BY <1>1, <1>4, <2>1, <2>3, <2>4, <2>5 DEF BusIInv
<1> QED BY <1>9, <1>10

\* The subscriber receives the next message.
LEMMA ReceiveStep ==
  ASSUME TransportConstants, BusIInv, Bus!Receive
  PROVE  BusIInv'
<1> DEFINE rest == Tail(wire)
           leading == Head(wire).sequence
<1>1. /\ wire # << >> /\ wire' = rest /\ received' = Append(received, leading)
      /\ subscriber' = "handling" /\ bus_running' = bus_running /\ fallback' = fallback
      /\ sequence' = sequence /\ queue' = queue /\ lost' = lost
  BY DEF Bus!Receive
<1>2. bus_running = TRUE /\ fallback = FALSE /\ queue = << >>
  BY <1>1 DEF BusIInv, BusTypes
<1>3. /\ sequence \in Nat /\ received \in Seq(Nat)
      /\ HighWater \in Nat /\ QueueSize \in Nat \ {0} /\ BusMessages \in Nat
  BY BusFacts
<1>4. Sent(wire, sequence, received) /\ Sent(queue, sequence, received) /\ Read(sequence, received)
  BY DEF BusIInv
<1>5. /\ Sent(rest, sequence, Append(received, leading)) /\ Read(sequence, Append(received, leading))
      /\ Len(rest) = Len(wire) - 1 /\ Len(wire) \in Nat
      /\ In(Append(received, leading)) = In(received) \cup {leading}
      /\ Bus!Numbers(wire) = {leading} \cup Bus!Numbers(rest)
  BY <1>1, <1>3, <1>4, FirstLeaves
<1> HIDE DEF rest, leading
<1>6. Sent(queue, sequence, Append(received, leading))
  <2>1. Append(received, leading) \in Seq(Nat)
    BY <1>5 DEF Read
  <2> QED BY <1>2, <1>3, <2>1, SentNone
<1>7. BusTypes'
  BY <1>1, <1>3, <1>5 DEF BusIInv, BusTypes
<1>8. Placed'
  BY <1>1, <1>5 DEF BusIInv, Placed
<1> QED BY <1>1, <1>2, <1>5, <1>6, <1>7, <1>8 DEF BusIInv

\* consume() of some messages
LEMMA ConsumeStep ==
  ASSUME TransportConstants, BusIInv, NEW k, Bus!Consume(k)
  PROVE  BusIInv'
<1> DEFINE x == [i \in 1..k |-> queue[i].sequence]
           rest == SubSeq(queue, k + 1, Len(queue))
           all == received \o x
<1>1. /\ k \in 1..Len(queue) /\ queue' = rest /\ received' = all
      /\ bus_running' = bus_running /\ fallback' = fallback /\ subscriber' = subscriber
      /\ sequence' = sequence /\ wire' = wire /\ lost' = lost
  BY DEF Bus!Consume
<1>2. /\ sequence \in Nat /\ received \in Seq(Nat)
      /\ HighWater \in Nat /\ QueueSize \in Nat \ {0} /\ BusMessages \in Nat
  BY BusFacts
<1>3. Sent(wire, sequence, received) /\ Sent(queue, sequence, received) /\ Read(sequence, received)
  BY DEF BusIInv
<1>4. /\ Sent(rest, sequence, all) /\ Read(sequence, all)
      /\ Len(rest) = Len(queue) - k /\ Len(queue) \in Nat
      /\ In(all) \cup Bus!Numbers(rest) = In(received) \cup Bus!Numbers(queue)
  BY <1>1, <1>2, <1>3, FirstLeave
<1> HIDE DEF all, rest
<1>5. queue # << >> /\ fallback = TRUE /\ wire = << >>
  <2>1. Len(queue) # 0
    BY <1>1, <1>4
  <2>2. queue # << >>
    BY <2>1
  <2> QED BY <2>2 DEF BusIInv, BusTypes
<1>6. Sent(wire, sequence, all)
  <2>1. all \in Seq(Nat)
    BY <1>4 DEF Read
  <2> QED BY <1>2, <1>5, <2>1, SentNone
<1>7. BusTypes'
  <2>1. Len(rest) <= QueueSize
    BY <1>1, <1>2, <1>4 DEF BusIInv, BusTypes
  <2> QED BY <1>1, <2>1 DEF BusIInv, BusTypes
<1>8. Placed'
  BY <1>1, <1>4 DEF BusIInv, Placed
<1> QED BY <1>1, <1>4, <1>5, <1>6, <1>7, <1>8 DEF BusIInv

\* Every step of the bus keeps it.
LEMMA BusStep == ASSUME TransportConstants, BusIInv, Bus!Next PROVE BusIInv'
<1>1. ASSUME Bus!Subscribe \/ Bus!Handled PROVE BusIInv'
  <2>1. /\ subscriber' = "waiting"
        /\ UNCHANGED <<bus_running, fallback, sequence, wire, queue, received, lost>>
    BY <1>1 DEF Bus!Subscribe, Bus!Handled
  <2> QED BY <2>1 DEF BusIInv, BusTypes, Placed
<1> QED BY <1>1, StartStep, StopStep, SocketStep, QueueStep, ReceiveStep, ConsumeStep
        DEF Bus!Next

\* While something else moves the bus stays.
LEMMA BusStutter == ASSUME BusIInv, UNCHANGED bus_vars PROVE BusIInv'
BY DEF BusIInv, BusTypes, Placed, bus_vars

\* What the invariant says: messages arrive in order and every number is in one place.
LEMMA BusProperties ==
  ASSUME TransportConstants, BusIInv
  PROVE  Bus!TypeOK /\ Bus!InOrder /\ Bus!NumbersAccounted
<1>1. Bus!TypeOK
  BY DEF Bus!TypeOK, BusIInv, BusTypes, Placed
<1>2. received \in Seq(Nat) /\ DOMAIN received = 1..Len(received)
  BY BusFacts
<1>3. Bus!InOrder
  BY <1>2 DEF Bus!InOrder, BusIInv, Read, Ascending
<1>4. Bus!Range(received) = In(received)
  BY <1>2 DEF Bus!Range, In
<1>5. Bus!NumbersAccounted
  <2> DEFINE a == In(received)
             b == lost
             c == Bus!Numbers(wire)
             d == Bus!Numbers(queue)
             places == <<a, b, c, d>>
  <2>1. a \subseteq 1..sequence /\ b \subseteq 1..sequence /\ c \subseteq 1..sequence
        /\ d \subseteq 1..sequence /\ 1..sequence \subseteq a \cup b \cup c \cup d
    BY BusFacts DEF BusIInv, Placed
  <2>2. a \cap b = {} /\ b \cap c = {} /\ b \cap d = {}
    BY DEF BusIInv, Placed
  <2>3. a \cap c = {} /\ a \cap d = {}
    BY BusFacts, SentNumbers DEF BusIInv
  <2>4. c \cap d = {}
    BY OnePlace
  <2>5. places = <<Bus!Range(received), lost, Bus!Numbers(wire), Bus!Numbers(queue)>>
    BY <1>4
  <2> HIDE DEF a, b, c, d
  <2>6. places[1] = a /\ places[2] = b /\ places[3] = c /\ places[4] = d /\ DOMAIN places = 1..4
    OBVIOUS
  <2>7. \A i \in 1..4 : i = 1 \/ i = 2 \/ i = 3 \/ i = 4
    OBVIOUS
  <2>8. Bus!Range(places) = {a, b, c, d}
    BY <2>6, <2>7 DEF Bus!Range
  <2>9. UNION Bus!Range(places) = 1..sequence
    BY <2>1, <2>8
  <2>10. \A i, j \in 1..4 : i # j => places[i] \cap places[j] = {}
    BY <2>2, <2>3, <2>4, <2>6, <2>7
  <2> HIDE DEF places
  <2> QED BY <2>5, <2>9, <2>10 DEF Bus!NumbersAccounted
<1> QED BY <1>1, <1>3, <1>5

-----------------------------------------------------------------------------
(* The tick buffer: where ticks are                                        *)

\* Ticks, with ever larger or ever smaller numbers
TicksRise(s) == \A i, j \in 1..Len(s) : i < j => s[i].number < s[j].number
TicksFall(s) == \A i, j \in 1..Len(s) : i < j => s[i].number > s[j].number

\* The numbers tasks p are about to send, of the ticks s; they are different ones.
SentOf(p, s) == {s[t].number : t \in {u \in TickTasks : p[u] = "lpush"}}
Different(p, s) ==
  \A t, u \in TickTasks : p[t] = "lpush" /\ p[u] = "lpush" /\ t # u => s[t].number # s[u].number

\* The tasks between LPUSH and LTRIM
Trimming(p) == {t \in TickTasks : p[t] = "ltrim"}

\* Each of the numbers up to n is in one of the sets, and in one only.
Parted(a, b, c, d, e, n) ==
  /\ a \cup b \cup c \cup d \cup e = 1..n
  /\ a \cap b = {} /\ a \cap c = {} /\ a \cap d = {} /\ a \cap e = {}
  /\ b \cap c = {} /\ b \cap d = {} /\ b \cap e = {}
  /\ c \cap d = {} /\ c \cap e = {} /\ d \cap e = {}

\* The commands of one call follow one another, and what each has done shows: the next tick is
\* newer than the list; once pushed it is its head; the list is gone when :latest is deleted.
Views(p, s, l, x) ==
  /\ TicksFall(l)
  /\ \A t, u \in TickTasks : p[t] \in Ticks!Busy /\ p[u] \in Ticks!Busy => t = u
  /\ (\A t \in TickTasks : p[t] \notin Ticks!Busy) => x = IF l = << >> THEN Ticks!NoTick ELSE l[1]
  /\ \A t \in TickTasks : p[t] = "lpush" => \A i \in 1..Len(l) : l[i].number < s[t].number
  /\ \A t \in TickTasks : p[t] \in {"ltrim", "set"} => l # << >> /\ l[1] = s[t]
  /\ \A t \in TickTasks : p[t] = "delete_latest" => l = << >>

TaskStates == {"idle", "initialize", "ready", "lpush", "ltrim", "set", "delete", "delete_latest"}

BufferTypes ==
  /\ manager \in {"none", "made", "redis", "memory"} /\ ticks_connected \in BOOLEAN
  /\ ticks_pc \in [TickTasks -> TaskStates]
  /\ sending \in [TickTasks -> Ticks!Ticks \cup {Ticks!NoTick}]
  /\ \A t \in TickTasks : ticks_pc[t] \in {"lpush", "ltrim", "set"} => sending[t] \in Ticks!Ticks
  /\ memory \in Seq(Ticks!Ticks) /\ Len(memory) <= MaxSize
  /\ list \in Seq(Ticks!Ticks) /\ latest \in Ticks!Ticks \cup {Ticks!NoTick}
  /\ pushed \in 0..MaxTicks /\ untrimmed \in Nat /\ disturbed \in BOOLEAN

ListShort == Len(list) <= MaxSize + Cardinality(Trimming(ticks_pc)) + untrimmed

BufferPlaces ==
  /\ Parted(Ticks!Numbers(memory), Ticks!Numbers(list), SentOf(ticks_pc, sending), gone, dropped,
            pushed)
  /\ TicksRise(memory) /\ Different(ticks_pc, sending)

BufferViews == ~disturbed => Views(ticks_pc, sending, list, latest)

\* Inductive.
TicksIInv == BufferTypes /\ ListShort /\ BufferPlaces /\ BufferViews

\* What the constants are.
LEMMA BufferNumbers ==
  ASSUME TransportConstants
  PROVE  /\ MaxSize \in Nat \ {0} /\ MaxTicks \in Nat /\ IsFiniteSet(TickTasks)
         /\ TickInterval \in Nat \ {0} /\ Periods \in Nat \ {0}
         /\ Times \subseteq Nat /\ TickPrices \subseteq Int
BY DEF TransportConstants

\* A tick
LEMMA TickIs ==
  ASSUME TransportConstants, NEW k \in Ticks!Ticks
  PROVE  k.number \in 1..MaxTicks /\ k.number \in Nat /\ k.time \in Nat /\ k.price \in Int
<1>1. k.number \in 1..MaxTicks /\ k.time \in Times /\ k.price \in TickPrices
  BY DEF Ticks!Ticks
<1>2. \A n \in 1..MaxTicks : n \in Nat
  BY BufferNumbers
<1> QED BY <1>1, <1>2, BufferNumbers, Zenon

\* The numbers of a sequence of ticks
LEMMA TickNumbersOf ==
  ASSUME NEW s \in Seq(Ticks!Ticks)
  PROVE  Ticks!Numbers(s) = {s[i].number : i \in 1..Len(s)}
BY DEF Ticks!Numbers

LEMMA NoTickNumbers == Ticks!Numbers(<< >>) = {}
BY DEF Ticks!Numbers

\* What one task's step does to the numbers being sent
LEMMA SentMoves ==
  ASSUME NEW p, NEW q, NEW s, NEW r, NEW t \in TickTasks,
         \A u \in TickTasks \ {t} : q[u] = p[u] /\ r[u] = s[u], Different(p, s)
  PROVE  /\ p[t] # "lpush" /\ q[t] # "lpush" => SentOf(q, r) = SentOf(p, s) /\ Different(q, r)
         /\ p[t] = "lpush" /\ q[t] # "lpush" =>
              /\ SentOf(q, r) = SentOf(p, s) \ {s[t].number} /\ Different(q, r)
              /\ s[t].number \in SentOf(p, s)
         /\ p[t] # "lpush" /\ q[t] = "lpush" /\ r[t].number \notin SentOf(p, s) =>
              SentOf(q, r) = SentOf(p, s) \cup {r[t].number} /\ Different(q, r)
<1>1. ASSUME p[t] # "lpush", q[t] # "lpush" PROVE SentOf(q, r) = SentOf(p, s) /\ Different(q, r)
  <2>1. \A u \in TickTasks : q[u] = "lpush" <=> p[u] = "lpush"
    BY <1>1
  <2>2. \A u \in TickTasks : q[u] = "lpush" => u # t /\ r[u] = s[u]
    BY <1>1
  <2>3. SentOf(q, r) = SentOf(p, s)
    BY <2>1, <2>2 DEF SentOf
  <2> QED BY <2>1, <2>2, <2>3 DEF Different
<1>2. ASSUME p[t] = "lpush", q[t] # "lpush"
      PROVE  /\ SentOf(q, r) = SentOf(p, s) \ {s[t].number} /\ Different(q, r)
             /\ s[t].number \in SentOf(p, s)
  <2>1. \A u \in TickTasks : q[u] = "lpush" <=> p[u] = "lpush" /\ u # t
    BY <1>2
  <2>2. \A u \in TickTasks : q[u] = "lpush" => u # t /\ r[u] = s[u] /\ s[u].number # s[t].number
    BY <1>2, <2>1 DEF Different
  <2>3. SentOf(q, r) \subseteq SentOf(p, s) \ {s[t].number}
    BY <2>1, <2>2 DEF SentOf
  <2>4. SentOf(p, s) \ {s[t].number} \subseteq SentOf(q, r)
    <3> SUFFICES ASSUME NEW u \in TickTasks, p[u] = "lpush", s[u].number # s[t].number
                 PROVE  s[u].number \in SentOf(q, r)
      BY DEF SentOf
    <3>1. q[u] = "lpush" /\ r[u] = s[u]
      BY <2>1, <2>2
    <3> QED BY <3>1 DEF SentOf
  <2>5. s[t].number \in SentOf(p, s)
    BY <1>2 DEF SentOf
  <2> QED BY <2>1, <2>2, <2>3, <2>4, <2>5 DEF Different
<1>3. ASSUME p[t] # "lpush", q[t] = "lpush", r[t].number \notin SentOf(p, s)
      PROVE  SentOf(q, r) = SentOf(p, s) \cup {r[t].number} /\ Different(q, r)
  <2>1. \A u \in TickTasks : q[u] = "lpush" <=> p[u] = "lpush" \/ u = t
    BY <1>3
  <2>2. \A u \in TickTasks : p[u] = "lpush" =>
          u # t /\ r[u] = s[u] /\ r[u].number \in SentOf(p, s) /\ r[u].number # r[t].number
    BY <1>3 DEF SentOf
  <2>3. SentOf(q, r) \subseteq SentOf(p, s) \cup {r[t].number}
    BY <2>1, <2>2 DEF SentOf
  <2>4. SentOf(p, s) \subseteq SentOf(q, r)
    BY <2>1, <2>2 DEF SentOf
  <2>5. r[t].number \in SentOf(q, r)
    BY <1>3 DEF SentOf
  <2>6. Different(q, r)
    <3> SUFFICES ASSUME NEW u \in TickTasks, NEW w \in TickTasks,
                        q[u] = "lpush", q[w] = "lpush", u # w
                 PROVE  r[u].number # r[w].number
      BY DEF Different
    <3>1. CASE u = t
      BY <2>1, <2>2, <3>1
    <3>2. CASE w = t
      BY <2>1, <2>2, <3>2
    <3>3. CASE u # t /\ w # t
      BY <2>1, <2>2, <3>3 DEF Different
    <3> QED BY <3>1, <3>2, <3>3
  <2> QED BY <2>3, <2>4, <2>5, <2>6
<1> QED BY <1>1, <1>2, <1>3

\* What one task's step does to those about to trim
LEMMA TrimmingMoves ==
  ASSUME TransportConstants, NEW p, NEW q, NEW t \in TickTasks,
         \A u \in TickTasks \ {t} : q[u] = p[u]
  PROVE  /\ Cardinality(Trimming(p)) \in Nat /\ Cardinality(Trimming(q)) \in Nat
         /\ (p[t] = "ltrim" <=> q[t] = "ltrim") => Trimming(q) = Trimming(p)
         /\ p[t] = "ltrim" /\ q[t] # "ltrim" =>
              Cardinality(Trimming(q)) = Cardinality(Trimming(p)) - 1
         /\ p[t] # "ltrim" /\ q[t] = "ltrim" =>
              Cardinality(Trimming(q)) = Cardinality(Trimming(p)) + 1
<1>1. IsFiniteSet(Trimming(p)) /\ IsFiniteSet(Trimming(q))
  <2>1. Trimming(p) \in SUBSET TickTasks /\ Trimming(q) \in SUBSET TickTasks
    BY DEF Trimming
  <2> QED BY <2>1, BufferNumbers, FS_Subset
<1>2. Cardinality(Trimming(p)) \in Nat /\ Cardinality(Trimming(q)) \in Nat
  BY <1>1, FS_CardinalityType
<1>3. ASSUME p[t] = "ltrim" <=> q[t] = "ltrim" PROVE Trimming(q) = Trimming(p)
  BY <1>3 DEF Trimming
<1>4. ASSUME p[t] = "ltrim", q[t] # "ltrim"
      PROVE  Cardinality(Trimming(q)) = Cardinality(Trimming(p)) - 1
  <2>1. Trimming(q) = Trimming(p) \ {t} /\ t \in Trimming(p)
    BY <1>4 DEF Trimming
  <2> QED BY <1>1, <2>1, FS_RemoveElement
<1>5. ASSUME p[t] # "ltrim", q[t] = "ltrim"
      PROVE  Cardinality(Trimming(q)) = Cardinality(Trimming(p)) + 1
  <2>1. Trimming(q) = Trimming(p) \cup {t} /\ t \notin Trimming(p)
    BY <1>5 DEF Trimming
  <2> QED BY <1>1, <2>1, FS_AddElement
<1> QED BY <1>2, <1>3, <1>4, <1>5

\* A tick with a new number comes last.
LEMMA TickPut ==
  ASSUME TransportConstants, NEW s \in Seq(Ticks!Ticks), TicksRise(s), NEW k \in Ticks!Ticks,
         \A i \in 1..Len(s) : s[i].number < k.number
  PROVE  /\ Append(s, k) \in Seq(Ticks!Ticks) /\ TicksRise(Append(s, k))
         /\ Len(Append(s, k)) = Len(s) + 1 /\ Len(s) \in Nat
         /\ Ticks!Numbers(Append(s, k)) = Ticks!Numbers(s) \cup {k.number}
<1> DEFINE t == Append(s, k)
<1>1. /\ t \in Seq(Ticks!Ticks) /\ Len(t) = Len(s) + 1 /\ Len(s) \in Nat
      /\ \A i \in 1..Len(s) + 1 : t[i] = IF i <= Len(s) THEN s[i] ELSE k
  OBVIOUS
<1> HIDE DEF t
<1>2. \A i \in 1..Len(s) : i \in 1..Len(s) + 1 /\ t[i] = s[i]
  BY <1>1
<1>3. \A i \in 1..Len(s) + 1 : i \in 1..Len(s) \/ (i = Len(s) + 1 /\ t[i] = k)
  BY <1>1
<1>4. TicksRise(t)
  <2> SUFFICES ASSUME NEW i \in 1..Len(s) + 1, NEW j \in 1..Len(s) + 1, i < j
               PROVE  t[i].number < t[j].number
    BY <1>1 DEF TicksRise
  <2>1. i \in 1..Len(s) /\ t[i] = s[i]
    BY <1>1, <1>2
  <2>2. CASE j \in 1..Len(s)
    BY <1>2, <2>1, <2>2 DEF TicksRise
  <2>3. CASE t[j] = k
    BY <2>1, <2>3
  <2> QED BY <1>3, <2>2, <2>3
<1>5. Ticks!Numbers(t) = Ticks!Numbers(s) \cup {k.number}
  <2>1. /\ Ticks!Numbers(s) = {s[i].number : i \in 1..Len(s)}
        /\ Ticks!Numbers(t) = {t[i].number : i \in 1..Len(s) + 1}
    BY <1>1, TickNumbersOf
  <2>2. Len(s) + 1 \in 1..Len(s) + 1 /\ t[Len(s) + 1] = k
    BY <1>1
  <2> QED BY <1>2, <1>3, <2>1, <2>2
<1> QED BY <1>1, <1>4, <1>5 DEF t

\* The oldest tick makes room.
LEMMA TickOut ==
  ASSUME TransportConstants, NEW s \in Seq(Ticks!Ticks), TicksRise(s), s # << >>
  PROVE  /\ Tail(s) \in Seq(Ticks!Ticks) /\ TicksRise(Tail(s))
         /\ Len(Tail(s)) = Len(s) - 1 /\ Len(s) \in Nat
         /\ Ticks!Numbers(s) = Ticks!Numbers(Tail(s)) \cup {s[1].number}
         /\ s[1].number \notin Ticks!Numbers(Tail(s))
<1> DEFINE t == Tail(s)
<1>1. /\ t \in Seq(Ticks!Ticks) /\ Len(s) \in Nat \ {0} /\ Len(t) = Len(s) - 1 /\ 1 \in 1..Len(s)
      /\ \A i \in 1..Len(t) : t[i] = s[i + 1]
  OBVIOUS
<1> HIDE DEF t
<1>2. \A i \in 1..Len(t) : i + 1 \in 1..Len(s) /\ 1 < i + 1 /\ t[i] = s[i + 1]
  BY <1>1
<1>3. \A i \in 1..Len(s) : i = 1 \/ (i - 1 \in 1..Len(t) /\ t[i - 1] = s[i])
  BY <1>1
<1>4. TicksRise(t)
  <2> SUFFICES ASSUME NEW i \in 1..Len(t), NEW j \in 1..Len(t), i < j
               PROVE  t[i].number < t[j].number
    BY DEF TicksRise
  <2>1. i + 1 < j + 1 /\ i + 1 \in 1..Len(s) /\ j + 1 \in 1..Len(s)
    BY <1>1, <1>2
  <2>2. s[i + 1].number < s[j + 1].number
    BY <2>1 DEF TicksRise
  <2> QED BY <1>2, <2>2
<1>5. /\ Ticks!Numbers(s) = {s[i].number : i \in 1..Len(s)}
      /\ Ticks!Numbers(t) = {t[i].number : i \in 1..Len(t)}
  BY <1>1, TickNumbersOf
<1>6. s[1].number \in Ticks!Numbers(s)
  BY <1>1, <1>5
<1>7. Ticks!Numbers(t) \subseteq Ticks!Numbers(s)
  <2> SUFFICES ASSUME NEW i \in 1..Len(t) PROVE t[i].number \in Ticks!Numbers(s)
    BY <1>5
  <2>1. t[i] = s[i + 1] /\ i + 1 \in 1..Len(s)
    BY <1>2
  <2> QED BY <1>5, <2>1
<1>8. Ticks!Numbers(s) \subseteq Ticks!Numbers(t) \cup {s[1].number}
  <2> SUFFICES ASSUME NEW i \in 1..Len(s) PROVE s[i].number \in Ticks!Numbers(t) \cup {s[1].number}
    BY <1>5
  <2>1. CASE i = 1
    BY <2>1
  <2>2. CASE i - 1 \in 1..Len(t) /\ t[i - 1] = s[i]
    BY <1>5, <2>2
  <2> QED BY <1>3, <2>1, <2>2
<1>9. s[1].number \notin Ticks!Numbers(t)
  <2> SUFFICES ASSUME NEW i \in 1..Len(t), t[i].number = s[1].number PROVE FALSE
    BY <1>5
  <2>0. 1 \in 1..Len(s) /\ i + 1 \in 1..Len(s) /\ 1 < i + 1 /\ t[i] = s[i + 1]
    BY <1>1, <1>2
  <2>1. s[1].number < t[i].number
    BY <2>0 DEF TicksRise
  <2>2. s[1].number \in Nat
    BY <2>0, TickIs
  <2> QED BY <2>1, <2>2
<1> QED BY <1>1, <1>4, <1>6, <1>7, <1>8, <1>9 DEF t

\* Nothing is pushed yet.
LEMMA BufferStart == ASSUME TransportConstants, Ticks!Init PROVE TicksIInv
<1>1. /\ manager = "none" /\ ticks_connected = FALSE
      /\ ticks_pc = [t \in TickTasks |-> "idle"] /\ sending = [t \in TickTasks |-> Ticks!NoTick]
      /\ memory = << >> /\ list = << >> /\ latest = Ticks!NoTick
      /\ pushed = 0 /\ dropped = {} /\ gone = {} /\ untrimmed = 0 /\ disturbed = FALSE
  BY DEF Ticks!Init
<1>2. /\ \A t \in TickTasks : ticks_pc[t] = "idle"
      /\ memory \in Seq(Ticks!Ticks) /\ list \in Seq(Ticks!Ticks) /\ Len(memory) = 0 /\ Len(list) = 0
      /\ 1..0 = {}
  BY <1>1
<1>3. BufferTypes
  <2>1. Len(memory) <= MaxSize /\ pushed \in 0..MaxTicks
    BY <1>1, <1>2, BufferNumbers
  <2>2. /\ ticks_pc \in [TickTasks -> TaskStates]
        /\ sending \in [TickTasks -> Ticks!Ticks \cup {Ticks!NoTick}]
        /\ \A t \in TickTasks : ticks_pc[t] \notin {"lpush", "ltrim", "set"}
    BY <1>1, <1>2 DEF TaskStates
  <2> QED BY <1>1, <1>2, <2>1, <2>2 DEF BufferTypes
<1>4. ListShort
  <2>1. Trimming(ticks_pc) = {}
    BY <1>2 DEF Trimming
  <2>2. Cardinality({}) = 0
    BY FS_EmptySet
  <2>3. Len(list) = 0 /\ untrimmed = 0 /\ MaxSize \in Nat
    BY <1>1, <1>2, BufferNumbers
  <2> QED BY <2>1, <2>2, <2>3 DEF ListShort
<1>5. BufferPlaces
  <2>1. SentOf(ticks_pc, sending) = {} /\ Different(ticks_pc, sending)
    BY <1>2 DEF SentOf, Different
  <2>2. Ticks!Numbers(memory) = {} /\ Ticks!Numbers(list) = {}
    BY <1>1, NoTickNumbers
  <2>3. TicksRise(memory)
    BY <1>2 DEF TicksRise
  <2> QED BY <1>1, <1>2, <2>1, <2>2, <2>3 DEF BufferPlaces, Parted
<1>6. BufferViews
  <2>1. \A t \in TickTasks : ticks_pc[t] \notin Ticks!Busy /\ ticks_pc[t] = "idle"
    BY <1>2 DEF Ticks!Busy
  <2> QED BY <1>1, <1>2, <2>1 DEF BufferViews, Views, TicksFall
<1> QED BY <1>3, <1>4, <1>5, <1>6 DEF TicksIInv

\* Only the manager changes, and one task between its states without a command.
LEMMA QuietBuffer ==
  ASSUME TransportConstants, TicksIInv, NEW t \in TickTasks,
         NEW v \in {"idle", "initialize", "ready"}, ticks_pc[t] \in {"idle", "initialize", "ready"},
         ticks_pc' = [ticks_pc EXCEPT ![t] = v],
         manager' \in {"none", "made", "redis", "memory"}, ticks_connected' \in BOOLEAN,
         UNCHANGED <<sending, memory, list, latest, pushed, dropped, gone, untrimmed, disturbed>>
  PROVE  TicksIInv'
<1> DEFINE q == [ticks_pc EXCEPT ![t] = v]
<1>0. ticks_pc \in [TickTasks -> TaskStates]
  BY DEF TicksIInv, BufferTypes
<1>1. /\ q[t] = v /\ \A u \in TickTasks \ {t} : q[u] = ticks_pc[u]
      /\ q \in [TickTasks -> TaskStates]
  BY <1>0 DEF TaskStates
<1>2. /\ v \notin {"lpush", "ltrim", "set", "delete", "delete_latest"}
      /\ ticks_pc[t] \notin {"lpush", "ltrim", "set", "delete", "delete_latest"}
  OBVIOUS
<1>3. ticks_pc' = q
  OBVIOUS
<1> HIDE DEF q
<1>4. BufferTypes'
  BY <1>1, <1>2, <1>3 DEF TicksIInv, BufferTypes
<1>5. Trimming(q) = Trimming(ticks_pc)
  BY <1>1, <1>2, TrimmingMoves
<1>6. SentOf(q, sending) = SentOf(ticks_pc, sending) /\ Different(q, sending)
  BY <1>1, <1>2, SentMoves DEF TicksIInv, BufferPlaces
<1>7. ListShort'
  BY <1>3, <1>5 DEF TicksIInv, ListShort
<1>8. BufferPlaces'
  BY <1>3, <1>6 DEF TicksIInv, BufferPlaces
<1>9. BufferViews'
  <2>1. \A u \in TickTasks : /\ q[u] \in Ticks!Busy <=> ticks_pc[u] \in Ticks!Busy
                             /\ q[u] \in Ticks!Busy => q[u] = ticks_pc[u]
    BY <1>1, <1>2 DEF Ticks!Busy
  <2>2. \A x \in {"lpush", "ltrim", "set", "delete", "delete_latest"} : x \in Ticks!Busy
    BY DEF Ticks!Busy
  <2>3. Views(ticks_pc, sending, list, latest) => Views(q, sending, list, latest)
    BY <2>1, <2>2 DEF Views
  <2> QED BY <1>3, <2>3 DEF TicksIInv, BufferViews
<1> QED BY <1>4, <1>7, <1>8, <1>9 DEF TicksIInv

\* The manager closes.
LEMMA CloseStep == ASSUME TransportConstants, TicksIInv, Ticks!Close PROVE TicksIInv'
<1>1. /\ ticks_connected' = FALSE
      /\ UNCHANGED <<manager, ticks_pc, sending, memory, list, latest, pushed, dropped, gone,
                     untrimmed, disturbed>>
  BY DEF Ticks!Close
<1> QED BY <1>1 DEF TicksIInv, BufferTypes, ListShort, BufferPlaces, BufferViews

\* A task gets the manager, or initializes it.
LEMMA ManagerStep ==
  ASSUME TransportConstants, TicksIInv, NEW t \in TickTasks,
         Ticks!GetManager(t) \/ \E answers \in BOOLEAN : Ticks!Initialized(t, answers)
  PROVE  TicksIInv'
<1>0. manager \in {"none", "made", "redis", "memory"} /\ ticks_connected \in BOOLEAN
  BY DEF TicksIInv, BufferTypes
<1>1. CASE Ticks!GetManager(t)
  <2>1. /\ ticks_pc[t] = "idle" /\ manager' \in {"none", "made", "redis", "memory"}
        /\ \/ ticks_pc' = [ticks_pc EXCEPT ![t] = "initialize"]
           \/ ticks_pc' = [ticks_pc EXCEPT ![t] = "ready"]
        /\ ticks_connected' = ticks_connected
        /\ UNCHANGED <<sending, memory, list, latest, pushed, dropped, gone, untrimmed, disturbed>>
    BY <1>0, <1>1 DEF Ticks!GetManager
  <2>2. CASE ticks_pc' = [ticks_pc EXCEPT ![t] = "initialize"]
    BY <1>0, <2>1, <2>2, QuietBuffer
  <2>3. CASE ticks_pc' = [ticks_pc EXCEPT ![t] = "ready"]
    BY <1>0, <2>1, <2>3, QuietBuffer
  <2> QED BY <2>1, <2>2, <2>3
<1>2. ASSUME NEW answers \in BOOLEAN, Ticks!Initialized(t, answers) PROVE TicksIInv'
  <2>1. /\ ticks_pc[t] = "initialize" /\ manager' \in {"none", "made", "redis", "memory"}
        /\ ticks_pc' = [ticks_pc EXCEPT ![t] = "ready"] /\ ticks_connected' \in BOOLEAN
        /\ UNCHANGED <<sending, memory, list, latest, pushed, dropped, gone, untrimmed, disturbed>>
    BY <1>2 DEF Ticks!Initialized
  <2> QED BY <2>1, QuietBuffer
<1> QED BY <1>1, <1>2

\* push_tick() of the buffer in memory, or of none, or of a closed one
LEMMA PushHere ==
  ASSUME TransportConstants, TicksIInv, NEW time \in Times, NEW price \in TickPrices,
         pushed < MaxTicks, pushed' = pushed + 1,
         UNCHANGED <<manager, ticks_connected, ticks_pc, sending, list, latest, untrimmed, disturbed>>,
         \/ dropped' = dropped \cup {pushed + 1} /\ UNCHANGED <<memory, gone>>
         \/ gone' = gone \cup {pushed + 1} /\ UNCHANGED <<memory, dropped>>
         \/ /\ memory' = Append(IF Len(memory) = MaxSize THEN Tail(memory) ELSE memory,
                                [number |-> pushed + 1, time |-> time, price |-> price])
            /\ gone' = IF Len(memory) = MaxSize THEN gone \cup {memory[1].number} ELSE gone
            /\ UNCHANGED dropped
  PROVE  TicksIInv'
<1> DEFINE k == [number |-> pushed + 1, time |-> time, price |-> price]
           a == Ticks!Numbers(memory)
           b == Ticks!Numbers(list)
           c == SentOf(ticks_pc, sending)
<1>0. /\ MaxTicks \in Nat /\ pushed \in 0..MaxTicks /\ MaxSize \in Nat \ {0} /\ pushed \in Nat
      /\ memory \in Seq(Ticks!Ticks) /\ Len(memory) <= MaxSize /\ Len(memory) \in Nat
  BY BufferNumbers DEF TicksIInv, BufferTypes
<1>1. k \in Ticks!Ticks /\ k.number = pushed + 1
  <2>1. pushed + 1 \in 1..MaxTicks
    BY <1>0
  <2> QED BY <2>1 DEF Ticks!Ticks
<1>2. Parted(a, b, c, gone, dropped, pushed) /\ TicksRise(memory) /\ Different(ticks_pc, sending)
  BY DEF TicksIInv, BufferPlaces
<1>3. \A i \in 1..Len(memory) : memory[i].number < pushed + 1
  <2> SUFFICES ASSUME NEW i \in 1..Len(memory) PROVE memory[i].number < pushed + 1
    OBVIOUS
  <2>1. memory[i].number \in a
    BY <1>0, TickNumbersOf
  <2>2. memory[i].number \in 1..pushed
    BY <1>2, <2>1 DEF Parted
  <2> QED BY <1>0, <2>2
<1>4. 1..pushed + 1 = 1..pushed \cup {pushed + 1} /\ pushed + 1 \notin 1..pushed
  BY <1>0
<1>5. pushed + 1 \in 0..MaxTicks
  BY <1>0
<1> HIDE DEF k
<1>6. ListShort' /\ BufferViews'
  BY DEF TicksIInv, ListShort, BufferViews
<1>7. CASE dropped' = dropped \cup {pushed + 1} /\ UNCHANGED <<memory, gone>>
  <2>1. BufferTypes'
    BY <1>0, <1>5, <1>7 DEF TicksIInv, BufferTypes
  <2>2. Parted(a, b, c, gone, dropped \cup {pushed + 1}, pushed + 1)
    <3> HIDE DEF a, b, c
    <3> QED BY <1>2, <1>4 DEF Parted
  <2>3. BufferPlaces'
    BY <1>2, <1>7, <2>2 DEF BufferPlaces
  <2> QED BY <1>6, <2>1, <2>3 DEF TicksIInv
<1>8. CASE gone' = gone \cup {pushed + 1} /\ UNCHANGED <<memory, dropped>>
  <2>1. BufferTypes'
    BY <1>0, <1>5, <1>8 DEF TicksIInv, BufferTypes
  <2>2. Parted(a, b, c, gone \cup {pushed + 1}, dropped, pushed + 1)
    <3> HIDE DEF a, b, c
    <3> QED BY <1>2, <1>4 DEF Parted
  <2>3. BufferPlaces'
    BY <1>2, <1>8, <2>2 DEF BufferPlaces
  <2> QED BY <1>6, <2>1, <2>3 DEF TicksIInv
<1>9. CASE Len(memory) # MaxSize /\ memory' = Append(memory, k) /\ gone' = gone /\ UNCHANGED dropped
  <2>1. /\ Append(memory, k) \in Seq(Ticks!Ticks) /\ TicksRise(Append(memory, k))
        /\ Len(Append(memory, k)) = Len(memory) + 1
        /\ Ticks!Numbers(Append(memory, k)) = a \cup {pushed + 1}
    BY <1>0, <1>1, <1>2, <1>3, TickPut
  <2>2. Len(memory) + 1 <= MaxSize
    BY <1>0, <1>9
  <2>3. BufferTypes'
    BY <1>0, <1>5, <1>9, <2>1, <2>2 DEF TicksIInv, BufferTypes
  <2>4. Parted(a \cup {pushed + 1}, b, c, gone, dropped, pushed + 1)
    <3> HIDE DEF a, b, c
    <3> QED BY <1>2, <1>4 DEF Parted
  <2>5. BufferPlaces'
    BY <1>2, <1>9, <2>1, <2>4 DEF BufferPlaces
  <2> QED BY <1>6, <2>3, <2>5 DEF TicksIInv
<1>10. CASE /\ Len(memory) = MaxSize /\ memory' = Append(Tail(memory), k)
            /\ gone' = gone \cup {memory[1].number} /\ UNCHANGED dropped
  <2> DEFINE rest == Tail(memory)
             x == memory[1].number
  <2>0. memory # << >>
    BY <1>0, <1>10
  <2>1. /\ rest \in Seq(Ticks!Ticks) /\ TicksRise(rest) /\ Len(rest) = Len(memory) - 1
        /\ a = Ticks!Numbers(rest) \cup {x} /\ x \notin Ticks!Numbers(rest)
    BY <1>0, <1>2, <2>0, TickOut
  <2> HIDE DEF rest, x
  <2>2. \A i \in 1..Len(rest) : rest[i].number < pushed + 1
    <3> SUFFICES ASSUME NEW i \in 1..Len(rest) PROVE rest[i].number < pushed + 1
      OBVIOUS
    <3>1. rest[i].number \in Ticks!Numbers(rest)
      BY <2>1, TickNumbersOf
    <3>2. rest[i].number \in 1..pushed
      BY <1>2, <2>1, <3>1 DEF Parted
    <3> QED BY <1>0, <3>2
  <2>3. /\ Append(rest, k) \in Seq(Ticks!Ticks) /\ TicksRise(Append(rest, k))
        /\ Len(Append(rest, k)) = Len(rest) + 1
        /\ Ticks!Numbers(Append(rest, k)) = Ticks!Numbers(rest) \cup {pushed + 1}
    BY <1>1, <2>1, <2>2, TickPut
  <2>4. memory' = Append(rest, k) /\ gone' = gone \cup {x} /\ dropped' = dropped
    BY <1>10 DEF rest, x
  <2>5. BufferTypes'
    BY <1>0, <1>5, <1>10, <2>1, <2>3, <2>4 DEF TicksIInv, BufferTypes
  <2>6. Parted(Ticks!Numbers(rest) \cup {pushed + 1}, b, c, gone \cup {x}, dropped, pushed + 1)
    <3> HIDE DEF b, c
    <3>1. Parted(Ticks!Numbers(rest) \cup {x}, b, c, gone, dropped, pushed)
      BY <1>2, <2>1
    <3>2. Parted(Ticks!Numbers(rest), b, c, gone \cup {x}, dropped, pushed)
      BY <2>1, <3>1 DEF Parted
    <3> QED BY <1>4, <3>2 DEF Parted
  <2>7. BufferPlaces'
    BY <1>2, <2>3, <2>4, <2>6 DEF BufferPlaces
  <2> QED BY <1>6, <2>5, <2>7 DEF TicksIInv
<1>11. \/ dropped' = dropped \cup {pushed + 1} /\ UNCHANGED <<memory, gone>>
       \/ gone' = gone \cup {pushed + 1} /\ UNCHANGED <<memory, dropped>>
       \/ Len(memory) # MaxSize /\ memory' = Append(memory, k) /\ gone' = gone /\ UNCHANGED dropped
       \/ /\ Len(memory) = MaxSize /\ memory' = Append(Tail(memory), k)
          /\ gone' = gone \cup {memory[1].number} /\ UNCHANGED dropped
  BY DEF k
<1> QED BY <1>7, <1>8, <1>9, <1>10, <1>11

\* What the steps of the commands share: one task goes on.
LEMMA TaskGoes ==
  ASSUME TransportConstants, TicksIInv, NEW t \in TickTasks, NEW v \in TaskStates
  PROVE  LET q == [ticks_pc EXCEPT ![t] = v] IN
         /\ q \in [TickTasks -> TaskStates] /\ q[t] = v
         /\ \A u \in TickTasks \ {t} : q[u] = ticks_pc[u]
         /\ Cardinality(Trimming(ticks_pc)) \in Nat /\ Cardinality(Trimming(q)) \in Nat
<1> DEFINE q == [ticks_pc EXCEPT ![t] = v]
<1>1. ticks_pc \in [TickTasks -> TaskStates]
  BY DEF TicksIInv, BufferTypes
<1>2. /\ q \in [TickTasks -> TaskStates] /\ q[t] = v
      /\ \A u \in TickTasks \ {t} : q[u] = ticks_pc[u]
  BY <1>1
<1> HIDE DEF q
<1>3. Cardinality(Trimming(ticks_pc)) \in Nat /\ Cardinality(Trimming(q)) \in Nat
  BY <1>2, TrimmingMoves
<1> QED BY <1>2, <1>3 DEF q

\* A busy task is alone while nothing is disturbed.
LEMMA AloneBusy ==
  ASSUME NEW p, NEW q, NEW s, NEW l, NEW x, NEW t \in TickTasks, Views(p, s, l, x),
         p[t] \in Ticks!Busy, \A u \in TickTasks \ {t} : q[u] = p[u]
  PROVE  /\ \A u \in TickTasks \ {t} : p[u] \notin Ticks!Busy /\ q[u] \notin Ticks!Busy
         /\ \A u, w \in TickTasks : q[u] \in Ticks!Busy /\ q[w] \in Ticks!Busy => u = w
<1>1. \A u \in TickTasks \ {t} : p[u] \notin Ticks!Busy
  BY DEF Views
<1> QED BY <1>1

\* The names of the commands
LEMMA BusyStates ==
  /\ {"lpush", "ltrim", "set", "delete", "delete_latest"} \subseteq Ticks!Busy
  /\ \A v \in Ticks!Busy : v \in {"lpush", "ltrim", "set", "delete", "delete_latest"}
  /\ {"idle", "initialize", "ready"} \cap Ticks!Busy = {}
BY DEF Ticks!Busy

\* push_tick() of a Redis buffer begins: the tick has its number, and the views agree unless
\* somebody else is under way.
LEMMA PushThere ==
  ASSUME TransportConstants, TicksIInv, NEW t \in TickTasks, NEW time \in Times,
         NEW price \in TickPrices, ticks_pc[t] = "ready", pushed < MaxTicks, pushed' = pushed + 1,
         ticks_pc' = [ticks_pc EXCEPT ![t] = "lpush"],
         sending' = [sending EXCEPT ![t] = [number |-> pushed + 1, time |-> time, price |-> price]],
         disturbed' = (disturbed \/ Ticks!Others(t)),
         UNCHANGED <<manager, ticks_connected, memory, list, latest, dropped, gone, untrimmed>>
  PROVE  TicksIInv'
<1> DEFINE k == [number |-> pushed + 1, time |-> time, price |-> price]
           q == [ticks_pc EXCEPT ![t] = "lpush"]
           r == [sending EXCEPT ![t] = k]
           a == Ticks!Numbers(memory)
           b == Ticks!Numbers(list)
           c == SentOf(ticks_pc, sending)
<1>0. /\ MaxTicks \in Nat /\ pushed \in 0..MaxTicks /\ pushed \in Nat
      /\ sending \in [TickTasks -> Ticks!Ticks \cup {Ticks!NoTick}]
      /\ list \in Seq(Ticks!Ticks) /\ disturbed \in BOOLEAN
  BY BufferNumbers DEF TicksIInv, BufferTypes
<1>1. k \in Ticks!Ticks /\ k.number = pushed + 1
  <2>1. pushed + 1 \in 1..MaxTicks
    BY <1>0
  <2> QED BY <2>1 DEF Ticks!Ticks
<1>2. Parted(a, b, c, gone, dropped, pushed) /\ TicksRise(memory) /\ Different(ticks_pc, sending)
  BY DEF TicksIInv, BufferPlaces
<1>3. /\ q \in [TickTasks -> TaskStates] /\ q[t] = "lpush"
      /\ \A u \in TickTasks \ {t} : q[u] = ticks_pc[u]
  <2>1. "lpush" \in TaskStates
    BY DEF TaskStates
  <2> QED BY <2>1, TaskGoes
<1> HIDE DEF k
<1>4. /\ r \in [TickTasks -> Ticks!Ticks \cup {Ticks!NoTick}] /\ r[t] = k
      /\ \A u \in TickTasks \ {t} : r[u] = sending[u]
  BY <1>0, <1>1
<1>5. 1..pushed + 1 = 1..pushed \cup {pushed + 1} /\ pushed + 1 \notin 1..pushed
  BY <1>0
<1>6. ticks_pc' = q /\ sending' = r
  BY DEF k
<1> HIDE DEF q, r
<1>7. BufferTypes'
  <2>1. \A u \in TickTasks : q[u] \in {"lpush", "ltrim", "set"} => r[u] \in Ticks!Ticks
    BY <1>1, <1>3, <1>4 DEF TicksIInv, BufferTypes
  <2>2. pushed + 1 \in 0..MaxTicks /\ disturbed' \in BOOLEAN
    BY <1>0
  <2> QED BY <1>3, <1>4, <1>6, <2>1, <2>2 DEF TicksIInv, BufferTypes
<1>8. ListShort'
  <2>1. Trimming(q) = Trimming(ticks_pc)
    BY <1>3, TrimmingMoves
  <2> QED BY <1>6, <2>1 DEF TicksIInv, ListShort
<1>9. BufferPlaces'
  <2>1. pushed + 1 \notin c
    BY <1>2, <1>5 DEF Parted
  <2>0. /\ ticks_pc[t] # "lpush" /\ q[t] = "lpush" /\ r[t].number = pushed + 1
        /\ \A u \in TickTasks \ {t} : q[u] = ticks_pc[u] /\ r[u] = sending[u]
    BY <1>1, <1>3, <1>4
  <2> HIDE DEF a, b
  <2>2. SentOf(q, r) = c \cup {pushed + 1} /\ Different(q, r)
    <3>1. r[t].number \notin SentOf(ticks_pc, sending)
      BY <2>0, <2>1
    <3>2. SentOf(q, r) = SentOf(ticks_pc, sending) \cup {r[t].number} /\ Different(q, r)
      BY <1>2, <2>0, <3>1, SentMoves, Zenon
    <3> QED BY <2>0, <3>2
  <2> USE DEF a, b
  <2>3. Parted(a, b, c \cup {pushed + 1}, gone, dropped, pushed + 1)
    <3> HIDE DEF a, b, c
    <3> QED BY <1>2, <1>5 DEF Parted
  <2> QED BY <1>2, <1>6, <2>2, <2>3 DEF BufferPlaces
<1>10. BufferViews'
  <2> SUFFICES ASSUME ~disturbed' PROVE Views(q, r, list, latest)
    BY <1>6 DEF BufferViews
  <2>1. ~disturbed /\ ~Ticks!Others(t)
    BY <1>0
  <2>2. Views(ticks_pc, sending, list, latest)
    BY <2>1 DEF TicksIInv, BufferViews
  <2>3. \A u \in TickTasks \ {t} : ticks_pc[u] \notin Ticks!Busy /\ q[u] \notin Ticks!Busy
    BY <1>3, <2>1 DEF Ticks!Others
  <2>4. \A u \in TickTasks : q[u] \in Ticks!Busy => u = t
    BY <2>3
  <2>5. \A u \in TickTasks : q[u] \in {"lpush", "ltrim", "set", "delete", "delete_latest"} => u = t
    BY <2>4, BusyStates
  <2>6. \A i \in 1..Len(list) : list[i].number < k.number
    <3> SUFFICES ASSUME NEW i \in 1..Len(list) PROVE list[i].number < pushed + 1
      BY <1>1
    <3>1. list[i].number \in b
      BY <1>0, TickNumbersOf
    <3>2. list[i].number \in 1..pushed
      BY <1>2, <3>1 DEF Parted
    <3> QED BY <1>0, <3>2
  <2>7. q[t] \in Ticks!Busy
    BY <1>3, BusyStates
  <2>8. TicksFall(list)
    BY <2>2 DEF Views
  <2>9. \A u \in TickTasks : q[u] = "lpush" => \A i \in 1..Len(list) : list[i].number < r[u].number
    BY <1>4, <2>5, <2>6
  <2>10. /\ \A u \in TickTasks : q[u] \in {"ltrim", "set"} => list # << >> /\ list[1] = r[u]
         /\ \A u \in TickTasks : q[u] = "delete_latest" => list = << >>
    BY <1>3, <2>5
  <2> QED BY <2>4, <2>7, <2>8, <2>9, <2>10, Zenon DEF Views
<1> QED BY <1>7, <1>8, <1>9, <1>10 DEF TicksIInv

\* push_tick() of the manager
LEMMA PushStep ==
  ASSUME TransportConstants, TicksIInv, NEW t \in TickTasks, NEW time \in Times,
         NEW price \in TickPrices, Ticks!Push(t, time, price)
  PROVE  TicksIInv'
<1>1. /\ pushed < MaxTicks /\ pushed' = pushed + 1 /\ ticks_pc[t] = "ready"
      /\ UNCHANGED <<manager, ticks_connected, list, latest, untrimmed>>
  BY DEF Ticks!Push
<1>2. \/ /\ UNCHANGED <<ticks_pc, sending, disturbed>>
         /\ \/ dropped' = dropped \cup {pushed + 1} /\ UNCHANGED <<memory, gone>>
            \/ gone' = gone \cup {pushed + 1} /\ UNCHANGED <<memory, dropped>>
            \/ /\ memory' = Append(IF Len(memory) = MaxSize THEN Tail(memory) ELSE memory,
                                   [number |-> pushed + 1, time |-> time, price |-> price])
               /\ gone' = IF Len(memory) = MaxSize THEN gone \cup {memory[1].number} ELSE gone
               /\ UNCHANGED dropped
      \/ /\ ticks_pc' = [ticks_pc EXCEPT ![t] = "lpush"]
         /\ sending' = [sending EXCEPT ![t] = [number |-> pushed + 1, time |-> time, price |-> price]]
         /\ disturbed' = (disturbed \/ Ticks!Others(t))
         /\ UNCHANGED <<memory, dropped, gone>>
  BY Zenon DEF Ticks!Push
<1>3. CASE /\ UNCHANGED <<ticks_pc, sending, disturbed>>
           /\ \/ dropped' = dropped \cup {pushed + 1} /\ UNCHANGED <<memory, gone>>
              \/ gone' = gone \cup {pushed + 1} /\ UNCHANGED <<memory, dropped>>
              \/ /\ memory' = Append(IF Len(memory) = MaxSize THEN Tail(memory) ELSE memory,
                                     [number |-> pushed + 1, time |-> time, price |-> price])
                 /\ gone' = IF Len(memory) = MaxSize THEN gone \cup {memory[1].number} ELSE gone
                 /\ UNCHANGED dropped
  BY <1>1, <1>3, PushHere, Zenon
<1>4. CASE /\ ticks_pc' = [ticks_pc EXCEPT ![t] = "lpush"]
           /\ sending' = [sending EXCEPT ![t] = [number |-> pushed + 1, time |-> time,
                                                 price |-> price]]
           /\ disturbed' = (disturbed \/ Ticks!Others(t))
           /\ UNCHANGED <<memory, dropped, gone>>
  BY <1>1, <1>4, PushThere, Zenon
<1> QED BY <1>2, <1>3, <1>4

\* clear() of the buffer in memory; of a Redis buffer its first command is next.
LEMMA ClearStep ==
  ASSUME TransportConstants, TicksIInv, NEW t \in TickTasks, Ticks!Clear(t)
  PROVE  TicksIInv'
<1>1. /\ ticks_pc[t] = "ready"
      /\ UNCHANGED <<manager, ticks_connected, sending, list, latest, pushed, dropped, untrimmed>>
  BY DEF Ticks!Clear
<1>2. Parted(Ticks!Numbers(memory), Ticks!Numbers(list), SentOf(ticks_pc, sending), gone, dropped,
             pushed)
      /\ TicksRise(memory) /\ Different(ticks_pc, sending)
  BY DEF TicksIInv, BufferPlaces
<1>3. CASE /\ memory' = << >> /\ gone' = gone \cup Ticks!Numbers(memory)
           /\ ticks_pc' = ticks_pc /\ disturbed' = disturbed
  <2>1. BufferTypes'
    <3>1. << >> \in Seq(Ticks!Ticks) /\ Len(<< >>) <= MaxSize
      BY BufferNumbers
    <3> QED BY <1>1, <1>3, <3>1 DEF TicksIInv, BufferTypes
  <2>2. ListShort' /\ BufferViews'
    BY <1>1, <1>3 DEF TicksIInv, ListShort, BufferViews
  <2>3. Parted({}, Ticks!Numbers(list), SentOf(ticks_pc, sending), gone \cup Ticks!Numbers(memory),
               dropped, pushed)
    BY <1>2 DEF Parted
  <2>4. TicksRise(<< >>)
    BY DEF TicksRise
  <2>5. BufferPlaces'
    BY <1>1, <1>2, <1>3, <2>3, <2>4, NoTickNumbers DEF BufferPlaces
  <2> QED BY <2>1, <2>2, <2>5 DEF TicksIInv
<1>4. CASE /\ ticks_pc' = [ticks_pc EXCEPT ![t] = "delete"]
           /\ disturbed' = (disturbed \/ Ticks!Others(t)) /\ memory' = memory /\ gone' = gone
  <2> DEFINE q == [ticks_pc EXCEPT ![t] = "delete"]
  <2>0. disturbed \in BOOLEAN
    BY DEF TicksIInv, BufferTypes
  <2>1. /\ q \in [TickTasks -> TaskStates] /\ q[t] = "delete"
        /\ \A u \in TickTasks \ {t} : q[u] = ticks_pc[u]
    <3>1. "delete" \in TaskStates
      BY DEF TaskStates
    <3> QED BY <3>1, TaskGoes
  <2>2. ticks_pc' = q
    BY <1>4
  <2> HIDE DEF q
  <2>3. BufferTypes'
    <3>1. \A u \in TickTasks : q[u] \in {"lpush", "ltrim", "set"} => sending[u] \in Ticks!Ticks
      BY <2>1 DEF TicksIInv, BufferTypes
    <3> QED BY <1>1, <1>4, <2>0, <2>1, <2>2, <3>1 DEF TicksIInv, BufferTypes
  <2>4. ListShort'
    <3>1. Trimming(q) = Trimming(ticks_pc)
      BY <1>1, <2>1, TrimmingMoves
    <3> QED BY <1>1, <2>2, <3>1 DEF TicksIInv, ListShort
  <2>5. BufferPlaces'
    <3>1. SentOf(q, sending) = SentOf(ticks_pc, sending) /\ Different(q, sending)
      BY <1>1, <1>2, <2>1, SentMoves
    <3> QED BY <1>1, <1>2, <1>4, <2>2, <3>1 DEF BufferPlaces
  <2>6. BufferViews'
    <3> SUFFICES ASSUME ~disturbed' PROVE Views(q, sending, list, latest)
      BY <1>1, <2>2 DEF BufferViews
    <3>1. ~disturbed /\ ~Ticks!Others(t)
      BY <1>4, <2>0
    <3>2. Views(ticks_pc, sending, list, latest)
      BY <3>1 DEF TicksIInv, BufferViews
    <3>3. \A u \in TickTasks : q[u] \in Ticks!Busy => u = t
      BY <2>1, <3>1 DEF Ticks!Others
    <3>4. \A u \in TickTasks : q[u] \notin {"lpush", "ltrim", "set", "delete_latest"}
      BY <2>1, <3>3, BusyStates
    <3>5. q[t] \in Ticks!Busy
      BY <2>1, BusyStates
    <3>6. TicksFall(list)
      BY <3>2 DEF Views
    <3> QED BY <3>3, <3>4, <3>5, <3>6 DEF Views
  <2> QED BY <2>3, <2>4, <2>5, <2>6 DEF TicksIInv
<1> QED BY <1>3, <1>4 DEF Ticks!Clear

\* LPUSH: the tick is the head of the list.
LEMMA LPushStep ==
  ASSUME TransportConstants, TicksIInv, NEW t \in TickTasks, Ticks!LPush(t)
  PROVE  TicksIInv'
<1> DEFINE q == [ticks_pc EXCEPT ![t] = "ltrim"]
           k == sending[t]
           l == <<k>> \o list
           a == Ticks!Numbers(memory)
           b == Ticks!Numbers(list)
           c == SentOf(ticks_pc, sending)
<1>1. /\ ticks_pc[t] = "lpush" /\ ticks_pc' = q /\ list' = l
      /\ UNCHANGED <<manager, ticks_connected, sending, memory, latest, pushed, dropped, gone,
                     untrimmed, disturbed>>
  BY DEF Ticks!LPush
<1>2. /\ q \in [TickTasks -> TaskStates] /\ q[t] = "ltrim"
      /\ \A u \in TickTasks \ {t} : q[u] = ticks_pc[u]
  <2>1. "ltrim" \in TaskStates
    BY DEF TaskStates
  <2> QED BY <2>1, TaskGoes
<1>3. k \in Ticks!Ticks /\ list \in Seq(Ticks!Ticks) /\ Len(list) \in Nat
  BY <1>1 DEF TicksIInv, BufferTypes
<1>4. /\ l \in Seq(Ticks!Ticks) /\ Len(l) = Len(list) + 1 /\ l # << >> /\ l[1] = k
      /\ \A j \in 1..Len(list) + 1 : l[j] = IF j <= 1 THEN k ELSE list[j - 1]
  BY <1>3
<1> HIDE DEF q, l
<1>5. \A j \in 1..Len(l) : (j = 1 /\ l[j] = k) \/ (j - 1 \in 1..Len(list) /\ l[j] = list[j - 1])
  BY <1>3, <1>4
<1>6. Parted(a, b, c, gone, dropped, pushed) /\ TicksRise(memory) /\ Different(ticks_pc, sending)
  BY DEF TicksIInv, BufferPlaces
<1>7. BufferTypes'
  <2>1. \A u \in TickTasks : q[u] \in {"lpush", "ltrim", "set"} => sending[u] \in Ticks!Ticks
    BY <1>2, <1>3 DEF TicksIInv, BufferTypes
  <2> QED BY <1>1, <1>2, <1>4, <2>1 DEF TicksIInv, BufferTypes
<1>8. ListShort'
  <2>1. /\ Cardinality(Trimming(q)) = Cardinality(Trimming(ticks_pc)) + 1
        /\ Cardinality(Trimming(ticks_pc)) \in Nat
    BY <1>1, <1>2, TrimmingMoves
  <2>2. Len(list) <= MaxSize + Cardinality(Trimming(ticks_pc)) + untrimmed /\ untrimmed \in Nat
    BY DEF TicksIInv, ListShort, BufferTypes
  <2>3. MaxSize \in Nat
    BY BufferNumbers
  <2>4. Len(l) <= MaxSize + Cardinality(Trimming(q)) + untrimmed
    BY <1>3, <1>4, <2>1, <2>2, <2>3
  <2> QED BY <1>1, <2>4 DEF ListShort
<1>9. BufferPlaces'
  <2>1. SentOf(q, sending) = c \ {k.number} /\ Different(q, sending) /\ k.number \in c
    BY <1>1, <1>2, <1>6, SentMoves
  <2>2. Ticks!Numbers(l) = b \cup {k.number}
    <3>1. /\ Ticks!Numbers(l) = {l[i].number : i \in 1..Len(l)}
          /\ b = {list[i].number : i \in 1..Len(list)}
      BY <1>3, <1>4, TickNumbersOf
    <3>2. Ticks!Numbers(l) \subseteq b \cup {k.number}
      BY <1>5, <3>1
    <3>3. k.number \in Ticks!Numbers(l)
      <4>1. 1 \in 1..Len(l)
        BY <1>3, <1>4
      <4> QED BY <1>4, <3>1, <4>1
    <3>4. b \subseteq Ticks!Numbers(l)
      <4> SUFFICES ASSUME NEW i \in 1..Len(list) PROVE list[i].number \in Ticks!Numbers(l)
        BY <3>1
      <4>1. i + 1 \in 1..Len(l) /\ i + 1 \in 1..Len(list) + 1 /\ ~(i + 1 <= 1) /\ (i + 1) - 1 = i
        BY <1>3, <1>4
      <4>2. l[i + 1] = list[i]
        BY <1>4, <4>1
      <4> QED BY <3>1, <4>1, <4>2
    <3> QED BY <3>2, <3>3, <3>4
  <2>3. Parted(a, b \cup {k.number}, c \ {k.number}, gone, dropped, pushed)
    <3> HIDE DEF a, b, c, k
    <3> QED BY <1>6, <2>1 DEF Parted
  <2> QED BY <1>1, <1>6, <2>1, <2>2, <2>3 DEF BufferPlaces
<1>10. BufferViews'
  <2> SUFFICES ASSUME ~disturbed PROVE Views(q, sending, l, latest)
    BY <1>1 DEF BufferViews
  <2>1. Views(ticks_pc, sending, list, latest)
    BY DEF TicksIInv, BufferViews
  <2>2. /\ \A u \in TickTasks \ {t} : q[u] \notin Ticks!Busy
        /\ \A u, w \in TickTasks : q[u] \in Ticks!Busy /\ q[w] \in Ticks!Busy => u = w
    BY <1>1, <1>2, <2>1, AloneBusy, BusyStates
  <2>3. q[t] \in Ticks!Busy
    BY <1>2, BusyStates
  <2>4. \A u \in TickTasks : q[u] \notin {"lpush", "delete_latest"}
    BY <1>2, <2>2, BusyStates
  <2>5. \A u \in TickTasks : q[u] \in {"ltrim", "set"} => u = t
    BY <1>2, <2>2, BusyStates
  <2>6. \A i \in 1..Len(list) : list[i].number < k.number
    BY <1>1, <2>1 DEF Views
  <2>7. TicksFall(list)
    BY <2>1 DEF Views
  <2>8. TicksFall(l)
    <3> SUFFICES ASSUME NEW i \in 1..Len(l), NEW j \in 1..Len(l), i < j
                 PROVE  l[i].number > l[j].number
      BY DEF TicksFall
    <3>1. j - 1 \in 1..Len(list) /\ l[j] = list[j - 1]
      BY <1>4, <1>5
    <3>2. list[j - 1] \in Ticks!Ticks
      BY <1>3, <3>1
    <3>3. CASE i = 1 /\ l[i] = k
      <4>1. list[j - 1].number < k.number
        BY <2>6, <3>1
      <4>2. list[j - 1].number \in Nat /\ k.number \in Nat
        BY <1>3, <3>2, TickIs
      <4> QED BY <3>1, <3>3, <4>1, <4>2
    <3>4. CASE i - 1 \in 1..Len(list) /\ l[i] = list[i - 1]
      <4>1. i - 1 < j - 1
        BY <1>4
      <4>2. list[i - 1].number > list[j - 1].number
        BY <2>7, <3>1, <3>4, <4>1 DEF TicksFall
      <4> QED BY <3>1, <3>4, <4>2
    <3> QED BY <1>5, <3>3, <3>4
  <2> QED BY <1>4, <2>2, <2>3, <2>4, <2>5, <2>8 DEF Views
<1> QED BY <1>7, <1>8, <1>9, <1>10 DEF TicksIInv

\* What LTRIM keeps
LEMMA KeptPart ==
  ASSUME TransportConstants, NEW l \in Seq(Ticks!Ticks)
  PROVE  LET r == Ticks!Kept(l) IN
         /\ r \in Seq(Ticks!Ticks) /\ Len(r) <= MaxSize /\ Len(r) \in Nat
         /\ \A i \in 1..Len(r) : i \in 1..Len(l) /\ r[i] = l[i]
         /\ l # << >> => r # << >> /\ r[1] = l[1]
         /\ Ticks!Numbers(r) \subseteq Ticks!Numbers(l)
<1> DEFINE r == Ticks!Kept(l)
<1>0. Len(l) \in Nat /\ MaxSize \in Nat \ {0}
  BY BufferNumbers
<1>1. CASE Len(l) > MaxSize
  <2>1. r = SubSeq(l, 1, MaxSize)
    BY <1>1 DEF Ticks!Kept
  <2>2. /\ r \in Seq(Ticks!Ticks) /\ Len(r) = MaxSize
        /\ \A i \in 1..MaxSize : i \in 1..Len(l) /\ r[i] = l[i]
    BY <1>0, <1>1, <2>1
  <2> HIDE DEF r
  <2>3. r # << >> /\ r[1] = l[1]
    <3>1. 1 \in 1..MaxSize /\ Len(r) # 0
      BY <1>0, <2>2
    <3> QED BY <2>2, <3>1
  <2>4. Ticks!Numbers(r) \subseteq Ticks!Numbers(l)
    BY <2>2, TickNumbersOf
  <2> QED BY <1>0, <2>2, <2>3, <2>4 DEF r
<1>2. CASE ~(Len(l) > MaxSize)
  <2>1. r = l
    BY <1>2 DEF Ticks!Kept
  <2> HIDE DEF r
  <2>2. Len(l) <= MaxSize
    BY <1>0, <1>2
  <2> QED BY <1>0, <2>1, <2>2 DEF r
<1> QED BY <1>1, <1>2

\* LTRIM: the list is within its limit, and its head stays.
LEMMA LTrimStep ==
  ASSUME TransportConstants, TicksIInv, NEW t \in TickTasks, Ticks!LTrim(t)
  PROVE  TicksIInv'
<1> DEFINE q == [ticks_pc EXCEPT ![t] = "set"]
           l == Ticks!Kept(list)
           a == Ticks!Numbers(memory)
           b == Ticks!Numbers(list)
           c == SentOf(ticks_pc, sending)
           kept == Ticks!Numbers(l)
<1>1. /\ ticks_pc[t] = "ltrim" /\ ticks_pc' = q /\ list' = l /\ untrimmed' = 0
      /\ gone' = gone \cup (b \ Ticks!Numbers(list'))
      /\ UNCHANGED <<manager, ticks_connected, sending, memory, latest, pushed, dropped, disturbed>>
  BY DEF Ticks!LTrim
<1>2. /\ q \in [TickTasks -> TaskStates] /\ q[t] = "set"
      /\ \A u \in TickTasks \ {t} : q[u] = ticks_pc[u]
      /\ Cardinality(Trimming(q)) \in Nat
  <2>1. "set" \in TaskStates
    BY DEF TaskStates
  <2> QED BY <2>1, TaskGoes
<1>3. list \in Seq(Ticks!Ticks)
  BY DEF TicksIInv, BufferTypes
<1>4. /\ l \in Seq(Ticks!Ticks) /\ Len(l) <= MaxSize /\ Len(l) \in Nat
      /\ \A i \in 1..Len(l) : i \in 1..Len(list) /\ l[i] = list[i]
      /\ list # << >> => l # << >> /\ l[1] = list[1]
      /\ kept \subseteq b
  BY <1>3, KeptPart
<1> HIDE DEF q, l, kept
<1>5. gone' = gone \cup (b \ kept)
  BY <1>1 DEF kept
<1>6. Parted(a, b, c, gone, dropped, pushed) /\ TicksRise(memory) /\ Different(ticks_pc, sending)
  BY DEF TicksIInv, BufferPlaces
<1>7. BufferTypes'
  <2>1. \A u \in TickTasks : q[u] \in {"lpush", "ltrim", "set"} => sending[u] \in Ticks!Ticks
    BY <1>1, <1>2 DEF TicksIInv, BufferTypes
  <2> QED BY <1>1, <1>2, <1>4, <2>1 DEF TicksIInv, BufferTypes
<1>8. ListShort'
  <2>1. MaxSize \in Nat
    BY BufferNumbers
  <2>2. Len(l) <= MaxSize + Cardinality(Trimming(q)) + 0
    BY <1>2, <1>4, <2>1
  <2> QED BY <1>1, <2>2 DEF ListShort
<1>9. BufferPlaces'
  <2>1. SentOf(q, sending) = c /\ Different(q, sending)
    BY <1>1, <1>2, <1>6, SentMoves
  <2>2. Parted(a, kept, c, gone \cup (b \ kept), dropped, pushed)
    <3> HIDE DEF a, b, c
    <3> QED BY <1>4, <1>6 DEF Parted
  <2> QED BY <1>1, <1>5, <1>6, <2>1, <2>2 DEF BufferPlaces, kept
<1>10. BufferViews'
  <2> SUFFICES ASSUME ~disturbed PROVE Views(q, sending, l, latest)
    BY <1>1 DEF BufferViews
  <2>1. Views(ticks_pc, sending, list, latest)
    BY DEF TicksIInv, BufferViews
  <2>2. /\ \A u \in TickTasks \ {t} : q[u] \notin Ticks!Busy
        /\ \A u, w \in TickTasks : q[u] \in Ticks!Busy /\ q[w] \in Ticks!Busy => u = w
    BY <1>1, <1>2, <2>1, AloneBusy, BusyStates
  <2>3. q[t] \in Ticks!Busy
    BY <1>2, BusyStates
  <2>4. \A u \in TickTasks : q[u] \notin {"lpush", "delete_latest"}
    BY <1>2, <2>2, BusyStates
  <2>5. \A u \in TickTasks : q[u] \in {"ltrim", "set"} => u = t
    BY <1>2, <2>2, BusyStates
  <2>6. list # << >> /\ list[1] = sending[t]
    BY <1>1, <2>1 DEF Views
  <2>7. TicksFall(l)
    BY <1>4, <2>1 DEF Views, TicksFall
  <2> QED BY <1>4, <2>2, <2>3, <2>4, <2>5, <2>6, <2>7 DEF Views
<1> QED BY <1>7, <1>8, <1>9, <1>10 DEF TicksIInv

\* SET of the :latest key ends a push.
LEMMA SetLatestStep ==
  ASSUME TransportConstants, TicksIInv, NEW t \in TickTasks, Ticks!SetLatest(t)
  PROVE  TicksIInv'
<1> DEFINE q == [ticks_pc EXCEPT ![t] = "ready"]
           r == [sending EXCEPT ![t] = Ticks!NoTick]
           k == sending[t]
<1>1. /\ ticks_pc[t] = "set" /\ ticks_pc' = q /\ latest' = k /\ sending' = r
      /\ UNCHANGED <<manager, ticks_connected, memory, list, pushed, dropped, gone, untrimmed,
                     disturbed>>
  BY DEF Ticks!SetLatest
<1>2. /\ q \in [TickTasks -> TaskStates] /\ q[t] = "ready"
      /\ \A u \in TickTasks \ {t} : q[u] = ticks_pc[u]
  <2>1. "ready" \in TaskStates
    BY DEF TaskStates
  <2> QED BY <2>1, TaskGoes
<1>3. k \in Ticks!Ticks /\ sending \in [TickTasks -> Ticks!Ticks \cup {Ticks!NoTick}]
  BY <1>1 DEF TicksIInv, BufferTypes
<1>4. /\ r \in [TickTasks -> Ticks!Ticks \cup {Ticks!NoTick}]
      /\ \A u \in TickTasks \ {t} : r[u] = sending[u]
  BY <1>3
<1> HIDE DEF q, r
<1>5. Different(ticks_pc, sending)
  BY DEF TicksIInv, BufferPlaces
<1>6. BufferTypes'
  <2>1. \A u \in TickTasks : q[u] \in {"lpush", "ltrim", "set"} => r[u] \in Ticks!Ticks
    BY <1>2, <1>4 DEF TicksIInv, BufferTypes
  <2> QED BY <1>1, <1>2, <1>3, <1>4, <2>1 DEF TicksIInv, BufferTypes
<1>7. ListShort'
  <2>1. Trimming(q) = Trimming(ticks_pc)
    BY <1>1, <1>2, TrimmingMoves
  <2> QED BY <1>1, <2>1 DEF TicksIInv, ListShort
<1>8. BufferPlaces'
  <2>1. SentOf(q, r) = SentOf(ticks_pc, sending) /\ Different(q, r)
    BY <1>1, <1>2, <1>4, <1>5, SentMoves
  <2> QED BY <1>1, <2>1 DEF TicksIInv, BufferPlaces
<1>9. BufferViews'
  <2> SUFFICES ASSUME ~disturbed PROVE Views(q, r, list, k)
    BY <1>1 DEF BufferViews
  <2>1. Views(ticks_pc, sending, list, latest)
    BY DEF TicksIInv, BufferViews
  <2>2. \A u \in TickTasks \ {t} : q[u] \notin Ticks!Busy
    BY <1>1, <1>2, <2>1, AloneBusy, BusyStates
  <2>3. \A u \in TickTasks : q[u] \notin Ticks!Busy
    BY <1>2, <2>2, BusyStates
  <2>4. \A u \in TickTasks : q[u] \notin {"lpush", "ltrim", "set", "delete_latest"}
    BY <2>3, BusyStates
  <2>5. list # << >> /\ list[1] = k
    BY <1>1, <2>1 DEF Views
  <2>6. TicksFall(list)
    BY <2>1 DEF Views
  <2> QED BY <2>3, <2>4, <2>5, <2>6 DEF Views
<1> QED BY <1>6, <1>7, <1>8, <1>9 DEF TicksIInv

\* DELETE of the list
LEMMA DeleteListStep ==
  ASSUME TransportConstants, TicksIInv, NEW t \in TickTasks, Ticks!DeleteList(t)
  PROVE  TicksIInv'
<1> DEFINE q == [ticks_pc EXCEPT ![t] = "delete_latest"]
           a == Ticks!Numbers(memory)
           b == Ticks!Numbers(list)
           c == SentOf(ticks_pc, sending)
<1>1. /\ ticks_pc[t] = "delete" /\ ticks_pc' = q /\ list' = << >> /\ gone' = gone \cup b
      /\ UNCHANGED <<manager, ticks_connected, sending, memory, latest, pushed, dropped, untrimmed,
                     disturbed>>
  BY DEF Ticks!DeleteList
<1>2. /\ q \in [TickTasks -> TaskStates] /\ q[t] = "delete_latest"
      /\ \A u \in TickTasks \ {t} : q[u] = ticks_pc[u]
      /\ Cardinality(Trimming(q)) \in Nat
  <2>1. "delete_latest" \in TaskStates
    BY DEF TaskStates
  <2> QED BY <2>1, TaskGoes
<1>3. Parted(a, b, c, gone, dropped, pushed) /\ TicksRise(memory) /\ Different(ticks_pc, sending)
  BY DEF TicksIInv, BufferPlaces
<1> HIDE DEF q
<1>4. << >> \in Seq(Ticks!Ticks) /\ Len(<< >>) = 0
  OBVIOUS
<1>5. BufferTypes'
  <2>1. \A u \in TickTasks : q[u] \in {"lpush", "ltrim", "set"} => sending[u] \in Ticks!Ticks
    BY <1>2 DEF TicksIInv, BufferTypes
  <2> QED BY <1>1, <1>2, <1>4, <2>1 DEF TicksIInv, BufferTypes
<1>6. ListShort'
  <2>1. MaxSize \in Nat /\ untrimmed \in Nat
    BY BufferNumbers DEF TicksIInv, BufferTypes
  <2>2. 0 <= MaxSize + Cardinality(Trimming(q)) + untrimmed
    BY <1>2, <2>1
  <2> QED BY <1>1, <1>4, <2>2 DEF ListShort
<1>7. BufferPlaces'
  <2>1. SentOf(q, sending) = c /\ Different(q, sending)
    BY <1>1, <1>2, <1>3, SentMoves
  <2>2. Parted(a, {}, c, gone \cup b, dropped, pushed)
    <3> HIDE DEF a, b, c
    <3> QED BY <1>3 DEF Parted
  <2> QED BY <1>1, <1>3, <2>1, <2>2, NoTickNumbers DEF BufferPlaces
<1>8. BufferViews'
  <2> SUFFICES ASSUME ~disturbed PROVE Views(q, sending, << >>, latest)
    BY <1>1 DEF BufferViews
  <2>1. Views(ticks_pc, sending, list, latest)
    BY DEF TicksIInv, BufferViews
  <2>0. ticks_pc[t] \in Ticks!Busy
    BY <1>1, BusyStates
  <2>2. /\ \A u \in TickTasks \ {t} : q[u] \notin Ticks!Busy
        /\ \A u, w \in TickTasks : q[u] \in Ticks!Busy /\ q[w] \in Ticks!Busy => u = w
    BY <1>2, <2>0, <2>1, AloneBusy
  <2>3. q[t] \in Ticks!Busy
    BY <1>2, BusyStates
  <2>4. \A u \in TickTasks : q[u] \notin {"lpush", "ltrim", "set"}
    BY <1>2, <2>2, BusyStates
  <2>5. TicksFall(<< >>)
    BY DEF TicksFall
  <2> QED BY <2>2, <2>3, <2>4, <2>5 DEF Views
<1> QED BY <1>5, <1>6, <1>7, <1>8 DEF TicksIInv

\* DELETE of the :latest key ends a clear().
LEMMA DeleteLatestStep ==
  ASSUME TransportConstants, TicksIInv, NEW t \in TickTasks, Ticks!DeleteLatest(t)
  PROVE  TicksIInv'
<1> DEFINE q == [ticks_pc EXCEPT ![t] = "ready"]
<1>1. /\ ticks_pc[t] = "delete_latest" /\ ticks_pc' = q /\ latest' = Ticks!NoTick
      /\ UNCHANGED <<manager, ticks_connected, sending, memory, list, pushed, dropped, gone,
                     untrimmed, disturbed>>
  BY DEF Ticks!DeleteLatest
<1>2. /\ q \in [TickTasks -> TaskStates] /\ q[t] = "ready"
      /\ \A u \in TickTasks \ {t} : q[u] = ticks_pc[u]
  <2>1. "ready" \in TaskStates
    BY DEF TaskStates
  <2> QED BY <2>1, TaskGoes
<1> HIDE DEF q
<1>3. Different(ticks_pc, sending)
  BY DEF TicksIInv, BufferPlaces
<1>4. BufferTypes'
  <2>1. \A u \in TickTasks : q[u] \in {"lpush", "ltrim", "set"} => sending[u] \in Ticks!Ticks
    BY <1>2 DEF TicksIInv, BufferTypes
  <2> QED BY <1>1, <1>2, <2>1 DEF TicksIInv, BufferTypes
<1>5. ListShort'
  <2>1. Trimming(q) = Trimming(ticks_pc)
    BY <1>1, <1>2, TrimmingMoves
  <2> QED BY <1>1, <2>1 DEF TicksIInv, ListShort
<1>6. BufferPlaces'
  <2>1. SentOf(q, sending) = SentOf(ticks_pc, sending) /\ Different(q, sending)
    BY <1>1, <1>2, <1>3, SentMoves
  <2> QED BY <1>1, <2>1 DEF TicksIInv, BufferPlaces
<1>7. BufferViews'
  <2> SUFFICES ASSUME ~disturbed PROVE Views(q, sending, list, Ticks!NoTick)
    BY <1>1 DEF BufferViews
  <2>1. Views(ticks_pc, sending, list, latest)
    BY DEF TicksIInv, BufferViews
  <2>2. \A u \in TickTasks \ {t} : q[u] \notin Ticks!Busy
    BY <1>1, <1>2, <2>1, AloneBusy, BusyStates
  <2>3. \A u \in TickTasks : q[u] \notin Ticks!Busy
    BY <1>2, <2>2, BusyStates
  <2>4. \A u \in TickTasks : q[u] \notin {"lpush", "ltrim", "set", "delete_latest"}
    BY <2>3, BusyStates
  <2>5. list = << >> /\ TicksFall(list)
    BY <1>1, <2>1 DEF Views
  <2> QED BY <2>3, <2>4, <2>5 DEF Views
<1> QED BY <1>4, <1>5, <1>6, <1>7 DEF TicksIInv

\* A command fails: the call ends, and what it did stays.
LEMMA FailureStep ==
  ASSUME TransportConstants, TicksIInv, NEW t \in TickTasks, Ticks!CommandFails(t)
  PROVE  TicksIInv'
<1> DEFINE q == [ticks_pc EXCEPT ![t] = "ready"]
           r == [sending EXCEPT ![t] = Ticks!NoTick]
           a == Ticks!Numbers(memory)
           b == Ticks!Numbers(list)
           c == SentOf(ticks_pc, sending)
<1>1. /\ ticks_pc[t] \in Ticks!Busy /\ ticks_pc' = q /\ sending' = r /\ disturbed' = TRUE
      /\ gone' = IF ticks_pc[t] = "lpush" THEN gone \cup {sending[t].number} ELSE gone
      /\ untrimmed' = IF ticks_pc[t] = "ltrim" THEN untrimmed + 1 ELSE untrimmed
      /\ UNCHANGED <<manager, ticks_connected, memory, list, latest, pushed, dropped>>
  BY DEF Ticks!CommandFails
<1>2. /\ q \in [TickTasks -> TaskStates] /\ q[t] = "ready"
      /\ \A u \in TickTasks \ {t} : q[u] = ticks_pc[u]
  <2>1. "ready" \in TaskStates
    BY DEF TaskStates
  <2> QED BY <2>1, TaskGoes
<1>3. sending \in [TickTasks -> Ticks!Ticks \cup {Ticks!NoTick}] /\ untrimmed \in Nat
  BY DEF TicksIInv, BufferTypes
<1>4. /\ r \in [TickTasks -> Ticks!Ticks \cup {Ticks!NoTick}]
      /\ \A u \in TickTasks \ {t} : r[u] = sending[u]
  BY <1>3
<1> HIDE DEF q, r
<1>5. Parted(a, b, c, gone, dropped, pushed) /\ TicksRise(memory) /\ Different(ticks_pc, sending)
  BY DEF TicksIInv, BufferPlaces
<1>6. BufferTypes'
  <2>1. \A u \in TickTasks : q[u] \in {"lpush", "ltrim", "set"} => r[u] \in Ticks!Ticks
    BY <1>2, <1>4 DEF TicksIInv, BufferTypes
  <2>2. untrimmed' \in Nat
    BY <1>1, <1>3
  <2> QED BY <1>1, <1>2, <1>4, <2>1, <2>2 DEF TicksIInv, BufferTypes
<1>7. ListShort'
  <2>1. Len(list) <= MaxSize + Cardinality(Trimming(ticks_pc)) + untrimmed
    BY DEF TicksIInv, ListShort
  <2>2. CASE ticks_pc[t] = "ltrim"
    <3>1. /\ Cardinality(Trimming(q)) = Cardinality(Trimming(ticks_pc)) - 1
          /\ Cardinality(Trimming(ticks_pc)) \in Nat
      BY <1>2, <2>2, TrimmingMoves
    <3>2. MaxSize \in Nat /\ untrimmed' = untrimmed + 1
      BY <1>1, <2>2, BufferNumbers
    <3>3. MaxSize + Cardinality(Trimming(q)) + (untrimmed + 1)
          = MaxSize + Cardinality(Trimming(ticks_pc)) + untrimmed
      BY <1>3, <3>1, <3>2
    <3> QED BY <1>1, <2>1, <3>2, <3>3 DEF ListShort
  <2>3. CASE ticks_pc[t] # "ltrim"
    <3>1. Trimming(q) = Trimming(ticks_pc)
      BY <1>2, <2>3, TrimmingMoves
    <3> QED BY <1>1, <2>1, <2>3, <3>1 DEF ListShort
  <2> QED BY <2>2, <2>3
<1>8. BufferPlaces'
  <2>1. CASE ticks_pc[t] = "lpush"
    <3>1. /\ SentOf(q, r) = c \ {sending[t].number} /\ Different(q, r) /\ sending[t].number \in c
      BY <1>2, <1>4, <1>5, <2>1, SentMoves
    <3>2. Parted(a, b, c \ {sending[t].number}, gone \cup {sending[t].number}, dropped, pushed)
      <4> HIDE DEF a, b, c
      <4> QED BY <1>5, <3>1 DEF Parted
    <3> QED BY <1>1, <1>5, <2>1, <3>1, <3>2 DEF BufferPlaces
  <2>2. CASE ticks_pc[t] # "lpush"
    <3>1. SentOf(q, r) = c /\ Different(q, r)
      BY <1>2, <1>4, <1>5, <2>2, SentMoves
    <3> QED BY <1>1, <1>5, <2>2, <3>1 DEF BufferPlaces
  <2> QED BY <2>1, <2>2
<1>9. BufferViews'
  BY <1>1 DEF BufferViews
<1> QED BY <1>6, <1>7, <1>8, <1>9 DEF TicksIInv

\* Every step of the buffer keeps it.
LEMMA BufferStep == ASSUME TransportConstants, TicksIInv, Ticks!Next PROVE TicksIInv'
<1>1. CASE Ticks!Close
  BY <1>1, CloseStep
<1>2. ASSUME NEW t \in TickTasks,
             \/ Ticks!GetManager(t) \/ Ticks!Clear(t) \/ Ticks!CommandFails(t)
             \/ Ticks!LPush(t) \/ Ticks!LTrim(t) \/ Ticks!SetLatest(t)
             \/ Ticks!DeleteList(t) \/ Ticks!DeleteLatest(t)
             \/ \E answers \in BOOLEAN : Ticks!Initialized(t, answers)
             \/ \E time \in Times, price \in TickPrices : Ticks!Push(t, time, price)
      PROVE  TicksIInv'
  BY <1>2, ManagerStep, PushStep, ClearStep, LPushStep, LTrimStep, SetLatestStep, DeleteListStep,
     DeleteLatestStep, FailureStep
<1> QED BY <1>1, <1>2 DEF Ticks!Next

\* While something else moves the buffer stays.
LEMMA BufferStutter == ASSUME TicksIInv, UNCHANGED ticks_vars PROVE TicksIInv'
BY DEF TicksIInv, BufferTypes, ListShort, BufferPlaces, BufferViews, ticks_vars

\* What the invariant says: the list is bounded, every tick is in one place, and the views agree.
LEMMA BufferProperties ==
  ASSUME TransportConstants, TicksIInv
  PROVE  Ticks!TypeOK /\ Ticks!ListBounded /\ Ticks!TicksAccounted /\ Ticks!ViewsAgree
<1>1. /\ memory \in Seq(Ticks!Ticks) /\ list \in Seq(Ticks!Ticks)
      /\ DOMAIN memory = 1..Len(memory) /\ DOMAIN list = 1..Len(list)
  BY DEF TicksIInv, BufferTypes
<1>2. Ticks!TypeOK
  <2>1. Ticks!Range(memory) \subseteq Ticks!Ticks /\ Ticks!Range(list) \subseteq Ticks!Ticks
    BY <1>1 DEF Ticks!Range
  <2>2. TaskStates = {"idle", "initialize", "ready"} \cup Ticks!Busy
    BY DEF TaskStates, Ticks!Busy
  <2> QED BY <2>1, <2>2 DEF TicksIInv, BufferTypes, Ticks!TypeOK
<1>3. Ticks!ListBounded
  <2>1. \A S : Ticks!Cardinality(S) = Cardinality(S)
    BY DEF Ticks!Cardinality, Cardinality
  <2>2. Ticks!Cardinality({t \in TickTasks : ticks_pc[t] = "ltrim"}) = Cardinality(Trimming(ticks_pc))
    BY <2>1, Zenon DEF Trimming
  <2> QED BY <2>2 DEF TicksIInv, ListShort, Ticks!ListBounded
<1>4. Ticks!TicksAccounted
  <2> DEFINE a == Ticks!Numbers(memory)
             b == Ticks!Numbers(list)
             c == SentOf(ticks_pc, sending)
             places == <<a, b, c, gone, dropped>>
  <2>1. Parted(a, b, c, gone, dropped, pushed)
    BY DEF TicksIInv, BufferPlaces
  <2>2. places = <<Ticks!Numbers(memory), Ticks!Numbers(list),
                   {sending[t].number : t \in {u \in TickTasks : ticks_pc[u] = "lpush"}}, gone,
                   dropped>>
    BY Zenon DEF SentOf
  <2> HIDE DEF a, b, c
  <2>3. /\ places[1] = a /\ places[2] = b /\ places[3] = c /\ places[4] = gone
        /\ places[5] = dropped /\ DOMAIN places = 1..5
    OBVIOUS
  <2>4. \A i \in 1..5 : i = 1 \/ i = 2 \/ i = 3 \/ i = 4 \/ i = 5
    OBVIOUS
  <2> HIDE DEF places
  <2>5. Ticks!Range(places) = {a, b, c, gone, dropped}
    BY <2>3, <2>4 DEF Ticks!Range
  <2>6. UNION Ticks!Range(places) = 1..pushed
    BY <2>1, <2>5 DEF Parted
  <2>7. \A i, j \in 1..5 : i # j => places[i] \cap places[j] = {}
    BY <2>1, <2>3, <2>4 DEF Parted
  <2> QED BY <2>2, <2>6, <2>7 DEF Ticks!TicksAccounted
<1>5. Ticks!ViewsAgree
  <2> SUFFICES ASSUME ~disturbed
               PROVE  /\ \A i, j \in DOMAIN list : i < j => list[i].number > list[j].number
                      /\ (\A t \in TickTasks : ticks_pc[t] \notin Ticks!Busy) =>
                           latest = IF list = << >> THEN Ticks!NoTick ELSE list[1]
    BY DEF Ticks!ViewsAgree
  <2>1. Views(ticks_pc, sending, list, latest)
    BY DEF TicksIInv, BufferViews
  <2> QED BY <1>1, <2>1 DEF Views, TicksFall
<1> QED BY <1>2, <1>3, <1>4, <1>5

-----------------------------------------------------------------------------
(* The tick buffer: candles                                                *)

\* The interval a time is in
Slot(x) == x \div TickInterval

Candle == [timestamp: Nat, open: Int, high: Int, low: Int, close: Int, volume: Nat]

\* The ticks a..b of m make the candle c.
CandleOf(c, m, a, b) ==
  /\ c.volume = b - a + 1 /\ c.open = m[a].price /\ c.close = m[b].price
  /\ c.high \in {m[j].price : j \in a..b} /\ \A j \in a..b : m[j].price <= c.high
  /\ c.low \in {m[j].price : j \in a..b} /\ \A j \in a..b : c.low <= m[j].price

\* Among the first k ticks of m, those of the interval of the candle c are the ticks a..b.
Covers(c, m, k, a, b) ==
  /\ a \in 1..k /\ b \in 1..k /\ a <= b /\ CandleOf(c, m, a, b)
  /\ \A j \in 1..k : Slot(m[j].time) = Slot(c.timestamp) <=> j \in a..b

\* The candles s are those of the first k ticks of m.
Drawn(s, m, k) ==
  /\ s \in Seq(Candle)
  /\ s = << >> <=> k = 0
  /\ k > 0 => Slot(s[Len(s)].timestamp) = Slot(m[k].time)
  /\ \A i, j \in 1..Len(s) : i < j => Slot(s[i].timestamp) < Slot(s[j].timestamp)
  /\ \A i \in 1..Len(s) : s[i].timestamp = Slot(s[i].timestamp) * TickInterval
  /\ \A i \in 1..Len(s) : \E a, b : Covers(s[i], m, k, a, b)
  /\ \A j \in 1..k : \E i \in 1..Len(s) : Slot(s[i].timestamp) = Slot(m[j].time)

TimesRise(m) == \A i, j \in 1..Len(m) : i < j => m[i].time <= m[j].time

\* Intervals: one per time, in the order of the times, starting within themselves.
LEMMA Slots ==
  ASSUME TransportConstants, NEW x \in Nat, NEW y \in Nat
  PROVE  /\ Slot(x) \in Nat /\ Slot(x) * TickInterval \in Nat
         /\ Slot(Slot(x) * TickInterval) = Slot(x)
         /\ x <= y => Slot(x) <= Slot(y)
<1> DEFINE d == TickInterval
           q == x \div d
           p == y \div d
           z == q * d
           w == z \div d
<1>1. d \in Nat \ {0}
  BY BufferNumbers
<1> HIDE DEF d
<1>2. /\ q \in Nat /\ x % d \in 0..d - 1 /\ x = (d * q) + (x % d)
      /\ p \in Nat /\ y % d \in 0..d - 1 /\ y = (d * p) + (y % d)
  BY <1>1, Divided
<1> HIDE DEF q, p
<1>3. z \in Nat /\ z = d * q
  BY <1>1, <1>2
<1> HIDE DEF z
<1>4. w \in Nat /\ z % d \in 0..d - 1 /\ z = (d * w) + (z % d)
  BY <1>1, <1>3, Divided
<1> HIDE DEF w
<1>5. ASSUME NEW u \in Nat, NEW v \in Nat, u < v PROVE d * u + d <= d * v
  <2>1. d * (u + 1) <= d * v
    BY <1>1, <1>5, ProductGrows
  <2>2. d * (u + 1) = d * u + d
    BY <1>1
  <2> QED BY <2>1, <2>2
<1>6. d * q \in Nat /\ d * w \in Nat /\ d * p \in Nat
  BY <1>1, <1>2, <1>4
<1>7. w = q
  <2>1. CASE w < q
    <3>1. d * w + d <= d * q
      BY <1>2, <1>4, <1>5, <2>1
    <3> QED BY <1>1, <1>3, <1>4, <1>6, <3>1
  <2>2. CASE q < w
    <3>1. d * q + d <= d * w
      BY <1>2, <1>4, <1>5, <2>2
    <3> QED BY <1>1, <1>3, <1>4, <1>6, <3>1
  <2> QED BY <1>2, <1>4, <2>1, <2>2
<1>8. ASSUME x <= y PROVE q <= p
  <2>1. CASE p < q
    <3>1. d * p + d <= d * q
      BY <1>2, <1>5, <2>1
    <3> QED BY <1>1, <1>2, <1>6, <1>8, <3>1
  <2> QED BY <1>2, <2>1
<1> QED BY <1>2, <1>3, <1>7, <1>8, Zenon DEF Slot, d, q, p, z, w

\* The instance has extremes of its own.
LEMMA BufferExtremes == ASSUME NEW S PROVE Ticks!Max(S) = Max(S) /\ Ticks!Min(S) = Min(S)
BY DEF Ticks!Max, Ticks!Min, Max, Min

\* One turn of the loop, in its two ways
LEMMA AddTickWays ==
  ASSUME NEW s, NEW k
  PROVE  LET start == Slot(k.time) * TickInterval
             final == s[Len(s)] IN
         Ticks!AddTick(s, k) =
           IF s = << >> \/ final.timestamp # start
           THEN Append(s, [timestamp |-> start, open |-> k.price, high |-> k.price,
                           low |-> k.price, close |-> k.price, volume |-> 1])
           ELSE [s EXCEPT ![Len(s)] =
                   [final EXCEPT !.high = Max({final.high, k.price}), !.low = Min({final.low, k.price}),
                                !.close = k.price, !.volume = final.volume + 1]]
BY BufferExtremes DEF Ticks!AddTick, Slot

\* What the candles of k ticks say of times: none is of a later interval than the k-th tick.
LEMMA DrawnSlots ==
  ASSUME TransportConstants, NEW m \in Seq(Ticks!Ticks), TimesRise(m), NEW k \in 0..Len(m),
         NEW s, Drawn(s, m, k)
  PROVE  /\ s \in Seq(Candle) /\ Len(s) \in Nat /\ (Len(s) > 0 <=> k > 0)
         /\ \A i \in 1..Len(s) : /\ s[i] \in Candle /\ Slot(s[i].timestamp) \in Nat
                                 /\ Slot(s[i].timestamp) <= Slot(s[Len(s)].timestamp)
         /\ \A j \in 1..Len(m) : m[j].time \in Nat /\ m[j].price \in Int /\ Slot(m[j].time) \in Nat
<1>1. s \in Seq(Candle) /\ Len(s) \in Nat /\ (s = << >> <=> k = 0)
  BY DEF Drawn
<1>2. Len(s) > 0 <=> k > 0
  BY <1>1
<1>3. \A i \in 1..Len(s) : s[i] \in Candle /\ s[i].timestamp \in Nat /\ Slot(s[i].timestamp) \in Nat
  <2> SUFFICES ASSUME NEW i \in 1..Len(s)
               PROVE  s[i] \in Candle /\ s[i].timestamp \in Nat /\ Slot(s[i].timestamp) \in Nat
    OBVIOUS
  <2>1. s[i] \in Candle
    BY <1>1
  <2>2. s[i].timestamp \in Nat
    BY <2>1 DEF Candle
  <2> QED BY <2>1, <2>2, Slots
<1>4. \A i \in 1..Len(s) : Slot(s[i].timestamp) <= Slot(s[Len(s)].timestamp)
  <2> SUFFICES ASSUME NEW i \in 1..Len(s) PROVE Slot(s[i].timestamp) <= Slot(s[Len(s)].timestamp)
    OBVIOUS
  <2>1. CASE i = Len(s)
    BY <1>3, <2>1
  <2>2. CASE i # Len(s)
    <3>1. i < Len(s) /\ Len(s) \in 1..Len(s)
      BY <1>1, <2>2
    <3>2. Slot(s[i].timestamp) < Slot(s[Len(s)].timestamp)
      BY <3>1 DEF Drawn
    <3>3. Slot(s[i].timestamp) \in Nat /\ Slot(s[Len(s)].timestamp) \in Nat
      BY <1>3, <3>1
    <3> QED BY <3>2, <3>3
  <2> QED BY <2>1, <2>2
<1>5. \A j \in 1..Len(m) : m[j].time \in Nat /\ m[j].price \in Int /\ Slot(m[j].time) \in Nat
  <2> SUFFICES ASSUME NEW j \in 1..Len(m)
               PROVE  m[j].time \in Nat /\ m[j].price \in Int /\ Slot(m[j].time) \in Nat
    OBVIOUS
  <2>1. m[j] \in Ticks!Ticks
    OBVIOUS
  <2> QED BY <2>1, TickIs, Slots
<1> QED BY <1>1, <1>2, <1>3, <1>4, <1>5

\* A candle stays as it is when the next tick is of another interval.
LEMMA CandleStays ==
  ASSUME NEW c, NEW m, NEW k \in Nat, NEW a, NEW b, Covers(c, m, k, a, b),
         Slot(m[k + 1].time) # Slot(c.timestamp)
  PROVE  Covers(c, m, k + 1, a, b)
<1>1. a \in 1..k /\ b \in 1..k /\ a <= b /\ CandleOf(c, m, a, b)
  BY DEF Covers
<1>2. a \in 1..k + 1 /\ b \in 1..k + 1 /\ k + 1 \notin a..b
  BY <1>1
<1>3. ASSUME NEW j \in 1..k + 1 PROVE Slot(m[j].time) = Slot(c.timestamp) <=> j \in a..b
  <2>1. CASE j = k + 1
    BY <1>2, <2>1
  <2>2. CASE j # k + 1
    <3>1. j \in 1..k
      BY <2>2
    <3> QED BY <3>1 DEF Covers
  <2> QED BY <2>1, <2>2
<1> QED BY <1>1, <1>2, <1>3 DEF Covers

\* The first tick of an interval makes a candle.
LEMMA CandleOpens ==
  ASSUME TransportConstants, NEW m \in Seq(Ticks!Ticks), NEW k \in 0..Len(m) - 1, NEW s,
         Drawn(s, m, k), \A j \in 1..Len(m) : m[j].time \in Nat /\ m[j].price \in Int,
         \A i \in 1..Len(s) : Slot(s[i].timestamp) < Slot(m[k + 1].time)
  PROVE  LET p == m[k + 1].price
             c == [timestamp |-> Slot(m[k + 1].time) * TickInterval, open |-> p, high |-> p,
                   low |-> p, close |-> p, volume |-> 1] IN
         Drawn(Append(s, c), m, k + 1)
<1> DEFINE x == m[k + 1].time
           p == m[k + 1].price
           c == [timestamp |-> Slot(x) * TickInterval, open |-> p, high |-> p,
                 low |-> p, close |-> p, volume |-> 1]
           r == Append(s, c)
<1>0. k \in Nat /\ k + 1 \in 1..Len(m) /\ k + 1 \in 1..k + 1 /\ x \in Nat /\ p \in Int
  OBVIOUS
<1>1. /\ Slot(x) \in Nat /\ Slot(x) * TickInterval \in Nat
      /\ Slot(Slot(x) * TickInterval) = Slot(x)
  BY <1>0, Slots
<1>2. c \in Candle /\ Slot(c.timestamp) = Slot(x) /\ c.timestamp = Slot(c.timestamp) * TickInterval
  BY <1>0, <1>1 DEF Candle
<1>3. s \in Seq(Candle) /\ Len(s) \in Nat
  BY DEF Drawn
<1>4. CandleOf(c, m, k + 1, k + 1)
  <2>1. \A j \in k + 1..k + 1 : j = k + 1
    BY <1>0
  <2>2. (k + 1) - (k + 1) + 1 = 1 /\ k + 1 \in k + 1..k + 1
    <3>1. \A z \in Int : z - z + 1 = 1 /\ z \in z..z
      OBVIOUS
    <3>2. k + 1 \in Int
      BY <1>0
    <3> QED BY <3>1, <3>2
  <2>3. p <= p
    BY <1>0
  <2>4. /\ c.volume = 1 /\ c.open = p /\ c.close = p /\ c.high = p /\ c.low = p
    OBVIOUS
  <2> HIDE DEF c
  <2> QED BY <2>1, <2>2, <2>3, <2>4 DEF CandleOf
<1> HIDE DEF c
<1>5. /\ r \in Seq(Candle) /\ Len(r) = Len(s) + 1 /\ r # << >> /\ r[Len(s) + 1] = c
      /\ \A i \in 1..Len(s) : r[i] = s[i]
  <2> HIDE DEF c
  <2>1. r \in Seq(Candle) /\ Len(r) = Len(s) + 1
    BY <1>2, <1>3
  <2>2. r[Len(s) + 1] = c /\ \A i \in 1..Len(s) : r[i] = s[i]
    BY <1>2, <1>3
  <2> HIDE DEF r
  <2>3. Len(r) # 0
    BY <1>3, <2>1
  <2>4. r # << >>
    BY <2>3
  <2> QED BY <2>1, <2>2, <2>4
<1> HIDE DEF r, p
<1>6. \A i \in 1..Len(r) : i \in 1..Len(s) \/ i = Len(s) + 1
  BY <1>3, <1>5
<1>7. \A i \in 1..Len(s) : Slot(s[i].timestamp) < Slot(x)
  OBVIOUS
<1>8. ASSUME NEW j \in 1..k PROVE \E i \in 1..Len(s) : Slot(s[i].timestamp) = Slot(m[j].time)
  BY <1>8 DEF Drawn
<1>9. \A j \in 1..k : Slot(m[j].time) # Slot(x)
  <2> SUFFICES ASSUME NEW j \in 1..k, Slot(m[j].time) = Slot(x) PROVE FALSE
    OBVIOUS
  <2>1. PICK i \in 1..Len(s) : Slot(s[i].timestamp) = Slot(m[j].time)
    BY <1>8
  <2> QED BY <1>1, <1>7, <2>1
<1>10. \A i, j \in 1..Len(r) : i < j => Slot(r[i].timestamp) < Slot(r[j].timestamp)
  <2> SUFFICES ASSUME NEW i \in 1..Len(r), NEW j \in 1..Len(r), i < j
               PROVE  Slot(r[i].timestamp) < Slot(r[j].timestamp)
    OBVIOUS
  <2>1. i \in 1..Len(s) /\ r[i] = s[i]
    <3>1. i \in Int /\ j \in Int /\ j <= Len(s) + 1 /\ 1 <= i
      BY <1>3, <1>5
    <3>2. i \in 1..Len(s)
      BY <1>3, <3>1
    <3> QED BY <1>5, <3>2
  <2>2. CASE j \in 1..Len(s)
    <3>1. Slot(s[i].timestamp) < Slot(s[j].timestamp)
      BY <2>1, <2>2 DEF Drawn
    <3> QED BY <1>5, <2>1, <2>2, <3>1
  <2>3. CASE j = Len(s) + 1
    BY <1>2, <1>5, <1>7, <2>1, <2>3
  <2> QED BY <1>6, <2>2, <2>3
<1>11. \A i \in 1..Len(r) : r[i].timestamp = Slot(r[i].timestamp) * TickInterval
  <2> SUFFICES ASSUME NEW i \in 1..Len(r)
               PROVE  r[i].timestamp = Slot(r[i].timestamp) * TickInterval
    OBVIOUS
  <2>1. CASE i \in 1..Len(s)
    BY <1>5, <2>1 DEF Drawn
  <2>2. CASE i = Len(s) + 1
    BY <1>2, <1>5, <2>2
  <2> QED BY <1>6, <2>1, <2>2
<1>12. \A i \in 1..Len(r) : \E a, b : Covers(r[i], m, k + 1, a, b)
  <2> SUFFICES ASSUME NEW i \in 1..Len(r) PROVE \E a, b : Covers(r[i], m, k + 1, a, b)
    OBVIOUS
  <2>1. CASE i \in 1..Len(s)
    <3>1. PICK a, b : Covers(s[i], m, k, a, b)
      BY <2>1 DEF Drawn
    <3>2. Slot(m[k + 1].time) # Slot(s[i].timestamp)
      BY <1>7, <2>1, <1>1
    <3>3. Covers(s[i], m, k + 1, a, b)
      BY <1>0, <3>1, <3>2, CandleStays
    <3> QED BY <1>5, <2>1, <3>3
  <2>2. CASE i = Len(s) + 1
    <3>1. \A j \in 1..k + 1 : Slot(m[j].time) = Slot(x) <=> j \in k + 1..k + 1
      <4> SUFFICES ASSUME NEW j \in 1..k + 1
                   PROVE  Slot(m[j].time) = Slot(x) <=> j \in k + 1..k + 1
        OBVIOUS
      <4>1. CASE j = k + 1
        BY <1>0, <4>1
      <4>2. CASE j # k + 1
        <5>1. j \in 1..k /\ j \notin k + 1..k + 1
          BY <1>0, <4>2
        <5> QED BY <1>9, <5>1
      <4> QED BY <4>1, <4>2
    <3>2. Covers(c, m, k + 1, k + 1, k + 1)
      BY <1>0, <1>2, <1>4, <3>1 DEF Covers
    <3> QED BY <1>5, <2>2, <3>2
  <2> QED BY <1>6, <2>1, <2>2
<1>13. \A j \in 1..k + 1 : \E i \in 1..Len(r) : Slot(r[i].timestamp) = Slot(m[j].time)
  <2> SUFFICES ASSUME NEW j \in 1..k + 1
               PROVE  \E i \in 1..Len(r) : Slot(r[i].timestamp) = Slot(m[j].time)
    OBVIOUS
  <2>1. CASE j = k + 1
    <3>1. Len(s) + 1 \in 1..Len(r) /\ Slot(r[Len(s) + 1].timestamp) = Slot(m[j].time)
      BY <1>2, <1>3, <1>5, <2>1
    <3> QED BY <3>1
  <2>2. CASE j # k + 1
    <3>1. j \in 1..k
      BY <1>0, <2>2
    <3>2. PICK i \in 1..Len(s) : Slot(s[i].timestamp) = Slot(m[j].time)
      BY <1>8, <3>1
    <3>3. i \in 1..Len(r) /\ r[i] = s[i]
      BY <1>3, <1>5
    <3> QED BY <3>2, <3>3
  <2> QED BY <2>1, <2>2
<1>14. Slot(r[Len(r)].timestamp) = Slot(m[k + 1].time)
  BY <1>2, <1>5
<1>15. Drawn(r, m, k + 1)
  BY <1>0, <1>5, <1>10, <1>11, <1>12, <1>13, <1>14 DEF Drawn
<1> QED BY <1>15 DEF r, c, p

\* A candle with other extremes, another last price and another volume
Redrawn(c, h, l, e, v) == [c EXCEPT !.high = h, !.low = l, !.close = e, !.volume = v]

\* What it keeps
LEMMA CandleWith ==
  ASSUME NEW c \in Candle, NEW h \in Int, NEW l \in Int, NEW e \in Int, NEW v \in Nat
  PROVE  LET d == Redrawn(c, h, l, e, v) IN
         /\ d \in Candle /\ d.timestamp = c.timestamp /\ d.high = h /\ d.low = l /\ d.close = e
         /\ d.volume = v /\ d.open = c.open
<1> DEFINE d == Redrawn(c, h, l, e, v)
<1>1. PICK t \in Nat, o \in Int, hi \in Int, lo \in Int, x \in Int, y \in Nat :
        c = [timestamp |-> t, open |-> o, high |-> hi, low |-> lo, close |-> x, volume |-> y]
  BY DEF Candle
<1>2. d.timestamp = t /\ d.high = h /\ d.low = l /\ d.close = e /\ d.volume = v /\ d.open = o
  BY <1>1 DEF Redrawn
<1>3. c.timestamp = t /\ c.open = o
  BY <1>1
<1>4. d \in Candle
  BY <1>1 DEF Candle, Redrawn
<1> QED BY <1>2, <1>3, <1>4

\* A further tick of the last interval extends its candle.
LEMMA CandleGrows ==
  ASSUME NEW c \in Candle, NEW m, NEW k \in Nat, NEW a, NEW b, Covers(c, m, k, a, b), k > 0,
         Slot(m[k].time) = Slot(c.timestamp), Slot(m[k + 1].time) = Slot(c.timestamp),
         \A j \in 1..k + 1 : m[j].price \in Int
  PROVE  LET p == m[k + 1].price
             d == [c EXCEPT !.high = Max({c.high, p}), !.low = Min({c.low, p}), !.close = p,
                            !.volume = c.volume + 1] IN
         d \in Candle /\ d.timestamp = c.timestamp /\ Covers(d, m, k + 1, a, k + 1)
<1> DEFINE p == m[k + 1].price
           hi == Max({c.high, p})
           lo == Min({c.low, p})
           d == [c EXCEPT !.high = hi, !.low = lo, !.close = p, !.volume = c.volume + 1]
<1>1. /\ a \in 1..k /\ b \in 1..k /\ a <= b /\ CandleOf(c, m, a, b) /\ k \in a..b
      /\ k + 1 \in 1..k + 1 /\ a \in 1..k + 1 /\ a <= k + 1
  BY DEF Covers
<1>2. b = k
  BY <1>1
<1>3. p \in Int /\ c.high \in Int /\ c.low \in Int /\ c.volume \in Nat
  BY <1>1 DEF Candle
<1>4. /\ hi = IF c.high >= p THEN c.high ELSE p
      /\ lo = IF c.low <= p THEN c.low ELSE p
  BY <1>3, PairBounds
<1> HIDE DEF hi, lo
<1>5. hi \in Int /\ lo \in Int /\ hi >= p /\ hi >= c.high /\ lo <= p /\ lo <= c.low
  BY <1>3, <1>4
<1>6. /\ d \in Candle /\ d.timestamp = c.timestamp /\ d.high = hi /\ d.low = lo /\ d.close = p
      /\ d.volume = c.volume + 1 /\ d.open = c.open
  <2> HIDE DEF p
  <2>1. c.volume + 1 \in Nat
    BY <1>3
  <2> DEFINE v == c.volume + 1
  <2>2. v \in Nat
    BY <2>1
  <2> HIDE DEF v
  <2>3. LET e == Redrawn(c, hi, lo, p, v) IN
        /\ e \in Candle /\ e.timestamp = c.timestamp /\ e.high = hi /\ e.low = lo /\ e.close = p
        /\ e.volume = v /\ e.open = c.open
    BY <1>3, <1>5, <2>2, CandleWith
  <2> QED BY <2>3, Zenon DEF v, Redrawn
<1> HIDE DEF d
<1>7. \A j \in a..k + 1 : j \in a..b \/ j = k + 1
  BY <1>1, <1>2
<1>8. \A j \in a..b : j \in a..k + 1 /\ j \in 1..k + 1
  BY <1>1
<1>9. k + 1 \in a..k + 1
  BY <1>1
<1>10. CandleOf(d, m, a, k + 1)
  <2>1. d.volume = (k + 1) - a + 1
    BY <1>1, <1>2, <1>6 DEF CandleOf
  <2>2. d.open = m[a].price /\ d.close = m[k + 1].price
    BY <1>1, <1>6 DEF CandleOf
  <2>3. d.high \in {m[j].price : j \in a..k + 1}
    <3>1. CASE hi = c.high
      <4>1. PICK j \in a..b : c.high = m[j].price
        BY <1>1 DEF CandleOf
      <4> QED BY <1>6, <1>8, <3>1, <4>1
    <3>2. CASE hi = p
      BY <1>6, <1>9, <3>2
    <3> QED BY <1>4, <3>1, <3>2
  <2>4. d.low \in {m[j].price : j \in a..k + 1}
    <3>1. CASE lo = c.low
      <4>1. PICK j \in a..b : c.low = m[j].price
        BY <1>1 DEF CandleOf
      <4> QED BY <1>6, <1>8, <3>1, <4>1
    <3>2. CASE lo = p
      BY <1>6, <1>9, <3>2
    <3> QED BY <1>4, <3>1, <3>2
  <2>5. ASSUME NEW j \in a..k + 1 PROVE m[j].price <= d.high /\ d.low <= m[j].price
    <3>1. CASE j \in a..b
      <4>1. m[j].price <= c.high /\ c.low <= m[j].price /\ m[j].price \in Int
        BY <1>1, <1>8, <3>1 DEF CandleOf
      <4> QED BY <1>3, <1>5, <1>6, <4>1
    <3>2. CASE j = k + 1
      BY <1>5, <1>6, <3>2
    <3> QED BY <1>7, <3>1, <3>2
  <2> QED BY <2>1, <2>2, <2>3, <2>4, <2>5 DEF CandleOf
<1>11. \A j \in 1..k + 1 : Slot(m[j].time) = Slot(d.timestamp) <=> j \in a..k + 1
  <2> SUFFICES ASSUME NEW j \in 1..k + 1
               PROVE  Slot(m[j].time) = Slot(c.timestamp) <=> j \in a..k + 1
    BY <1>6
  <2>1. CASE j = k + 1
    BY <1>9, <2>1
  <2>2. CASE j # k + 1
    <3>1. j \in 1..k
      BY <2>2
    <3>2. Slot(m[j].time) = Slot(c.timestamp) <=> j \in a..b
      BY <3>1 DEF Covers
    <3> QED BY <1>7, <1>8, <2>2, <3>2
  <2> QED BY <2>1, <2>2
<1>12. Covers(d, m, k + 1, a, k + 1)
  BY <1>1, <1>10, <1>11 DEF Covers
<1> QED BY <1>6, <1>12 DEF d, hi, lo

\* So does the list of candles whose last one grows.
LEMMA LastGrows ==
  ASSUME TransportConstants, NEW m \in Seq(Ticks!Ticks), NEW k \in 0..Len(m) - 1, k > 0, NEW s,
         Drawn(s, m, k), NEW d \in Candle, d.timestamp = s[Len(s)].timestamp,
         Slot(m[k + 1].time) = Slot(s[Len(s)].timestamp), NEW e, Covers(d, m, k + 1, e, k + 1)
  PROVE  Drawn([s EXCEPT ![Len(s)] = d], m, k + 1)
<1> DEFINE r == [s EXCEPT ![Len(s)] = d]
           n == Len(s)
<1>0. k \in Nat /\ k + 1 \in 1..k + 1 /\ s \in Seq(Candle) /\ n \in Nat /\ s # << >>
  BY DEF Drawn
<1>1. n \in 1..n
  BY <1>0
<1>2. /\ r \in Seq(Candle) /\ Len(r) = n /\ r # << >> /\ r[n] = d
      /\ \A i \in 1..n : i # n => r[i] = s[i]
  BY <1>0, <1>1
<1> HIDE DEF r, n
<1>3. \A i \in 1..n : r[i].timestamp = s[i].timestamp
  BY <1>2 DEF n
<1>4. \A i, j \in 1..n : i < j => Slot(s[i].timestamp) < Slot(s[j].timestamp)
  BY DEF Drawn, n
<1>5. \A i, j \in 1..Len(r) : i < j => Slot(r[i].timestamp) < Slot(r[j].timestamp)
  BY <1>2, <1>3, <1>4
<1>6. \A i \in 1..Len(r) : r[i].timestamp = Slot(r[i].timestamp) * TickInterval
  BY <1>2, <1>3 DEF Drawn, n
<1>7. \A i \in 1..Len(r) : \E a, b : Covers(r[i], m, k + 1, a, b)
  <2> SUFFICES ASSUME NEW i \in 1..n PROVE \E a, b : Covers(r[i], m, k + 1, a, b)
    BY <1>2
  <2>1. CASE i = n
    BY <1>2, <2>1
  <2>2. CASE i # n
    <3>1. PICK a, b : Covers(s[i], m, k, a, b)
      BY <2>2 DEF Drawn, n
    <3>2. Slot(s[i].timestamp) < Slot(s[n].timestamp)
      BY <1>0, <1>1, <1>4, <2>2
    <3>3. Slot(m[k + 1].time) # Slot(s[i].timestamp)
      <4>1. Slot(s[i].timestamp) \in Int
        <5>1. s[i] \in Candle
          BY <1>0 DEF n
        <5>2. s[i].timestamp \in Nat
          BY <5>1 DEF Candle
        <5>3. Slot(s[i].timestamp) \in Nat
          BY <5>2, Slots, Zenon
        <5> QED BY <5>3
      <4>2. Slot(m[k + 1].time) = Slot(s[n].timestamp)
        BY DEF n
      <4> QED BY <3>2, <4>1, <4>2
    <3>4. Covers(s[i], m, k + 1, a, b)
      BY <1>0, <3>1, <3>3, CandleStays
    <3> QED BY <1>2, <2>2, <3>4
  <2> QED BY <2>1, <2>2
<1>8. \A j \in 1..k + 1 : \E i \in 1..Len(r) : Slot(r[i].timestamp) = Slot(m[j].time)
  <2> SUFFICES ASSUME NEW j \in 1..k + 1
               PROVE  \E i \in 1..n : Slot(r[i].timestamp) = Slot(m[j].time)
    BY <1>2
  <2>1. CASE j = k + 1
    BY <1>1, <1>3, <2>1 DEF n
  <2>2. CASE j # k + 1
    <3>1. j \in 1..k
      BY <1>0, <2>2
    <3>2. PICK i \in 1..n : Slot(s[i].timestamp) = Slot(m[j].time)
      BY <3>1 DEF Drawn, n
    <3> QED BY <1>3, <3>2
  <2> QED BY <2>1, <2>2
<1>9. Slot(r[Len(r)].timestamp) = Slot(m[k + 1].time)
  BY <1>1, <1>2, <1>3 DEF n
<1>10. Drawn(r, m, k + 1)
  <2>1. k + 1 # 0
    BY <1>0
  <2> QED BY <2>1, <1>2, <1>5, <1>6, <1>7, <1>8, <1>9 DEF Drawn
<1> QED BY <1>10 DEF r

\* The candles of k + 1 ticks from those of k
LEMMA CandleNext ==
  ASSUME TransportConstants, NEW m \in Seq(Ticks!Ticks), TimesRise(m), NEW k \in 0..Len(m) - 1,
         NEW s, Drawn(s, m, k)
  PROVE  Drawn(Ticks!AddTick(s, m[k + 1]), m, k + 1)
<1> DEFINE x == m[k + 1].time
           n == Len(s)
<1>0. /\ k \in Nat /\ k \in 0..Len(m) /\ k + 1 \in 1..Len(m) /\ k + 1 \in 1..k + 1
      /\ \A j \in 1..k + 1 : j \in 1..Len(m)
  OBVIOUS
<1>1. /\ s \in Seq(Candle) /\ n \in Nat /\ (n > 0 <=> k > 0) /\ (s = << >> <=> k = 0)
      /\ \A i \in 1..n : /\ s[i] \in Candle /\ Slot(s[i].timestamp) \in Nat
                         /\ Slot(s[i].timestamp) <= Slot(s[n].timestamp)
      /\ \A j \in 1..Len(m) : m[j].time \in Nat /\ m[j].price \in Int /\ Slot(m[j].time) \in Nat
  <2>1. s = << >> <=> k = 0
    BY DEF Drawn
  <2>2. k \in 0..Len(m)
    BY <1>0
  <2> HIDE DEF n
  <2>3. /\ s \in Seq(Candle) /\ Len(s) \in Nat /\ (Len(s) > 0 <=> k > 0)
        /\ \A i \in 1..Len(s) : /\ s[i] \in Candle /\ Slot(s[i].timestamp) \in Nat
                                /\ Slot(s[i].timestamp) <= Slot(s[Len(s)].timestamp)
        /\ \A j \in 1..Len(m) : m[j].time \in Nat /\ m[j].price \in Int /\ Slot(m[j].time) \in Nat
    BY <2>2, DrawnSlots
  <2> QED BY <2>1, <2>3, Zenon DEF n
<1>2. x \in Nat /\ Slot(x) \in Nat
  BY <1>0, <1>1
<1>3. ASSUME k > 0
      PROVE  /\ n \in 1..n /\ k \in 1..Len(m) /\ Slot(s[n].timestamp) = Slot(m[k].time)
             /\ Slot(s[n].timestamp) <= Slot(x)
             /\ s[n].timestamp = Slot(s[n].timestamp) * TickInterval
  <2>0. n \in Nat /\ n > 0
    BY <1>1, <1>3
  <2> HIDE DEF n
  <2>1. n \in 1..n /\ k \in 1..Len(m) /\ k < k + 1
    <3>1. n \in 1..n
      BY <2>0
    <3>2. k \in 1..Len(m) /\ k < k + 1
      BY <1>0, <1>3
    <3> QED BY <3>1, <3>2
  <2> USE DEF n
  <2>2. Slot(s[n].timestamp) = Slot(m[k].time)
    BY <1>3 DEF Drawn
  <2>3. m[k].time <= x /\ m[k].time \in Nat
    BY <1>0, <1>1, <2>1 DEF TimesRise
  <2>4. Slot(m[k].time) <= Slot(x)
    BY <1>2, <2>3, Slots
  <2> QED BY <2>1, <2>2, <2>4 DEF Drawn
<1>4. CASE s = << >> \/ s[n].timestamp # Slot(x) * TickInterval
  <2>1. \A i \in 1..n : Slot(s[i].timestamp) < Slot(x)
    <3> SUFFICES ASSUME NEW i \in 1..n PROVE Slot(s[i].timestamp) < Slot(x)
      OBVIOUS
    <3>1. n > 0
      BY <1>1
    <3>2. s # << >> /\ k > 0
      BY <1>1, <3>1
    <3>3. Slot(s[n].timestamp) # Slot(x)
      BY <1>3, <1>4, <3>2
    <3>4. /\ Slot(s[i].timestamp) <= Slot(s[n].timestamp) /\ Slot(s[n].timestamp) <= Slot(x)
          /\ Slot(s[i].timestamp) \in Nat /\ Slot(s[n].timestamp) \in Nat
      <4>1. n \in 1..n /\ Slot(s[n].timestamp) <= Slot(x)
        BY <1>3, <3>2
      <4> HIDE DEF n, x
      <4> QED BY <1>1, <4>1
    <3>5. \A a, b, c \in Nat : a <= b /\ b <= c /\ b # c => a < c
      OBVIOUS
    <3> HIDE DEF n, x
    <3> QED BY <1>2, <3>3, <3>4, <3>5
  <2>2. Ticks!AddTick(s, m[k + 1])
        = Append(s, [timestamp |-> Slot(x) * TickInterval, open |-> m[k + 1].price,
                     high |-> m[k + 1].price, low |-> m[k + 1].price, close |-> m[k + 1].price,
                     volume |-> 1])
    BY <1>4, AddTickWays, Zenon
  <2> QED BY <1>1, <2>1, <2>2, CandleOpens
<1>5. CASE ~(s = << >> \/ s[n].timestamp # Slot(x) * TickInterval)
  <2> DEFINE final == s[n]
             p == m[k + 1].price
             d == [final EXCEPT !.high = Max({final.high, p}), !.low = Min({final.low, p}),
                               !.close = p, !.volume = final.volume + 1]
  <2>1. k > 0
    BY <1>0, <1>1, <1>5
  <2>2. Slot(final.timestamp) = Slot(x)
    BY <1>2, <1>5, Slots
  <2>3. Slot(m[k].time) = Slot(final.timestamp) /\ n \in 1..n /\ final \in Candle
    BY <1>1, <1>3, <2>1
  <2>4. PICK a, b : Covers(final, m, k, a, b)
    BY <2>3 DEF Drawn
  <2>5. d \in Candle /\ d.timestamp = final.timestamp /\ Covers(d, m, k + 1, a, k + 1)
    <3>1. \A j \in 1..k + 1 : m[j].price \in Int
      BY <1>0, <1>1
    <3> HIDE DEF final, p
    <3>2. Slot(m[k + 1].time) = Slot(final.timestamp)
      BY <2>2
    <3> QED BY <1>0, <2>1, <2>3, <2>4, <3>1, <3>2, CandleGrows DEF p
  <2>6. Ticks!AddTick(s, m[k + 1]) = [s EXCEPT ![n] = d]
    BY <1>5, AddTickWays, Zenon
  <2>7. d.timestamp = s[Len(s)].timestamp /\ Slot(m[k + 1].time) = Slot(s[Len(s)].timestamp)
    BY <2>2, <2>5
  <2> HIDE DEF d
  <2>8. Drawn([s EXCEPT ![Len(s)] = d], m, k + 1)
    BY <2>1, <2>5, <2>7, LastGrows
  <2> QED BY <2>6, <2>8
<1> QED BY <1>4, <1>5

\* One candle list from that of a smaller set of ticks
CandleStep(m, g, s) ==
  IF s = {} THEN << >> ELSE Ticks!AddTick(g[s \ {Ticks!Max(s)}], m[Ticks!Max(s)])

\* The recursive function behind the library's fold
CandleIter(m) == CHOOSE g : g = [s \in SUBSET DOMAIN m |-> CandleStep(m, g, s)]

\* What get_ohlcv() returns: the last candles of the fold.
LEMMA OhlcvIs ==
  LET c == CandleIter(memory)[DOMAIN memory] IN
  Ticks!get_ohlcv = SubSeq(c, Ticks!Max({1, Len(c) - Periods + 1}), Len(c))
BY DEF CandleIter, CandleStep, Ticks!get_ohlcv, Ticks!FoldLeft, Ticks!MapThenFoldSet

\* The recursion has a solution: one for the sets of at most n ticks extends to n + 1.
LEMMA CandleIterExists ==
  ASSUME NEW m, NEW k \in Nat, DOMAIN m = 1..k
  PROVE  \E g : g = [s \in SUBSET DOMAIN m |-> CandleStep(m, g, s)]
<1> DEFINE T == 1..k
           S == {n \in Nat : \E g : g = [s \in UpTo(T, n) |-> CandleStep(m, g, s)]}
<1>0. /\ IsFiniteSet(T) /\ \A s \in SUBSET T : IsFiniteSet(s) /\ Cardinality(s) \in Nat
      /\ \A s \in SUBSET T : s \in SUBSET Nat
  <2>1. IsFiniteSet(T)
    <3>1. 1 \in Int /\ k \in Int
      OBVIOUS
    <3> QED BY <3>1, FS_Interval, Zenon
  <2>2. \A s \in SUBSET T : s \in SUBSET Nat
    OBVIOUS
  <2> HIDE DEF T, S
  <2>3. ASSUME NEW s \in SUBSET T PROVE IsFiniteSet(s) /\ Cardinality(s) \in Nat
    <3>1. IsFiniteSet(s)
      BY <2>1, FS_Subset
    <3> QED BY <3>1, FS_CardinalityType
  <2> QED BY <2>1, <2>2, <2>3, Zenon
<1>1. 0 \in S
  <2> DEFINE g == [s \in UpTo(T, 0) |-> << >>]
  <2>1. \A s \in UpTo(T, 0) : s = {}
    BY <1>0, FS_EmptySet DEF UpTo
  <2>2. g = [s \in UpTo(T, 0) |-> CandleStep(m, g, s)]
    BY <2>1 DEF CandleStep
  <2> QED BY <2>2
<1>2. ASSUME NEW n \in S PROVE n + 1 \in S
  <2>1. PICK g : g = [s \in UpTo(T, n) |-> CandleStep(m, g, s)]
    OBVIOUS
  <2> DEFINE h == [s \in UpTo(T, n + 1) |-> CandleStep(m, g, s)]
  <2>2. ASSUME NEW s \in UpTo(T, n) PROVE h[s] = g[s]
    <3>1. s \in UpTo(T, n + 1)
      BY <1>0 DEF UpTo
    <3> QED BY <2>1, <3>1
  <2>3. ASSUME NEW s \in UpTo(T, n + 1) PROVE CandleStep(m, h, s) = CandleStep(m, g, s)
    <3>1. CASE s = {}
      BY <3>1 DEF CandleStep
    <3>2. CASE s # {}
      <4> DEFINE x == Ticks!Max(s)
      <4>0. s \in SUBSET T
        BY DEF UpTo
      <4>1. x \in s
        BY <1>0, <3>2, <4>0, MaxIn, BufferExtremes
      <4> HIDE DEF x
      <4>2. s \ {x} \in SUBSET T /\ Cardinality(s \ {x}) = Cardinality(s) - 1
        BY <4>0, <4>1, <1>0, FS_RemoveElement
      <4>3. s \ {x} \in UpTo(T, n)
        BY <4>2, <1>0 DEF UpTo
      <4> HIDE DEF h
      <4>4. h[s \ {x}] = g[s \ {x}]
        BY <4>3, <2>2
      <4> QED BY <4>4, <3>2 DEF CandleStep, x
    <3> QED BY <3>1, <3>2
  <2>4. h = [s \in UpTo(T, n + 1) |-> CandleStep(m, h, s)]
    BY <2>3
  <2>5. \E f : f = [s \in UpTo(T, n + 1) |-> CandleStep(m, f, s)]
    <3> HIDE DEF h
    <3> QED BY <2>4
  <2>6. n + 1 \in Nat
    OBVIOUS
  <2> QED BY <2>5, <2>6
<1>3. S = Nat
  <2> HIDE DEF S
  <2>1. S \in SUBSET Nat BY DEF S
  <2> QED BY <1>1, <1>2, <2>1, SetInduction
<1>4. UpTo(T, Cardinality(T)) = SUBSET T
  BY <1>0, FS_Subset, FS_CardinalityType DEF UpTo
<1>5. Cardinality(T) \in S
  BY <1>3, <1>0
<1> QED BY <1>4, <1>5

\* So it satisfies its equation.
LEMMA CandleIterEquation ==
  ASSUME NEW m, NEW k \in Nat, DOMAIN m = 1..k, NEW s \in SUBSET DOMAIN m
  PROVE  CandleIter(m)[s] = CandleStep(m, CandleIter(m), s)
<1>1. CandleIter(m) = [t \in SUBSET DOMAIN m |-> CandleStep(m, CandleIter(m), t)]
  BY CandleIterExists DEF CandleIter
<1> QED BY <1>1

\* An interval without its last number
LEMMA LastLeaves ==
  ASSUME NEW k \in Nat
  PROVE  1..k + 1 # {} /\ (1..k + 1) \ {k + 1} = 1..k
OBVIOUS

\* The fold of the first ticks draws their candles.
LEMMA CandlesDrawn ==
  ASSUME TransportConstants, NEW m \in Seq(Ticks!Ticks), TimesRise(m)
  PROVE  Drawn(CandleIter(m)[DOMAIN m], m, Len(m))
<1> DEFINE S == {k \in Nat : k <= Len(m) => Drawn(CandleIter(m)[1..k], m, k)}
<1>0. Len(m) \in Nat /\ DOMAIN m = 1..Len(m)
  OBVIOUS
<1>1. 0 \in S
  <2>1. 1..0 = {} /\ 1..0 \in SUBSET DOMAIN m
    OBVIOUS
  <2>2. CandleIter(m)[1..0] = << >>
    BY <1>0, <2>1, CandleIterEquation DEF CandleStep
  <2>3. Drawn(<< >>, m, 0)
    BY DEF Drawn
  <2> QED BY <2>2, <2>3
<1>2. ASSUME NEW k \in S PROVE k + 1 \in S
  <2> SUFFICES ASSUME k + 1 <= Len(m) PROVE Drawn(CandleIter(m)[1..k + 1], m, k + 1)
    BY <1>0
  <2>1. k \in Nat /\ k \in 0..Len(m) - 1 /\ Drawn(CandleIter(m)[1..k], m, k)
    BY <1>0, <1>2
  <2>2. Ticks!Max(1..k + 1) = k + 1
    <3>1. 1..k + 1 \in SUBSET Int /\ k + 1 \in 1..k + 1 /\ \A x \in 1..k + 1 : x <= k + 1
      BY <2>1
    <3>2. Max(1..k + 1) = k + 1
      BY <3>1, ExtremeIs
    <3> QED BY <3>2, BufferExtremes
  <2>3. 1..k + 1 # {} /\ (1..k + 1) \ {k + 1} = 1..k /\ 1..k + 1 \in SUBSET DOMAIN m
    <3>1. 1..k + 1 # {} /\ (1..k + 1) \ {k + 1} = 1..k
      BY <2>1, LastLeaves
    <3>2. 1..k + 1 \in SUBSET (1..Len(m))
      BY <1>0, <2>1
    <3> QED BY <1>0, <3>1, <3>2
  <2>4. CandleIter(m)[1..k + 1] = CandleStep(m, CandleIter(m), 1..k + 1)
    BY <1>0, <2>3, CandleIterEquation
  <2>5. CandleIter(m)[1..k + 1] = Ticks!AddTick(CandleIter(m)[1..k], m[k + 1])
    BY <2>2, <2>3, <2>4 DEF CandleStep
  <2> QED BY <2>1, <2>5, CandleNext
<1>3. S = Nat
  <2> HIDE DEF S
  <2>1. S \in SUBSET Nat BY DEF S
  <2> QED BY <1>1, <1>2, <2>1, SetInduction
<1>4. Drawn(CandleIter(m)[1..Len(m)], m, Len(m))
  <2>1. Len(m) <= Len(m)
    BY <1>0
  <2> QED BY <1>0, <1>3, <2>1
<1> QED BY <1>0, <1>4, Zenon

\* The intervals of a list of ticks
SlotsOf(m) == {Slot(m[j].time) : j \in DOMAIN m}

\* What get_ohlcv() says of a candle whose ticks are a..b
LEMMA CandlePrices ==
  ASSUME NEW c \in Candle, NEW m \in Seq(Ticks!Ticks), NEW a, NEW b, Covers(c, m, Len(m), a, b),
         \A j \in 1..Len(m) : m[j].price \in Int
  PROVE  LET Inside == {j \in DOMAIN m : Slot(m[j].time) = Slot(c.timestamp)}
             PricesIn == {m[j].price : j \in Inside} IN
         /\ c.volume = Ticks!Cardinality(Inside)
         /\ c.high = Ticks!Max(PricesIn) /\ c.low = Ticks!Min(PricesIn)
         /\ c.open = m[Ticks!Min(Inside)].price /\ c.close = m[Ticks!Max(Inside)].price
<1> DEFINE Inside == {j \in DOMAIN m : Slot(m[j].time) = Slot(c.timestamp)}
           PricesIn == {m[j].price : j \in Inside}
<1>1. /\ a \in 1..Len(m) /\ b \in 1..Len(m) /\ a <= b /\ CandleOf(c, m, a, b)
      /\ \A j \in 1..Len(m) : Slot(m[j].time) = Slot(c.timestamp) <=> j \in a..b
  BY DEF Covers
<1>2. a..b \subseteq 1..Len(m) /\ DOMAIN m = 1..Len(m) /\ a \in Int /\ b \in Int
  BY <1>1
<1>3. Inside = a..b
  BY <1>1, <1>2
<1> HIDE DEF Inside
<1>4. c.volume = Ticks!Cardinality(Inside)
  <2>1. Cardinality(a..b) = b - a + 1
    BY <1>1, <1>2, FS_Interval
  <2>2. Ticks!Cardinality(a..b) = Cardinality(a..b)
    BY DEF Ticks!Cardinality, Cardinality
  <2> QED BY <1>1, <1>3, <2>1, <2>2 DEF CandleOf
<1>5. Ticks!Min(Inside) = a /\ Ticks!Max(Inside) = b
  <2>1. a..b \in SUBSET Int /\ a \in a..b /\ b \in a..b /\ \A j \in a..b : a <= j /\ j <= b
    BY <1>1, <1>2
  <2>2. Min(a..b) = a /\ Max(a..b) = b
    BY <2>1, ExtremeIs
  <2> QED BY <1>3, <2>2, BufferExtremes
<1>6. PricesIn \in SUBSET Int /\ c.high \in PricesIn /\ c.low \in PricesIn
  BY <1>1, <1>2, <1>3 DEF CandleOf
<1>7. \A x \in PricesIn : x <= c.high /\ c.low <= x
  BY <1>1, <1>3 DEF CandleOf
<1> HIDE DEF PricesIn
<1>8. Max(PricesIn) = c.high /\ Min(PricesIn) = c.low
  BY <1>6, <1>7, ExtremeIs
<1>9. c.open = m[a].price /\ c.close = m[b].price
  BY <1>1 DEF CandleOf
<1> QED BY <1>4, <1>5, <1>8, <1>9, BufferExtremes DEF Inside, PricesIn

\* As many candles as intervals
LEMMA CandleCount ==
  ASSUME TransportConstants, NEW m \in Seq(Ticks!Ticks), TimesRise(m), NEW s,
         Drawn(s, m, Len(m))
  PROVE  Len(s) \in Nat /\ Ticks!Cardinality(SlotsOf(m)) = Len(s)
<1> DEFINE f == [i \in 1..Len(s) |-> Slot(s[i].timestamp)]
<1>1. /\ Len(s) \in Nat /\ Len(m) \in 0..Len(m) /\ DOMAIN m = 1..Len(m)
      /\ \A i \in 1..Len(s) : Slot(s[i].timestamp) \in Nat
  <2>1. Len(m) \in 0..Len(m)
    OBVIOUS
  <2>2. Len(s) \in Nat /\ \A i \in 1..Len(s) : Slot(s[i].timestamp) \in Nat
    BY <2>1, DrawnSlots
  <2> QED BY <2>1, <2>2
<1>2. \A i \in 1..Len(s) : f[i] \in SlotsOf(m)
  <2> SUFFICES ASSUME NEW i \in 1..Len(s) PROVE Slot(s[i].timestamp) \in SlotsOf(m)
    OBVIOUS
  <2>1. PICK a, b : Covers(s[i], m, Len(m), a, b)
    BY DEF Drawn
  <2>2. a \in 1..Len(m) /\ a \in a..b
    BY <2>1 DEF Covers
  <2>3. Slot(m[a].time) = Slot(s[i].timestamp)
    BY <2>1, <2>2 DEF Covers
  <2> QED BY <1>1, <2>2, <2>3 DEF SlotsOf
<1>3. \A x \in SlotsOf(m) : \E i \in 1..Len(s) : f[i] = x
  <2> SUFFICES ASSUME NEW j \in 1..Len(m)
               PROVE  \E i \in 1..Len(s) : Slot(s[i].timestamp) = Slot(m[j].time)
    BY <1>1 DEF SlotsOf
  <2> QED BY DEF Drawn
<1>4. \A i, j \in 1..Len(s) : f[i] = f[j] => i = j
  <2> SUFFICES ASSUME NEW i \in 1..Len(s), NEW j \in 1..Len(s), f[i] = f[j], i # j PROVE FALSE
    OBVIOUS
  <2>1. i < j \/ j < i
    BY <1>1
  <2>2. Slot(s[i].timestamp) < Slot(s[j].timestamp) \/ Slot(s[j].timestamp) < Slot(s[i].timestamp)
    BY <2>1 DEF Drawn
  <2> QED BY <1>1, <2>2
<1>5. f \in Bijection(1..Len(s), SlotsOf(m))
  <2>1. f \in [1..Len(s) -> SlotsOf(m)]
    BY <1>2
  <2> HIDE DEF f
  <2> QED BY <2>1, <1>3, <1>4, Zenon DEF Bijection, Injection, IsInjective, Surjection
<1>6. Cardinality(SlotsOf(m)) = Len(s)
  <2>1. IsFiniteSet(1..Len(s)) /\ Cardinality(1..Len(s)) = Len(s)
    <3> DEFINE n == Len(s)
    <3>1. n \in Int /\ 1 \in Int /\ n \in Nat
      BY <1>1
    <3> HIDE DEF n
    <3>2. IsFiniteSet(1..n) /\ Cardinality(1..n) = IF 1 > n THEN 0 ELSE n - 1 + 1
      BY <3>1, FS_Interval, Zenon
    <3>3. Cardinality(1..n) = n
      BY <3>1, <3>2
    <3> QED BY <3>2, <3>3, Zenon DEF n
  <2>2. ExistsBijection(1..Len(s), SlotsOf(m))
    BY <1>5 DEF ExistsBijection
  <2> QED BY <2>1, <2>2, FS_Bijection
<1>7. Ticks!Cardinality(SlotsOf(m)) = Cardinality(SlotsOf(m))
  BY DEF Ticks!Cardinality, Cardinality
<1> QED BY <1>1, <1>6, <1>7

\* get_ohlcv() of ticks that came in the order of their times
LEMMA OhlcvRight ==
  ASSUME TransportConstants, memory \in Seq(Ticks!Ticks)
  PROVE  Ticks!CandlesAreRight
<1> DEFINE G == Ticks!get_ohlcv
           s == CandleIter(memory)[DOMAIN memory]
           from == Ticks!Max({1, Len(s) - Periods + 1})
<1>0. Len(memory) \in Nat /\ DOMAIN memory = 1..Len(memory) /\ Len(memory) \in 0..Len(memory)
  OBVIOUS
<1> SUFFICES ASSUME TimesRise(memory) PROVE Ticks!CandlesAreRight
  BY <1>0, Zenon DEF Ticks!CandlesAreRight, TimesRise
<1>1. Drawn(s, memory, Len(memory))
  BY CandlesDrawn
<1>2. G = SubSeq(s, from, Len(s))
  BY OhlcvIs
<1> HIDE DEF s, G
<1>3. /\ s \in Seq(Candle) /\ Len(s) \in Nat /\ (Len(s) > 0 <=> Len(memory) > 0)
      /\ \A i \in 1..Len(s) : s[i] \in Candle
      /\ \A j \in 1..Len(memory) : memory[j].price \in Int
  BY <1>0, <1>1, DrawnSlots
<1>4. Periods \in Nat \ {0}
  BY BufferNumbers
<1>5. from = IF 1 >= Len(s) - Periods + 1 THEN 1 ELSE Len(s) - Periods + 1
  <2>1. Max({1, Len(s) - Periods + 1})
          = IF 1 >= Len(s) - Periods + 1 THEN 1 ELSE Len(s) - Periods + 1
    BY <1>3, <1>4, PairBounds
  <2> QED BY <2>1, BufferExtremes
<1> HIDE DEF from
<1>6. /\ Len(G) = IF Len(s) <= Periods THEN Len(s) ELSE Periods
      /\ from \in Nat /\ from + Len(G) - 1 = Len(s) /\ DOMAIN G = 1..Len(G)
      /\ \A k \in 1..Len(G) : from + k - 1 \in 1..Len(s) /\ G[k] = s[from + k - 1]
  <2>1. from \in Nat \ {0} /\ from <= Len(s) + 1
    BY <1>3, <1>4, <1>5
  <2>2. Len(G) = Len(s) - from + 1 /\ DOMAIN G = 1..Len(G)
    <3>1. G \in Seq(Candle)
      BY <1>2, <1>3, <2>1
    <3>2. Len(G) = IF from <= Len(s) THEN Len(s) - from + 1 ELSE 0
      BY <1>2, <1>3, <2>1
    <3>3. Len(G) = Len(s) - from + 1
      BY <1>3, <2>1, <3>2
    <3> QED BY <3>1, <3>3
  <2>3. \A k \in 1..Len(G) : from + k - 1 \in 1..Len(s) /\ G[k] = s[from + k - 1]
    BY <1>2, <1>3, <2>1, <2>2
  <2>4. Len(G) = IF Len(s) <= Periods THEN Len(s) ELSE Periods
    BY <1>3, <1>4, <1>5, <2>2
  <2>5. from + Len(G) - 1 = Len(s)
    BY <1>3, <2>1, <2>2
  <2> QED BY <2>1, <2>2, <2>3, <2>4, <2>5
<1>7. Len(G) = Ticks!Min({Periods, Ticks!Cardinality(
                             {tick.time \div TickInterval : tick \in Ticks!Range(memory)})})
  <2>1. {tick.time \div TickInterval : tick \in Ticks!Range(memory)} = SlotsOf(memory)
    BY DEF Ticks!Range, SlotsOf, Slot
  <2>2. Ticks!Cardinality(SlotsOf(memory)) = Len(s)
    BY <1>1, CandleCount
  <2>3. Min({Periods, Len(s)}) = IF Periods <= Len(s) THEN Periods ELSE Len(s)
    <3>1. Periods \in Int /\ Len(s) \in Int
      BY <1>3, <1>4
    <3> QED BY <3>1, PairBounds, Zenon
  <2>4. Ticks!Min({Periods, Len(s)}) = Min({Periods, Len(s)})
    BY BufferExtremes
  <2>5. Len(G) = Min({Periods, Len(s)})
    BY <1>3, <1>4, <1>6, <2>3
  <2> QED BY <2>1, <2>2, <2>4, <2>5, Zenon
<1>8. ASSUME NEW k \in DOMAIN G
      PROVE  LET c == G[k]
                 Inside == {j \in DOMAIN memory : memory[j].time \div TickInterval
                                                = c.timestamp \div TickInterval}
                 PricesIn == {memory[j].price : j \in Inside} IN
             /\ c.volume = Ticks!Cardinality(Inside)
             /\ c.high = Ticks!Max(PricesIn) /\ c.low = Ticks!Min(PricesIn)
             /\ c.open = memory[Ticks!Min(Inside)].price /\ c.close = memory[Ticks!Max(Inside)].price
  <2> DEFINE i == from + k - 1
  <2>1. i \in 1..Len(s) /\ G[k] = s[i]
    BY <1>6, <1>8
  <2> HIDE DEF i
  <2>2. PICK a, b : Covers(s[i], memory, Len(memory), a, b)
    BY <1>1, <2>1 DEF Drawn
  <2>3. G[k] \in Candle /\ Covers(G[k], memory, Len(memory), a, b)
    BY <1>3, <2>1, <2>2
  <2> DEFINE c == G[k]
  <2>4. c \in Candle /\ Covers(c, memory, Len(memory), a, b)
    BY <2>3
  <2> HIDE DEF c
  <2>5. LET Inside == {j \in DOMAIN memory : Slot(memory[j].time) = Slot(c.timestamp)}
            PricesIn == {memory[j].price : j \in Inside} IN
        /\ c.volume = Ticks!Cardinality(Inside)
        /\ c.high = Ticks!Max(PricesIn) /\ c.low = Ticks!Min(PricesIn)
        /\ c.open = memory[Ticks!Min(Inside)].price /\ c.close = memory[Ticks!Max(Inside)].price
    BY <1>3, <2>4, CandlePrices
  <2> QED BY <2>5, Zenon DEF c, Slot
<1>9. memory # << >> => G[Len(G)].timestamp \div TickInterval
                          = memory[Len(memory)].time \div TickInterval
  <2> SUFFICES ASSUME memory # << >>
               PROVE  Slot(G[Len(G)].timestamp) = Slot(memory[Len(memory)].time)
    BY DEF Slot
  <2>1. Len(memory) > 0 /\ Len(s) > 0
    BY <1>0, <1>3
  <2>2. Len(G) \in 1..Len(G)
    BY <1>3, <1>4, <1>6, <2>1
  <2>3. G[Len(G)] = s[Len(s)]
    BY <1>6, <2>2
  <2> QED BY <1>1, <2>1, <2>3 DEF Drawn
<1> QED BY <1>7, <1>8, <1>9, Zenon DEF G, Ticks!CandlesAreRight

-----------------------------------------------------------------------------
(* All of them                                                             *)

\* A service takes a step of its own, while the others stand still.
LEMMA OneMoves ==
  ASSUME [Next]_vars
  PROVE  /\ Bus!Next \/ UNCHANGED bus_vars
         /\ Ticks!Next \/ UNCHANGED ticks_vars
BY DEF Next, vars, OracleMoves, OverwatchMoves, AuditMoves, ShutdownMoves, CapitalMoves,
       EngineMoves, ScannerMoves, ProcessManagerMoves, OFIEngineMoves, MessageBusMoves,
       TickBufferMoves, HotReloaderMoves, ArchiverMoves, ErrorLogMoves, TAFallbackMoves,
       OutcomesMove

\* The transports, for any topics, tasks, sizes and bounds.  Subscribers receive in the order of
\* publication, and every message is received, lost or in one place.  Every tick of the buffer is in
\* one place, a Redis list exceeds its limit only by pushes still to be trimmed, and the :latest
\* key is its head once no call failed or met another.  While ticks come in the order of their
\* times, get_ohlcv() draws exactly the candles of the last intervals traded in.
THEOREM ServicesTransport == Spec => []TransportInv
<1>1. Init => BusIInv /\ TicksIInv
  BY BusStart, BufferStart, TransportConstants DEF Init
<1>2. BusIInv /\ [Next]_vars => BusIInv'
  BY OneMoves, BusStep, BusStutter, TransportConstants
<1>3. TicksIInv /\ [Next]_vars => TicksIInv'
  BY OneMoves, BufferStep, BufferStutter, TransportConstants
<1>4. BusIInv /\ TicksIInv => TransportInv
  <2> SUFFICES ASSUME BusIInv, TicksIInv PROVE TransportInv
    OBVIOUS
  <2>1. memory \in Seq(Ticks!Ticks)
    BY DEF TicksIInv, BufferTypes
  <2>2. Ticks!CandlesAreRight
    BY <2>1, OhlcvRight, TransportConstants
  <2> QED BY <2>2, BusProperties, BufferProperties, TransportConstants, Zenon DEF TransportInv
<1> QED BY <1>1, <1>2, <1>3, <1>4, PTL DEF Spec
=============================================================================
