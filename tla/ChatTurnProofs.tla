---------------------------- MODULE ChatTurnProofs ----------------------------
(***************************************************************************)
(* Proofs about ChatTurn, for channels of any capacity, any step limit and *)
(* number of retries, and any number of parts: what persistTurn stores is  *)
(* the whole of one finished response with a result for every call, and    *)
(* the prompt a tool waits on is not lost.                                 *)
(*                                                                         *)
(* None of the three is inductive.  Between the provider's goroutine and   *)
(* the loop a response is in two places: what consumeStream has read       *)
(* (assistant) and what is still in the channel.  Read says that the two   *)
(* together are what was said, up to a message_end that at most one        *)
(* flushed text follows, and that a channel closed without one means       *)
(* either the provider's own end or a context that is done, which is why   *)
(* Persist, whose transaction fails under a done context, stores whole     *)
(* responses only.  Numbered and Answering are what the order of the results rests   *)
(* on.                                                                     *)
(***************************************************************************)
EXTENDS ChatTurn, TLAPS

Reading == {"next", "tool", "emit", "wait"}
Asking  == {"tool", "emit", "wait"}
Whole   == {"end", "calls"}

\* The control state of the loop.
LoopSound ==
    /\ handler = "request" => run = "start"
    /\ ~Returned => step < StepLimit
    /\ run \in {"start", "chat"} => assistant = <<>> /\ results = <<>>
    /\ run \in Reading => ~stream.cancelled
    /\ run \in Asking => assistant # <<>> /\ assistant[Len(assistant)].kind # "text"
    /\ run = "close" => cause # "none"
    /\ run = "persist" => cause \in Whole

\* The parts of a response are numbered in the order they were said.
Numbered ==
    /\ \A i \in 1..Len(stream.said) : stream.said[i].n <= parts
    /\ \A i, k \in 1..Len(stream.said) :
         i < k /\ stream.said[k] \in Part => stream.said[i].n < stream.said[k].n

\* The k-th thing said was the provider's end: a text may follow, flushed by a
\* goroutine that is done.
Closing(k) ==
    /\ Len(stream.said) \in k..(k + 1)
    /\ stream.feed = "last" => Len(stream.said) = k
    /\ Len(stream.said) = k + 1 => stream.said[k + 1].kind = "text"

\* What was said is what was read and the first m entries of the channel, and
\* then the end, unless it is still to come or was given up.
Read(m) ==
    /\ m <= Len(stream.ch)
    /\ Len(assistant) + m <= Len(stream.said)
    /\ \A i \in 1..Len(assistant) : stream.said[i] = assistant[i]
    /\ \A i \in 1..m : stream.said[Len(assistant) + i] = stream.ch[i]
    /\ \A i \in 1..m : stream.ch[i] \in Part
    /\ m < Len(stream.ch) =>
         /\ stream.feed # "open"
         /\ stream.ch[m + 1] \in End
         /\ stream.ch[m + 1].kind = "finish" => stream.ended
         /\ stream.said[Len(assistant) + m + 1] = stream.ch[m + 1]
         /\ Closing(Len(assistant) + m + 1)
    /\ m = Len(stream.ch) =>
         /\ stream.feed # "last"
         /\ Len(stream.said) = Len(assistant) + m \/ (ctxDone /\ stream.feed = "closed")
         /\ stream.feed = "closed" => stream.failed \/ stream.ended \/ ctxDone

\* ... and a response that ended was read to its end.
WholeSound ==
    /\ run \in Reading => \E m \in 0..Len(stream.ch) : Read(m)
    /\ run \in {"close", "persist"} /\ cause \in Whole =>
         /\ stream.feed # "open"
         /\ \/ ctxDone
            \/ /\ stream.ended
               /\ UpToEnd(assistant, stream.said)
               /\ stream.feed = "last" => Len(stream.said) = Len(assistant) + 1

\* Every call read so far is answered, except the one a tool is working on.
Answering ==
    /\ run \in {"next", "close", "persist"} => Answers(assistant, Len(assistant), results)
    /\ run \in Asking => Answers(assistant, Len(assistant) - 1, results)

Prompted ==
    run = "wait" /\ handler = "select" =>
        \/ assistant[Len(assistant)].n \in sent
        \/ \E i \in 1..Len(events) : events[i] = assistant[Len(assistant)].n

IInv == /\ TypeOK
        /\ LoopSound
        /\ Numbered
        /\ WholeSound
        /\ Answering
        /\ Prompted
        /\ OnlyWholeResponsesStored
        /\ StoredCallsAnswered

-----------------------------------------------------------------------------
(* The provider's goroutine                                                *)

\* What one of its steps may do: send a part, send the end of the message,
\* send held text after that end, give up sending, or return.
Says == \E p \in Part :
    /\ stream.feed = "open"
    /\ parts' = parts + 1 /\ p.n = parts'
    /\ stream'.ch = Append(stream.ch, p)
    /\ stream'.said = Append(stream.said, p)
    /\ stream'.feed \in {"open", "closed"}
    /\ stream'.feed = "closed" => stream'.ended \/ Cancelled
SaysEnd == \E e \in End :
    /\ stream.feed = "open"
    /\ parts' = parts
    /\ stream'.ch = Append(stream.ch, e)
    /\ stream'.said = Append(stream.said, e)
    /\ stream'.feed = "last"
    /\ e.kind = "finish" => stream'.ended
Flushes == \E p \in Part :
    /\ stream.feed = "last"
    /\ parts' = parts + 1 /\ p.n = parts' /\ p.kind = "text"
    /\ stream'.ch = Append(stream.ch, p)
    /\ stream'.said = Append(stream.said, p)
    /\ stream'.feed = "closed"
    /\ stream.ended => stream'.ended
GivesUp == \E p \in Part \cup End :
    /\ Cancelled
    /\ stream.feed # "closed"
    /\ \/ p \in Part /\ parts' = parts + 1 /\ p.n = parts'
       \/ p \in End /\ parts' = parts
    /\ stream.feed = "last" => p.kind = "text"
    /\ stream'.ch = stream.ch
    /\ stream'.said = Append(stream.said, p)
    /\ stream'.feed = "closed"
    /\ stream'.ended = stream.ended
Quits ==
    /\ stream.feed # "closed"
    /\ parts' = parts
    /\ stream'.ch = stream.ch
    /\ stream'.said = stream.said
    /\ stream'.feed = "closed"
    /\ stream.feed = "open" => stream'.ended \/ Cancelled
    /\ stream.feed = "last" => (stream.ended => stream'.ended)

Fed == /\ stream' \in Stream /\ Len(stream'.ch) <= StreamCap
       /\ parts' \in 0..MaxParts
       /\ stream'.failed = stream.failed /\ stream'.cancelled = stream.cancelled
       /\ UNCHANGED <<origin, ctxDone, events, http, loop>>
       /\ Says \/ SaysEnd \/ Flushes \/ GivesUp \/ Quits

LEMMA RowsKept ==
  ASSUME IInv, UNCHANGED rows
  PROVE  OnlyWholeResponsesStored' /\ StoredCallsAnswered'
<1>1. OnlyWholeResponsesStored'
  BY DEF IInv, OnlyWholeResponsesStored
<1>2. StoredCallsAnswered'
  BY DEF IInv, StoredCallsAnswered, Answers
<1> QED
  BY <1>1, <1>2

LEMMA PartEnd == /\ \A p \in Part : p.kind \in {"text", "plain", "ask"} /\ p.n \in 1..MaxParts
                 /\ \A e \in End : e.kind \in {"finish", "error"}
                 /\ Part \cap End = {}
  BY DEF Part, End

LEMMA SendFacts ==
  ASSUME TypeOK, NEW out \in Part \cup End, NEW f \in {"open", "last", "closed"},
         NEW b \in BOOLEAN, Send(out, f, b)
  PROVE  /\ stream' \in Stream /\ Len(stream'.ch) <= StreamCap
         /\ stream'.failed = stream.failed /\ stream'.cancelled = stream.cancelled
         /\ stream'.said = Append(stream.said, out)
         /\ \/ /\ stream'.ch = Append(stream.ch, out)
               /\ stream'.feed = f /\ stream'.ended = b
            \/ /\ Cancelled /\ stream'.ch = stream.ch
               /\ stream'.feed = "closed" /\ stream'.ended = stream.ended
<1> DEFINE s == stream
<1>1. s \in Stream /\ Len(s.ch) <= StreamCap /\ StreamCap \in Nat
  BY TurnConstants DEF TypeOK
<1>2. s.ch \in Seq(Part \cup End) /\ s.said \in Seq(Part \cup End)
  BY <1>1 DEF Stream
<1> DEFINE told == Append(s.said, out)
           full == Append(s.ch, out)
<1>3. told \in Seq(Part \cup End) /\ full \in Seq(Part \cup End) /\ Len(full) = Len(s.ch) + 1
  BY <1>2
<1>4. CASE /\ Len(s.ch) < StreamCap
           /\ stream' = [s EXCEPT !.ch = full, !.said = told, !.feed = f, !.ended = b]
  <2>1. Len(full) <= StreamCap
    BY <1>1, <1>2, <1>3, <1>4
  <2> HIDE DEF told, full
  <2>2. /\ stream' \in Stream /\ stream'.ch = full /\ stream'.said = told
        /\ stream'.feed = f /\ stream'.ended = b
        /\ stream'.failed = s.failed /\ stream'.cancelled = s.cancelled
    BY <1>1, <1>3, <1>4 DEF Stream
  <2> QED
    BY <2>1, <2>2 DEF told, full
<1>5. CASE Cancelled /\ stream' = [s EXCEPT !.said = told, !.feed = "closed"]
  <2> HIDE DEF told
  <2>2. /\ stream' \in Stream /\ stream'.ch = s.ch /\ stream'.said = told
        /\ stream'.feed = "closed" /\ stream'.ended = s.ended
        /\ stream'.failed = s.failed /\ stream'.cancelled = s.cancelled
    BY <1>1, <1>3, <1>5 DEF Stream
  <2> QED
    BY <1>1, <1>5, <2>2 DEF told
<1> QED
  BY <1>4, <1>5 DEF Send

LEMMA FeedFacts == TypeOK /\ FeedStep => Fed
<1> SUFFICES ASSUME TypeOK, FeedStep PROVE Fed
  OBVIOUS
<1> DEFINE s == stream
<1>t. /\ s \in Stream /\ Len(s.ch) <= StreamCap /\ parts \in 0..MaxParts
      /\ MaxParts \in Nat /\ StreamCap \in Nat
  BY TurnConstants DEF TypeOK
<1>s. /\ s.ch \in Seq(Part \cup End) /\ s.said \in Seq(Part \cup End)
      /\ s.feed \in {"open", "last", "closed"}
      /\ s.failed \in BOOLEAN /\ s.cancelled \in BOOLEAN /\ s.ended \in BOOLEAN
  BY <1>t DEF Stream
<1>1. CASE FeedPart
  <2>1. PICK p \in Part : Send(p, "open", s.ended) /\ p.n = parts + 1
    <3>1. PICK k \in {"text", "plain", "ask"} :
            Send([kind |-> k, n |-> parts + 1], "open", s.ended)
      BY <1>1 DEF FeedPart
    <3>2. [kind |-> k, n |-> parts + 1] \in Part
      BY <1>1, <1>t DEF Part, FeedPart
    <3> QED
      BY <3>1, <3>2
  <2>2. s.feed = "open" /\ parts' = parts + 1 /\ parts' \in 0..MaxParts
        /\ UNCHANGED <<origin, ctxDone, events, http, loop>>
    BY <1>1, <1>t DEF FeedPart
  <2>3. /\ stream' \in Stream /\ Len(stream'.ch) <= StreamCap
        /\ stream'.failed = s.failed /\ stream'.cancelled = s.cancelled
        /\ stream'.said = Append(s.said, p)
        /\ \/ /\ stream'.ch = Append(s.ch, p)
              /\ stream'.feed = "open" /\ stream'.ended = s.ended
           \/ /\ Cancelled /\ stream'.ch = s.ch
              /\ stream'.feed = "closed" /\ stream'.ended = s.ended
    BY <2>1, <1>s, SendFacts
  <2>4. Says \/ GivesUp
    BY <2>1, <2>2, <2>3 DEF Says, GivesUp
  <2> QED
    BY <2>2, <2>3, <2>4 DEF Fed
<1>2. CASE FeedEnd
  <2>1. PICK e \in End : Send(e, "last", e.kind = "finish")
    BY <1>2 DEF FeedEnd
  <2>2. s.feed = "open" /\ parts' = parts
        /\ UNCHANGED <<origin, ctxDone, events, http, loop>>
    BY <1>2 DEF FeedEnd
  <2> DEFINE fin == e.kind = "finish"
  <2>3. fin \in BOOLEAN /\ Send(e, "last", fin) /\ (e.kind = "finish" => fin)
    BY <2>1
  <2> HIDE DEF fin
  <2>4. /\ stream' \in Stream /\ Len(stream'.ch) <= StreamCap
        /\ stream'.failed = s.failed /\ stream'.cancelled = s.cancelled
        /\ stream'.said = Append(s.said, e)
        /\ \/ /\ stream'.ch = Append(s.ch, e)
              /\ stream'.feed = "last" /\ stream'.ended = fin
           \/ /\ Cancelled /\ stream'.ch = s.ch
              /\ stream'.feed = "closed" /\ stream'.ended = s.ended
    BY <2>3, SendFacts
  <2>5. SaysEnd \/ GivesUp
    BY <2>2, <2>3, <2>4 DEF SaysEnd, GivesUp
  <2> QED
    BY <2>2, <2>4, <2>5, <1>t DEF Fed
<1>3. CASE FeedFlush
  <2> DEFINE held == [kind |-> "text", n |-> parts + 1]
             done == s.ended \/ (s.feed = "open" /\ ~Cancelled)
  <2>1. held \in Part /\ held.n = parts + 1 /\ held.kind = "text"
    BY <1>3, <1>t DEF FeedFlush, Part
  <2>2. s.feed # "closed" /\ parts' = parts + 1 /\ parts' \in 0..MaxParts
        /\ UNCHANGED <<origin, ctxDone, events, http, loop>>
    BY <1>3, <1>t DEF FeedFlush
  <2>3. Send(held, "closed", done) /\ done \in BOOLEAN
    BY <1>3 DEF FeedFlush
  <2>4. (s.feed = "open" => done \/ Cancelled) /\ (s.ended => done)
    OBVIOUS
  <2> HIDE DEF held, done
  <2>5. /\ stream' \in Stream /\ Len(stream'.ch) <= StreamCap
        /\ stream'.failed = s.failed /\ stream'.cancelled = s.cancelled
        /\ stream'.said = Append(s.said, held)
        /\ \/ /\ stream'.ch = Append(s.ch, held)
              /\ stream'.feed = "closed" /\ stream'.ended = done
           \/ /\ Cancelled /\ stream'.ch = s.ch
              /\ stream'.feed = "closed" /\ stream'.ended = s.ended
    BY <2>1, <2>3, SendFacts
  <2>6. CASE s.feed = "open"
    <3>1. Says \/ GivesUp
      BY <2>1, <2>2, <2>4, <2>5, <2>6 DEF Says, GivesUp
    <3> QED
      BY <2>2, <2>5, <3>1 DEF Fed
  <2>7. CASE s.feed = "last"
    <3>1. Flushes \/ GivesUp
      BY <2>1, <2>2, <2>4, <2>5, <2>7 DEF Flushes, GivesUp
    <3> QED
      BY <2>2, <2>5, <3>1 DEF Fed
  <2> QED
    BY <2>2, <2>6, <2>7, <1>s
<1>4. CASE FeedReturns
  <2> DEFINE done == s.ended \/ (~Cancelled /\ s.feed = "open")
  <2>1. /\ s.feed # "closed" /\ parts' = parts
        /\ UNCHANGED <<origin, ctxDone, events, http, loop>>
        /\ stream' = [s EXCEPT !.feed = "closed", !.ended = done]
    BY <1>4, <1>s DEF FeedReturns
  <2>2. done \in BOOLEAN
    OBVIOUS
  <2>3. (s.feed = "open" => done \/ Cancelled) /\ (s.ended => done)
    OBVIOUS
  <2> HIDE DEF done
  <2>4. stream' \in Stream
    BY <2>1, <2>2, <1>t, <1>s DEF Stream
  <2>5. /\ stream'.feed = "closed" /\ stream'.ch = s.ch /\ stream'.said = s.said
        /\ stream'.failed = s.failed /\ stream'.cancelled = s.cancelled
        /\ stream'.ended = done
    BY <2>1, <1>t, <1>s DEF Stream
  <2>6. Quits
    BY <2>5, <2>1, <2>3 DEF Quits
  <2> QED
    BY <2>4, <2>5, <2>6, <2>1, <1>t DEF Fed
<1> QED
  BY <1>1, <1>2, <1>3, <1>4 DEF FeedStep

LEMMA FeedTyped == TypeOK /\ Fed => TypeOK'
  BY TurnConstants DEF TypeOK, Fed, http, loop

LEMMA FeedNumbered == TypeOK /\ Numbered /\ Fed => Numbered'
<1> SUFFICES ASSUME TypeOK, Numbered, Fed PROVE Numbered'
  OBVIOUS
<1>1. stream.said \in Seq(Part \cup End) /\ parts \in Nat /\ MaxParts \in Nat
  BY TurnConstants DEF TypeOK, Stream
<1> DEFINE b == stream.said
           d == stream'.said
<1>2. Len(b) \in Nat /\ \A i \in 1..Len(b) : b[i].n \in Nat
  BY <1>1 DEF Part, End
<1>3. \A i \in 1..Len(b) : b[i].n <= parts
  BY DEF Numbered
<1>4. \A i, k \in 1..Len(b) : i < k /\ b[k] \in Part => b[i].n < b[k].n
  BY DEF Numbered
<1>5. ASSUME NEW p \in Part \cup End, d = Append(b, p),
             \/ p \in Part /\ parts' = parts + 1 /\ p.n = parts'
             \/ p \in End /\ parts' = parts
      PROVE  Numbered'
  <2>1. /\ Len(d) = Len(b) + 1 /\ d[Len(b) + 1] = p
        /\ \A i \in 1..Len(b) : d[i] = b[i]
    BY <1>5, <1>1
  <2>2. p.n \in Nat /\ p.n <= parts' /\ parts <= parts' /\ (p \in Part => parts < p.n)
    <3>1. CASE p \in Part /\ parts' = parts + 1 /\ p.n = parts'
      BY <3>1, <1>1
    <3>2. CASE p \in End /\ parts' = parts
      <4>1. p.n = 0 /\ p \notin Part
        BY <3>2, PartEnd DEF End
      <4> QED
        BY <4>1, <3>2, <1>1
    <3> QED
      BY <3>1, <3>2, <1>5
  <2>p. parts' \in Nat
    BY <1>5, <1>1
  <2> HIDE DEF b, d
  <2>3. \A i \in 1..Len(d) : d[i].n <= parts'
    <3> SUFFICES ASSUME NEW i \in 1..Len(d) PROVE d[i].n <= parts'
      OBVIOUS
    <3>1. CASE i \in 1..Len(b)
      BY <3>1, <2>1, <2>2, <2>p, <1>1, <1>2, <1>3
    <3>2. CASE i = Len(b) + 1
      BY <3>2, <2>1, <2>2
    <3> QED
      BY <3>1, <3>2, <2>1, <1>2
  <2>4. \A i, k \in 1..Len(d) : i < k /\ d[k] \in Part => d[i].n < d[k].n
    <3> SUFFICES ASSUME NEW i \in 1..Len(d), NEW k \in 1..Len(d), i < k, d[k] \in Part
                 PROVE  d[i].n < d[k].n
      OBVIOUS
    <3>1. i \in 1..Len(b) /\ d[i] = b[i] /\ b[i].n \in Nat
      BY <2>1, <1>2
    <3>2. CASE k \in 1..Len(b)
      BY <3>1, <3>2, <2>1, <1>4
    <3>3. CASE k = Len(b) + 1
      <4>1. p \in Part /\ d[k] = p
        BY <3>3, <2>1
      <4>2. parts < p.n /\ b[i].n <= parts
        BY <4>1, <2>2, <3>1, <1>3
      <4>3. \A x, y, z \in Nat : x <= y /\ y < z => x < z
        OBVIOUS
      <4>4. b[i].n < p.n
        BY <4>2, <4>3, <3>1, <2>2, <1>1
      <4> QED
        BY <4>1, <4>4, <3>1
    <3>4. k \in 1..Len(b) \/ k = Len(b) + 1
      BY <2>1, <1>2
    <3> QED
      BY <3>2, <3>3, <3>4, Zenon
  <2> QED
    BY <2>3, <2>4 DEF Numbered, d
<1>6. CASE Says
  BY <1>5, <1>6 DEF Says
<1>7. CASE SaysEnd
  BY <1>5, <1>7 DEF SaysEnd
<1>8. CASE Flushes
  BY <1>5, <1>8 DEF Flushes
<1>9. CASE GivesUp
  BY <1>5, <1>9 DEF GivesUp
<1>10. CASE Quits
  <2>1. stream'.said = stream.said /\ parts' = parts
    BY <1>10 DEF Quits
  <2> QED
    BY <2>1 DEF Numbered
<1> QED
  BY <1>6, <1>7, <1>8, <1>9, <1>10 DEF Fed

\* One thing more is said: what was read and sent before stays where it was.
LEMMA SaidGrows ==
  ASSUME TypeOK, NEW m \in Nat, Read(m), NEW p \in Part \cup End,
         stream'.said = Append(stream.said, p)
  PROVE  /\ Len(stream'.said) = Len(stream.said) + 1
         /\ stream'.said[Len(stream.said) + 1] = p
         /\ Len(stream.said) \in Nat /\ Len(assistant) \in Nat
         /\ \A i \in 1..Len(stream.said) : stream'.said[i] = stream.said[i]
         /\ \A i \in 1..Len(assistant) : stream'.said[i] = assistant[i]
         /\ \A i \in 1..m : stream'.said[Len(assistant) + i] = stream.ch[i]
<1>1. stream.said \in Seq(Part \cup End) /\ assistant \in Seq(Part)
  BY DEF TypeOK, Stream
<1>2. /\ Len(stream'.said) = Len(stream.said) + 1
      /\ stream'.said[Len(stream.said) + 1] = p
      /\ Len(stream.said) \in Nat /\ Len(assistant) \in Nat
      /\ \A i \in 1..Len(stream.said) : stream'.said[i] = stream.said[i]
  BY <1>1
<1>3. Len(assistant) + m <= Len(stream.said)
  BY DEF Read
<1>4. \A i \in 1..Len(assistant) : stream'.said[i] = assistant[i]
  <2> SUFFICES ASSUME NEW i \in 1..Len(assistant) PROVE stream'.said[i] = assistant[i]
    OBVIOUS
  <2>1. i \in 1..Len(stream.said)
    BY <1>2, <1>3
  <2>2. stream.said[i] = assistant[i]
    BY DEF Read
  <2> QED
    BY <2>1, <2>2, <1>2
<1>5. \A i \in 1..m : stream'.said[Len(assistant) + i] = stream.ch[i]
  <2> SUFFICES ASSUME NEW i \in 1..m PROVE stream'.said[Len(assistant) + i] = stream.ch[i]
    OBVIOUS
  <2>1. Len(assistant) + i \in 1..Len(stream.said)
    BY <1>2, <1>3
  <2>2. stream.said[Len(assistant) + i] = stream.ch[i]
    BY DEF Read
  <2> QED
    BY <2>1, <2>2, <1>2
<1> QED
  BY <1>2, <1>4, <1>5

LEMMA SaysRead ==
  ASSUME TypeOK, Fed, Says, ~stream.cancelled, NEW m \in 0..Len(stream.ch), Read(m)
  PROVE  \E k \in 0..Len(stream'.ch) : Read(k)'
<1>0. /\ stream.ch \in Seq(Part \cup End) /\ Len(stream.ch) \in Nat /\ m \in Nat
      /\ UNCHANGED <<assistant, ctxDone>>
  BY DEF TypeOK, Stream, Fed, loop
<1>1. m = Len(stream.ch)
  BY <1>0 DEF Read, Says
<1>2. PICK p \in Part : /\ stream'.ch = Append(stream.ch, p)
                        /\ stream'.said = Append(stream.said, p)
                        /\ stream'.feed \in {"open", "closed"}
                        /\ (stream'.feed = "closed" => stream'.ended \/ Cancelled)
  BY DEF Says
<1>3. /\ Len(stream'.ch) = m + 1 /\ stream'.ch[m + 1] = p
      /\ \A i \in 1..m : stream'.ch[i] = stream.ch[i]
  BY <1>0, <1>1, <1>2
<1>4. /\ Len(stream'.said) = Len(stream.said) + 1
      /\ stream'.said[Len(stream.said) + 1] = p
      /\ Len(stream.said) \in Nat /\ Len(assistant) \in Nat
      /\ \A i \in 1..Len(assistant) : stream'.said[i] = assistant[i]
      /\ \A i \in 1..m : stream'.said[Len(assistant) + i] = stream.ch[i]
  BY <1>0, <1>2, SaidGrows
<1>5. stream'.feed = "closed" => (stream'.ended \/ ctxDone)
  BY <1>2 DEF Cancelled
<1>6. PICK k \in Nat : k = m + 1
  BY <1>0
<1>7. Len(stream.said) = Len(assistant) + m
  BY <1>1 DEF Read, Says
<1>8. CASE Len(stream.said) = Len(assistant) + m
  <2>1. Len(stream'.said) = Len(assistant) + k /\ stream'.said[Len(assistant) + k] = p
    <3>1. Len(stream.said) + 1 = Len(assistant) + k
      BY <1>0, <1>4, <1>6, <1>8
    <3> QED
      BY <3>1, <1>4
  <2>2. \A i \in 1..k : stream'.said[Len(assistant) + i] = stream'.ch[i]
    <3> SUFFICES ASSUME NEW i \in 1..k
                 PROVE  stream'.said[Len(assistant) + i] = stream'.ch[i]
      OBVIOUS
    <3>1. CASE i = k
      BY <3>1, <2>1, <1>3, <1>6
    <3>2. CASE i \in 1..m
      BY <3>2, <1>3, <1>4
    <3> QED
      BY <3>1, <3>2, <1>0, <1>6
  <2>3. \A i \in 1..k : stream'.ch[i] \in Part
    <3>1. \A i \in 1..m : stream.ch[i] \in Part
      BY DEF Read
    <3> QED
      BY <3>1, <1>0, <1>3, <1>6
  <2>4. k = Len(stream'.ch) /\ k \in 0..Len(stream'.ch)
    BY <1>3, <1>6
  <2>5. stream'.feed # "last" /\ (stream'.feed = "closed" => stream'.ended \/ ctxDone')
    BY <1>0, <1>2, <1>5
  <2>6. ~(k < Len(stream'.ch)) /\ k <= Len(stream'.ch) /\ Len(assistant') + k <= Len(stream'.said)
    BY <1>0, <1>4, <2>1, <2>4
  <2>7. \A i \in 1..Len(assistant') : stream'.said[i] = assistant'[i]
    BY <1>0, <1>4
  <2>8. Read(k)'
    BY <1>0, <2>1, <2>2, <2>3, <2>4, <2>5, <2>6, <2>7, Zenon DEF Read
  <2> QED
    BY <2>4, <2>8
<1> QED
  BY <1>7, <1>8

LEMMA EndRead ==
  ASSUME TypeOK, Fed, SaysEnd, NEW m \in 0..Len(stream.ch), Read(m)
  PROVE  \E k \in 0..Len(stream'.ch) : Read(k)'
<1>0. /\ stream.ch \in Seq(Part \cup End) /\ Len(stream.ch) \in Nat /\ m \in Nat
      /\ UNCHANGED <<assistant, ctxDone>>
  BY DEF TypeOK, Stream, Fed, loop
<1>1. m = Len(stream.ch)
  BY <1>0 DEF Read, SaysEnd
<1>2. PICK e \in End : /\ stream'.ch = Append(stream.ch, e)
                       /\ stream'.said = Append(stream.said, e)
                       /\ stream'.feed = "last"
                       /\ (e.kind = "finish" => stream'.ended)
  BY DEF SaysEnd
<1>3. /\ Len(stream'.ch) = m + 1 /\ stream'.ch[m + 1] = e
      /\ \A i \in 1..m : stream'.ch[i] = stream.ch[i]
  BY <1>0, <1>1, <1>2
<1>4. /\ Len(stream'.said) = Len(stream.said) + 1
      /\ stream'.said[Len(stream.said) + 1] = e
      /\ Len(stream.said) \in Nat /\ Len(assistant) \in Nat
      /\ \A i \in 1..Len(assistant) : stream'.said[i] = assistant[i]
      /\ \A i \in 1..m : stream'.said[Len(assistant) + i] = stream.ch[i]
  BY <1>0, <1>2, SaidGrows
<1>5. Len(stream.said) = Len(assistant) + m
  BY <1>1 DEF Read, SaysEnd
<1>6. PICK h \in Nat : h = Len(assistant) + m + 1
  BY <1>0, <1>4
<1>7. Len(stream'.said) = h /\ stream'.said[h] = e
  BY <1>4, <1>5, <1>6
<1>8. Closing(h)'
  BY <1>2, <1>7 DEF Closing
<1>9. \A i \in 1..m : stream'.said[Len(assistant) + i] = stream'.ch[i]
  BY <1>3, <1>4
<1>10. \A i \in 1..m : stream'.ch[i] \in Part
  BY <1>3 DEF Read
<1>11. /\ m < Len(stream'.ch) /\ ~(m = Len(stream'.ch)) /\ m <= Len(stream'.ch)
       /\ m \in 0..Len(stream'.ch) /\ Len(assistant) + m <= Len(stream'.said)
  BY <1>0, <1>3, <1>4, <1>6, <1>7
<1>12. /\ Len(assistant') + m + 1 = h /\ stream'.feed # "open"
       /\ stream'.ch[m + 1] \in End
       /\ (stream'.ch[m + 1].kind = "finish" => stream'.ended)
       /\ stream'.said[h] = stream'.ch[m + 1]
  BY <1>0, <1>2, <1>3, <1>6, <1>7
<1>13. Read(m)'
  BY <1>0, <1>4, <1>8, <1>9, <1>10, <1>11, <1>12 DEF Read
<1> QED
  BY <1>11, <1>13

\* After the end: a text may be sent or given up, or nothing more comes.
LEMMA ClosingKept ==
  ASSUME TypeOK, Flushes \/ GivesUp \/ Quits, stream.feed = "last",
         NEW h \in Nat, Closing(h)
  PROVE  Closing(h)' /\ stream'.feed = "closed" /\ (stream.ended => stream'.ended)
<1>0. stream.said \in Seq(Part \cup End) /\ Len(stream.said) = h
  BY DEF TypeOK, Stream, Closing
<1>1. CASE Quits
  BY <1>0, <1>1 DEF Quits, Closing
<1>2. CASE Flushes \/ GivesUp
  <2>1. PICK p \in Part \cup End : /\ stream'.said = Append(stream.said, p) /\ p.kind = "text"
                                 /\ stream'.feed = "closed"
                                 /\ (stream.ended => stream'.ended)
    BY <1>2 DEF Flushes, GivesUp
  <2>2. Len(stream'.said) = h + 1 /\ stream'.said[h + 1] = p
    BY <1>0, <2>1
  <2> QED
    BY <2>1, <2>2 DEF Closing
<1> QED
  BY <1>1, <1>2

LEMMA LastRead ==
  ASSUME TypeOK, Fed, Flushes \/ GivesUp \/ Quits, ~stream.cancelled,
         NEW m \in 0..Len(stream.ch), Read(m)
  PROVE  \E k \in 0..Len(stream'.ch) : Read(k)'
<1>0. /\ stream.ch \in Seq(Part \cup End) /\ Len(stream.ch) \in Nat /\ m \in Nat
      /\ UNCHANGED <<assistant, ctxDone>> /\ stream'.failed = stream.failed
      /\ stream.feed \in {"open", "last", "closed"}
      /\ Len(stream.said) \in Nat /\ Len(assistant) \in Nat
  BY DEF TypeOK, Stream, Fed, loop
<1>1. /\ Len(stream'.said) >= Len(stream.said) /\ Len(stream'.said) \in Nat
      /\ \A i \in 1..Len(stream.said) : stream'.said[i] = stream.said[i]
      /\ \A i \in 1..Len(assistant) : stream'.said[i] = assistant[i]
      /\ \A i \in 1..m : stream'.said[Len(assistant) + i] = stream.ch[i]
  <2>1. CASE Quits
    BY <1>0, <2>1 DEF Quits, Read
  <2>2. CASE Flushes \/ GivesUp
    <3>1. PICK p \in Part \cup End : stream'.said = Append(stream.said, p)
      BY <2>2 DEF Flushes, GivesUp
    <3>2. /\ Len(stream'.said) = Len(stream.said) + 1
          /\ \A i \in 1..Len(stream.said) : stream'.said[i] = stream.said[i]
          /\ \A i \in 1..Len(assistant) : stream'.said[i] = assistant[i]
          /\ \A i \in 1..m : stream'.said[Len(assistant) + i] = stream.ch[i]
      BY <1>0, <3>1, SaidGrows
    <3> QED
      BY <1>0, <3>2
  <2> QED
    BY <2>1, <2>2
<1>2. /\ Len(stream'.ch) \in Nat /\ Len(stream'.ch) >= Len(stream.ch)
      /\ \A i \in 1..Len(stream.ch) : stream'.ch[i] = stream.ch[i]
      /\ stream'.feed = "closed"
  <2>1. CASE Quits \/ GivesUp
    BY <1>0, <2>1 DEF Quits, GivesUp
  <2>2. CASE Flushes
    <3>1. PICK p \in Part : stream'.ch = Append(stream.ch, p)
      BY <2>2 DEF Flushes
    <3> QED
      BY <1>0, <3>1, <2>2 DEF Flushes
  <2> QED
    BY <2>1, <2>2
<1>3. /\ Len(assistant) + m <= Len(stream'.said) /\ m <= Len(stream'.ch)
      /\ \A i \in 1..m : stream'.said[Len(assistant) + i] = stream'.ch[i]
      /\ \A i \in 1..m : stream'.ch[i] \in Part
  <2>1. /\ m <= Len(stream.ch) /\ Len(assistant) + m <= Len(stream.said)
        /\ \A i \in 1..m : stream.ch[i] \in Part
    BY DEF Read
  <2>2. \A i \in 1..m : i \in 1..Len(stream.ch) /\ stream'.ch[i] = stream.ch[i]
    BY <2>1, <1>0, <1>2
  <2>3. Len(assistant) + m <= Len(stream'.said) /\ m <= Len(stream'.ch)
    BY <2>1, <1>0, <1>1, <1>2
  <2>4. \A i \in 1..m : stream'.said[Len(assistant) + i] = stream'.ch[i]
    BY <2>2, <1>1
  <2>5. \A i \in 1..m : stream'.ch[i] \in Part
    BY <2>1, <2>2
  <2> QED
    BY <2>3, <2>4, <2>5
<1>4. CASE m < Len(stream.ch)
  <2>1. PICK h \in Nat : h = Len(assistant) + m + 1
    BY <1>0
  <2>2. /\ stream.feed # "open" /\ stream.ch[m + 1] \in End
        /\ (stream.ch[m + 1].kind = "finish" => stream.ended)
        /\ stream.said[h] = stream.ch[m + 1] /\ Closing(h)
    BY <1>4, <2>1 DEF Read
  <2>3. stream.feed = "last"
    <3>1. stream.feed # "closed"
      BY DEF Flushes, GivesUp, Quits
    <3> QED
      BY <3>1, <2>2, <1>0
  <2>4. Closing(h)' /\ (stream.ended => stream'.ended)
    BY <2>2, <2>3, ClosingKept
  <2>5. m + 1 \in 1..Len(stream.ch) /\ h \in 1..Len(stream.said)
    BY <1>0, <1>4, <2>1, <2>2 DEF Closing
  <2>6. /\ m < Len(stream'.ch) /\ ~(m = Len(stream'.ch)) /\ m \in 0..Len(stream'.ch)
        /\ stream'.ch[m + 1] = stream.ch[m + 1] /\ stream'.said[h] = stream.said[h]
    BY <2>5, <1>0, <1>1, <1>2, <1>4
  <2>7. /\ Len(assistant') + m + 1 = h /\ stream'.feed # "open"
        /\ stream'.ch[m + 1] \in End
        /\ (stream'.ch[m + 1].kind = "finish" => stream'.ended)
        /\ stream'.said[h] = stream'.ch[m + 1]
    BY <1>0, <1>2, <2>1, <2>2, <2>4, <2>6
  <2>8. Read(m)'
    BY <1>0, <1>1, <1>3, <2>4, <2>6, <2>7 DEF Read
  <2> QED
    BY <2>6, <2>8
<1>5. CASE m = Len(stream.ch)
  <2>1. stream.feed = "open" /\ Len(stream.said) = Len(assistant) + m
    <3>1. stream.feed # "closed"
      BY DEF Flushes, GivesUp, Quits
    <3> QED
      BY <1>0, <1>5, <3>1 DEF Read
  <2>2. stream'.ch = stream.ch
    BY <2>1 DEF Flushes, GivesUp, Quits
  <2>3. \/ Len(stream'.said) = Len(assistant) + m /\ (stream'.ended \/ ctxDone)
        \/ ctxDone
    <3>1. CASE Quits
      BY <3>1, <2>1 DEF Quits, Cancelled
    <3>2. CASE GivesUp
      BY <3>2 DEF GivesUp, Cancelled
    <3>3. ~Flushes
      BY <2>1 DEF Flushes
    <3> QED
      BY <3>1, <3>2, <3>3
  <2>4. /\ ~(m < Len(stream'.ch)) /\ m = Len(stream'.ch) /\ m \in 0..Len(stream'.ch)
    BY <1>0, <1>5, <2>2
  <2>5. /\ stream'.feed # "last"
        /\ Len(stream'.said) = Len(assistant') + m \/ (ctxDone' /\ stream'.feed = "closed")
        /\ stream'.ended \/ ctxDone'
    BY <1>0, <1>2, <2>3
  <2>6. Read(m)'
    BY <1>0, <1>1, <1>3, <2>4, <2>5 DEF Read
  <2> QED
    BY <2>4, <2>6
<1> QED
  BY <1>0, <1>4, <1>5

LEMMA FeedWhole == TypeOK /\ LoopSound /\ WholeSound /\ Fed => WholeSound'
<1> SUFFICES ASSUME TypeOK, LoopSound, WholeSound, Fed PROVE WholeSound'
  OBVIOUS
<1>1. UNCHANGED <<run, cause, assistant, ctxDone>>
  BY DEF Fed, loop
<1>2. ASSUME run \in Reading PROVE \E m \in 0..Len(stream'.ch) : Read(m)'
  <2>1. PICK m \in 0..Len(stream.ch) : Read(m)
    BY <1>2 DEF WholeSound
  <2>2. ~stream.cancelled
    BY <1>2 DEF LoopSound
  <2> QED
    BY <2>1, <2>2, SaysRead, EndRead, LastRead DEF Fed
<1>3. ASSUME run \in {"close", "persist"}, cause \in Whole
      PROVE  /\ stream'.feed # "open"
             /\ \/ ctxDone'
                \/ /\ stream'.ended
                   /\ UpToEnd(assistant', stream'.said)
                   /\ stream'.feed = "last" => Len(stream'.said) = Len(assistant') + 1
  <2>1. /\ stream.feed # "open"
        /\ \/ ctxDone
           \/ /\ stream.ended
              /\ UpToEnd(assistant, stream.said)
              /\ stream.feed = "last" => Len(stream.said) = Len(assistant) + 1
    BY <1>3 DEF WholeSound
  <2>2. Flushes \/ GivesUp \/ Quits
    BY <2>1 DEF Fed, Says, SaysEnd
  <2>3. stream.feed = "last" /\ stream'.feed = "closed"
    <3>1. stream.feed \in {"open", "last", "closed"}
      BY DEF TypeOK, Stream
    <3> QED
      BY <2>1, <2>2, <3>1 DEF Flushes, GivesUp, Quits
  <2>4. CASE ctxDone
    BY <1>1, <2>3, <2>4
  <2>5. CASE /\ stream.ended
             /\ UpToEnd(assistant, stream.said)
             /\ Len(stream.said) = Len(assistant) + 1
    <3>1. PICK h \in Nat : h = Len(assistant) + 1
      BY DEF TypeOK
    <3>2. Closing(h)
      BY <3>1, <2>5 DEF Closing
    <3>3. Closing(h)' /\ stream'.ended
      BY <2>2, <2>3, <2>5, <3>2, ClosingKept
    <3>4. /\ stream.said \in Seq(Part \cup End) /\ Len(assistant) \in Nat
          /\ Len(stream.said) = h
      BY <2>5, <3>1 DEF TypeOK, Stream
    <3>5. \A i \in 1..h : stream'.said[i] = stream.said[i]
      <4>1. CASE Quits
        BY <4>1 DEF Quits
      <4>2. CASE Flushes \/ GivesUp
        <5>1. PICK p \in Part \cup End : stream'.said = Append(stream.said, p)
          BY <4>2 DEF Flushes, GivesUp
        <5> QED
          BY <3>4, <5>1
      <4> QED
        BY <2>2, <4>1, <4>2
    <3>6. UpToEnd(assistant, stream'.said)
      <4>1. /\ \A i \in 1..Len(assistant) : stream.said[i] = assistant[i]
            /\ stream.said[h].kind = "finish"
        BY <2>5, <3>1, <3>4 DEF UpToEnd
      <4>2. \A i \in 1..Len(assistant) : stream'.said[i] = assistant[i]
        BY <4>1, <3>1, <3>4, <3>5
      <4>3. stream'.said[h].kind = "finish"
        BY <4>1, <3>1, <3>4, <3>5
      <4>4. /\ Len(stream'.said) \in h..(h + 1)
            /\ Len(stream'.said) = h + 1 => stream'.said[h + 1].kind = "text"
        BY <3>3 DEF Closing
      <4> QED
        BY <4>2, <4>3, <4>4, <3>1, <3>4 DEF UpToEnd
    <3> QED
      BY <1>1, <2>3, <3>3, <3>6
  <2> QED
    BY <2>1, <2>3, <2>4, <2>5
<1> QED
  BY <1>1, <1>2, <1>3 DEF WholeSound

LEMMA FeedOK == IInv /\ FeedStep => IInv'
<1> SUFFICES ASSUME IInv, FeedStep PROVE IInv'
  OBVIOUS
<1>1. Fed
  BY FeedFacts DEF IInv
<1>2. TypeOK' /\ Numbered' /\ WholeSound'
  BY <1>1, FeedTyped, FeedNumbered, FeedWhole DEF IInv
<1>3. LoopSound'
  BY <1>1 DEF IInv, LoopSound, Fed, http, loop, Returned
<1>4. Answering' /\ Prompted'
  BY <1>1 DEF IInv, Answering, Prompted, Fed, http, loop, Answers
<1>5. OnlyWholeResponsesStored' /\ StoredCallsAnswered'
  BY <1>1, RowsKept DEF Fed, loop
<1> QED
  BY <1>2, <1>3, <1>4, <1>5 DEF IInv

-----------------------------------------------------------------------------
(* chatHandler and the client                                              *)

LEMMA ReadKept ==
  ASSUME UNCHANGED <<assistant, stream>>, ctxDone => ctxDone', NEW m, Read(m)
  PROVE  Read(m)'
<1>1. stream' = stream /\ assistant' = assistant
  OBVIOUS
<1>2. \A k : Closing(k) => Closing(k)'
  BY <1>1 DEF Closing
<1>3. /\ m <= Len(stream.ch)
      /\ Len(assistant) + m <= Len(stream.said)
      /\ \A i \in 1..Len(assistant) : stream.said[i] = assistant[i]
      /\ \A i \in 1..m : stream.said[Len(assistant) + i] = stream.ch[i]
      /\ \A i \in 1..m : stream.ch[i] \in Part
  BY DEF Read
<1> QED
  BY <1>1, <1>2, <1>3 DEF Read

\* A step of the handler or the client leaves the loop and the stream alone.
LEMMA LoopUntouched ==
  ASSUME IInv, UNCHANGED <<loop, stream, parts>>, ctxDone => ctxDone',
         handler' = "request" => handler = "request"
  PROVE  /\ LoopSound' /\ Numbered' /\ WholeSound' /\ Answering'
         /\ OnlyWholeResponsesStored' /\ StoredCallsAnswered'
<1>1. UNCHANGED <<run, step, attempt, assistant, results, cause, rows, stream, parts>>
  BY DEF loop
<1>2. LoopSound' /\ Numbered'
  BY <1>1 DEF IInv, LoopSound, Numbered, Returned
<1>3. ASSUME run \in Reading PROVE \E m \in 0..Len(stream'.ch) : Read(m)'
  <2>1. PICK m \in 0..Len(stream.ch) : Read(m)
    BY <1>3 DEF IInv, WholeSound
  <2>2. Read(m)'
    BY <1>1, <2>1, ReadKept
  <2> QED
    BY <1>1, <2>2
<1>4. WholeSound'
  BY <1>1, <1>3 DEF IInv, WholeSound
<1>5. Answering'
  BY <1>1 DEF IInv, Answering, Answers
<1>6. OnlyWholeResponsesStored' /\ StoredCallsAnswered'
  BY <1>1, RowsKept
<1> QED
  BY <1>2, <1>4, <1>5, <1>6

LEMMA ReceiveOK == IInv /\ Receive => IInv'
<1> SUFFICES ASSUME IInv, Receive PROVE IInv'
  OBVIOUS
<1>1. /\ UNCHANGED <<origin, client, events, sent, step, attempt, assistant, results,
                     cause, rows, stream, parts>>
      /\ handler = "request"
      /\ run' \in {"chat", "refused"} /\ handler' \in {"select", "returned"}
  BY DEF Receive
<1>2. ctxDone' \in BOOLEAN
  BY DEF Receive, IInv, TypeOK
<1>3. TypeOK'
  BY <1>1, <1>2 DEF IInv, TypeOK
<1>4. run = "start" /\ assistant = <<>> /\ results = <<>> /\ step < StepLimit
  BY <1>1 DEF IInv, LoopSound, Returned
<1>5. LoopSound'
  BY <1>1, <1>4 DEF LoopSound, Reading, Asking, Returned
<1>6. WholeSound' /\ Answering' /\ Prompted'
  BY <1>1 DEF WholeSound, Answering, Prompted, Reading, Asking
<1>7. Numbered' /\ OnlyWholeResponsesStored' /\ StoredCallsAnswered'
  BY <1>1, RowsKept DEF IInv, Numbered
<1> QED
  BY <1>3, <1>5, <1>6, <1>7 DEF IInv

LEMMA ForwardOK == IInv /\ Forward => IInv'
<1> SUFFICES ASSUME IInv, Forward PROVE IInv'
  OBVIOUS
<1>0. TypeOK
  BY DEF IInv
<1>1. /\ events # <<>> /\ events' = Tail(events)
      /\ sent' = sent \cup ({Head(events)} \ {Other})
      /\ UNCHANGED <<origin, ctxDone, client, handler, loop, stream, parts>>
  BY DEF Forward
<1>2. /\ events \in Seq(Event) /\ Len(events) <= EventCap /\ EventCap \in Nat
      /\ Len(events) \in Nat /\ Len(events) # 0
  BY <1>0, <1>1, TurnConstants DEF TypeOK
<1>3. /\ Tail(events) \in Seq(Event) /\ Len(Tail(events)) = Len(events) - 1
      /\ Head(events) \in Event /\ Head(events) = events[1]
      /\ \A i \in 1..Len(Tail(events)) : Tail(events)[i] = events[i + 1]
  BY <1>1, <1>2
<1>4. events' \in Seq(Event) /\ Len(events') <= EventCap /\ sent' \subseteq Event
  BY <1>0, <1>1, <1>2, <1>3 DEF TypeOK
<1>5. TypeOK'
  BY <1>0, <1>1, <1>4 DEF TypeOK, loop
<1>6. ASSUME run' = "wait", handler' = "select"
      PROVE  \/ assistant'[Len(assistant')].n \in sent'
             \/ \E i \in 1..Len(events') : events'[i] = assistant'[Len(assistant')].n
  <2> DEFINE c == assistant[Len(assistant)].n
  <2>1. run = "wait" /\ handler = "select" /\ assistant' = assistant
    BY <1>1, <1>6 DEF loop
  <2>2. c \in sent \/ \E i \in 1..Len(events) : events[i] = c
    BY <2>1 DEF IInv, Prompted
  <2>3. c \in 1..MaxParts
    <3>1. assistant \in Seq(Part) /\ assistant # <<>>
      BY <2>1, <1>0 DEF IInv, LoopSound, TypeOK, Asking
    <3>2. assistant[Len(assistant)] \in Part
      BY <3>1
    <3> QED
      BY <3>2, PartEnd
  <2>4. c # Other
    BY <2>3, TurnConstants DEF Other
  <2> HIDE DEF c
  <2>5. CASE c \in sent
    BY <2>5, <1>1, <2>1 DEF c
  <2>6. ASSUME NEW i \in 1..Len(events), events[i] = c PROVE c \in sent' \/ \E k \in 1..Len(events') : events'[k] = c
    <3>1. CASE i = 1
      BY <3>1, <2>6, <1>1, <1>3, <2>4
    <3>2. CASE i > 1
      <4>1. i - 1 \in 1..Len(events') /\ events'[i - 1] = events[(i - 1) + 1]
        BY <3>2, <1>1, <1>2, <1>3
      <4>2. events[(i - 1) + 1] = c
        BY <2>6
      <4> QED
        BY <4>1, <4>2
    <3> QED
      BY <3>1, <3>2, <1>2
  <2> QED
    BY <2>1, <2>2, <2>5, <2>6 DEF c
<1>7. Prompted'
  BY <1>6 DEF Prompted
<1>8. ctxDone => ctxDone'
  BY <1>1
<1>9. /\ LoopSound' /\ Numbered' /\ WholeSound' /\ Answering'
      /\ OnlyWholeResponsesStored' /\ StoredCallsAnswered'
  BY <1>1, <1>8, LoopUntouched
<1> QED
  BY <1>5, <1>7, <1>9 DEF IInv

LEMMA HandlerOK ==
  IInv /\ (ForwardFails \/ SeesDisconnect \/ SeesDone \/ Leave \/ Disconnect \/ Over
           \/ UNCHANGED vars) => IInv'
<1> SUFFICES ASSUME IInv, \/ ForwardFails \/ SeesDisconnect \/ SeesDone \/ Leave
                          \/ Disconnect \/ Over \/ UNCHANGED vars
             PROVE  IInv'
  OBVIOUS
<1>0. TypeOK
  BY DEF IInv
<1>1. /\ UNCHANGED <<origin, loop, stream, parts, sent>>
      /\ ctxDone => ctxDone'
      /\ handler' = handler \/ handler' \in {"waitDone", "returned"}
  BY DEF ForwardFails, SeesDisconnect, SeesDone, Leave, Disconnect, Over, vars, http
<1>2. events' = events \/ (events # <<>> /\ events' = Tail(events) /\ handler' = "returned")
  BY DEF ForwardFails, SeesDisconnect, SeesDone, Leave, Disconnect, Over, vars, http
<1>3. events' \in Seq(Event) /\ Len(events') <= EventCap
  <2>1. events \in Seq(Event) /\ Len(events) <= EventCap /\ EventCap \in Nat
    BY <1>0, TurnConstants DEF TypeOK
  <2>2. CASE events # <<>> /\ events' = Tail(events)
    BY <2>1, <2>2
  <2> QED
    BY <1>2, <2>1, <2>2
<1>4. client' \in {"here", "gone"}
  BY <1>0 DEF TypeOK, ForwardFails, SeesDisconnect, SeesDone, Leave, Disconnect, Over, vars, http
<1>5. ctxDone' \in BOOLEAN
  BY <1>0 DEF TypeOK, ForwardFails, SeesDisconnect, SeesDone, Leave, Disconnect, Over, vars, http
<1>6. TypeOK'
  BY <1>0, <1>1, <1>3, <1>4, <1>5 DEF TypeOK, loop
<1>7. Prompted'
  BY <1>1, <1>2 DEF IInv, Prompted, loop
<1>9. /\ LoopSound' /\ Numbered' /\ WholeSound' /\ Answering'
      /\ OnlyWholeResponsesStored' /\ StoredCallsAnswered'
  BY <1>1, LoopUntouched
<1> QED
  BY <1>6, <1>7, <1>9 DEF IInv

-----------------------------------------------------------------------------
(* Runner.Run: reading a response                                          *)

LEMMA EmitTyped ==
  ASSUME TypeOK, NEW e \in Event
  PROVE  Emit(events, e) \in Seq(Event) /\ Len(Emit(events, e)) <= EventCap
<1>1. events \in Seq(Event) /\ Len(events) <= EventCap /\ EventCap \in Nat
  BY TurnConstants DEF TypeOK
<1>2. CASE Len(events) < EventCap
  <2>1. Append(events, e) \in Seq(Event) /\ Len(Append(events, e)) = Len(events) + 1
    BY <1>1
  <2> QED
    BY <1>1, <1>2, <2>1 DEF Emit
<1>3. CASE ~(Len(events) < EventCap)
  BY <1>1, <1>3 DEF Emit
<1> QED
  BY <1>2, <1>3

LEMMA EventKinds == Other \in Event /\ Error \in Event /\ 1..MaxParts \subseteq Event
  BY TurnConstants DEF Event, Other, Error

LEMMA ChatOK == IInv /\ Chat => IInv'
<1> SUFFICES ASSUME IInv, Chat PROVE IInv'
  OBVIOUS
<1>0. TypeOK /\ run = "chat"
  BY DEF IInv, Chat
<1>1. UNCHANGED <<origin, ctxDone, http, step, assistant, results, cause, rows, parts>>
  BY DEF Chat
<1>2. assistant = <<>> /\ results = <<>> /\ step < StepLimit
  BY <1>0 DEF IInv, LoopSound, Returned
<1>3. OnlyWholeResponsesStored' /\ StoredCallsAnswered'
  BY <1>1, RowsKept
<1>4. ASSUME NEW failed \in BOOLEAN,
             stream' = [NoStream EXCEPT !.feed = IF failed THEN "closed" ELSE "open",
                                        !.failed = failed],
             run' = "next", UNCHANGED <<attempt, events>>
      PROVE  IInv'
  <2>1. stream' = [feed |-> IF failed THEN "closed" ELSE "open", ch |-> <<>>, failed |-> failed,
                   cancelled |-> FALSE, said |-> <<>>, ended |-> FALSE]
    BY <1>4, Zenon DEF NoStream
  <2>2. /\ stream'.ch = <<>> /\ stream'.said = <<>> /\ stream'.failed = failed
        /\ stream'.cancelled = FALSE /\ stream'.feed = IF failed THEN "closed" ELSE "open"
    BY <2>1
  <2>3. <<>> \in Seq(Part \cup End) /\ Len(<<>>) = 0
    OBVIOUS
  <2>4. stream' \in Stream
    <3>1. (IF failed THEN "closed" ELSE "open") \in {"open", "last", "closed"}
      OBVIOUS
    <3> QED
      BY <2>1, <2>3, <3>1, Zenon DEF Stream
  <2>5. TypeOK'
    BY <1>0, <1>1, <1>4, <2>2, <2>3, <2>4, TurnConstants DEF TypeOK, http
  <2>6. LoopSound'
    BY <1>0, <1>1, <1>2, <1>4, <2>2 DEF IInv, LoopSound, Returned, Reading, Asking, http
  <2>7. Numbered'
    BY <2>2, <2>3 DEF Numbered
  <2>8. Read(0)'
    <3>1. (stream'.feed = "closed" => stream'.failed) /\ stream'.feed # "last"
      BY <2>2
    <3>2. Len(assistant') = 0 /\ Len(stream'.ch) = 0 /\ Len(stream'.said) = 0
      BY <2>2, <1>1, <1>2, <2>3
    <3> QED
      BY <3>1, <3>2 DEF Read
  <2>9. WholeSound'
    BY <1>4, <2>8, <2>2, <2>3 DEF WholeSound, Reading
  <2>10. Answering' /\ Prompted'
    BY <1>1, <1>2, <1>4, <2>3 DEF Answering, Prompted, Answers, Asking
  <2> QED
    BY <2>5, <2>6, <2>7, <2>9, <2>10, <1>3 DEF IInv
<1>5. CASE /\ stream' = stream
           /\ \/ attempt < MaxRetries /\ attempt' = attempt + 1 /\ run' = run /\ events' = events
              \/ events' = Emit(events, Error) /\ run' = "failed" /\ attempt' = attempt
  <2>1. events' \in Seq(Event) /\ Len(events') <= EventCap
    BY <1>0, <1>5, EmitTyped, EventKinds DEF TypeOK
  <2>2. attempt' \in 0..MaxRetries /\ run' \in {"chat", "failed"}
    BY <1>0, <1>5, TurnConstants DEF TypeOK
  <2>3. TypeOK'
    BY <1>0, <1>1, <1>5, <2>1, <2>2 DEF TypeOK, http
  <2>4. LoopSound'
    BY <1>0, <1>1, <1>2, <2>2 DEF IInv, LoopSound, Returned, Reading, Asking, http
  <2>5. Numbered'
    BY <1>1, <1>5 DEF IInv, Numbered
  <2>6. WholeSound' /\ Answering' /\ Prompted'
    BY <2>2 DEF WholeSound, Answering, Prompted, Reading, Asking
  <2> QED
    BY <2>3, <2>4, <2>5, <2>6, <1>3 DEF IInv
<1> QED
  BY <1>4, <1>5 DEF Chat

\* consumeStream takes the first entry of the channel.
LEMMA Taken ==
  ASSUME TypeOK, stream.ch # <<>>, stream' = [stream EXCEPT !.ch = Tail(@)]
  PROVE  /\ stream' \in Stream /\ stream'.ch = Tail(stream.ch)
         /\ Len(stream'.ch) = Len(stream.ch) - 1 /\ Len(stream'.ch) <= StreamCap
         /\ \A i \in 1..Len(stream'.ch) : stream'.ch[i] = stream.ch[i + 1]
         /\ Head(stream.ch) = stream.ch[1] /\ Head(stream.ch) \in Part \cup End
         /\ stream'.feed = stream.feed /\ stream'.said = stream.said
         /\ stream'.failed = stream.failed /\ stream'.cancelled = stream.cancelled
         /\ stream'.ended = stream.ended
<1> DEFINE s == stream
<1>1. s \in Stream /\ Len(s.ch) <= StreamCap /\ StreamCap \in Nat
  BY TurnConstants DEF TypeOK
<1>2. s.ch \in Seq(Part \cup End) /\ s.ch # <<>>
  BY <1>1 DEF Stream
<1>3. /\ Tail(s.ch) \in Seq(Part \cup End) /\ Len(Tail(s.ch)) = Len(s.ch) - 1
      /\ Head(s.ch) = s.ch[1] /\ Head(s.ch) \in Part \cup End
      /\ \A i \in 1..Len(Tail(s.ch)) : Tail(s.ch)[i] = s.ch[i + 1]
      /\ Len(s.ch) \in Nat
  BY <1>2
<1> DEFINE rest == Tail(s.ch)
<1>4. stream' = [s EXCEPT !.ch = rest] /\ rest \in Seq(Part \cup End)
  BY <1>3
<1> HIDE DEF rest
<1>5. /\ stream' \in Stream /\ stream'.ch = rest
      /\ stream'.feed = s.feed /\ stream'.said = s.said
      /\ stream'.failed = s.failed /\ stream'.cancelled = s.cancelled
      /\ stream'.ended = s.ended
  BY <1>1, <1>4 DEF Stream
<1> QED
  BY <1>1, <1>3, <1>5 DEF rest

LEMMA PartRead ==
  ASSUME IInv, run = "next", stream.ch # <<>>, ctxDone' = ctxDone,
         Head(stream.ch).kind \in {"text", "plain", "ask"},
         stream' = [stream EXCEPT !.ch = Tail(@)],
         assistant' = Append(assistant, Head(stream.ch))
  PROVE  /\ Head(stream.ch) \in Part
         /\ \E m \in 0..Len(stream'.ch) : Read(m)'
<1>0. TypeOK
  BY DEF IInv
<1>1. /\ stream'.ch = Tail(stream.ch)
      /\ Len(stream'.ch) = Len(stream.ch) - 1
      /\ \A i \in 1..Len(stream'.ch) : stream'.ch[i] = stream.ch[i + 1]
      /\ Head(stream.ch) = stream.ch[1] /\ Head(stream.ch) \in Part \cup End
      /\ stream'.feed = stream.feed /\ stream'.said = stream.said
      /\ stream'.failed = stream.failed /\ stream'.ended = stream.ended
  BY <1>0, Taken
<1> DEFINE p == Head(stream.ch)
<1>2. p \in Part /\ p \notin End
  BY <1>1, PartEnd
<1>3. /\ stream.ch \in Seq(Part \cup End) /\ assistant \in Seq(Part) /\ Len(stream.ch) \in Nat
      /\ Len(stream.said) \in Nat
  BY <1>0 DEF TypeOK, Stream
<1>4. PICK m \in 0..Len(stream.ch) : Read(m)
  BY DEF IInv, WholeSound, Reading
<1>5. m # 0
  BY <1>1, <1>2, <1>3, <1>4 DEF Read
<1>6. PICK k \in Nat : m = k + 1
  <2>1. m - 1 \in Nat /\ m = (m - 1) + 1
    BY <1>3, <1>5
  <2> QED
    BY <2>1
<1>7. /\ Len(assistant') = Len(assistant) + 1 /\ assistant'[Len(assistant) + 1] = p
      /\ \A i \in 1..Len(assistant) : assistant'[i] = assistant[i]
      /\ Len(assistant) \in Nat
  BY <1>2, <1>3
<1> HIDE DEF p
<1>r. /\ m <= Len(stream.ch) /\ Len(assistant) + m <= Len(stream.said)
      /\ \A i \in 1..m : stream.said[Len(assistant) + i] = stream.ch[i]
  BY <1>4 DEF Read
<1>8. /\ k \in 0..Len(stream'.ch) /\ Len(assistant') + k = Len(assistant) + m
      /\ Len(assistant') + k <= Len(stream'.said)
  <2>1. k <= Len(stream'.ch)
    BY <1>1, <1>3, <1>6, <1>r
  <2>2. Len(assistant') + k = Len(assistant) + m
    BY <1>6, <1>7
  <2> QED
    BY <2>1, <2>2, <1>1, <1>3, <1>r
<1>9. \A i \in 1..Len(assistant') : stream'.said[i] = assistant'[i]
  <2>0. 1 \in 1..m
    BY <1>6
  <2>1. stream.said[Len(assistant) + 1] = stream.ch[1]
    BY <2>0, <1>r, Zenon
  <2>2. \A i \in 1..Len(assistant) : stream.said[i] = assistant[i]
    BY <1>4 DEF Read
  <2> QED
    BY <2>1, <2>2, <1>1, <1>7 DEF p
<1>10. \A i \in 1..k : stream'.said[Len(assistant') + i] = stream'.ch[i]
  <2> SUFFICES ASSUME NEW i \in 1..k
               PROVE  stream'.said[Len(assistant') + i] = stream'.ch[i]
    OBVIOUS
  <2>1. i + 1 \in 1..m /\ i \in 1..Len(stream'.ch)
    BY <1>6, <1>8
  <2>2. stream.said[Len(assistant) + (i + 1)] = stream.ch[i + 1]
    BY <2>1, <1>4 DEF Read
  <2>3. Len(assistant') + i = Len(assistant) + (i + 1)
    BY <1>7
  <2> QED
    BY <2>1, <2>2, <2>3, <1>1
<1>h. \A i \in 1..k : stream'.ch[i] \in Part
  <2> SUFFICES ASSUME NEW i \in 1..k PROVE stream'.ch[i] \in Part
    OBVIOUS
  <2>1. i + 1 \in 1..m /\ i \in 1..Len(stream'.ch)
    BY <1>6, <1>8
  <2>2. stream.ch[i + 1] \in Part
    BY <2>1, <1>4 DEF Read
  <2> QED
    BY <2>1, <2>2, <1>1
<1>e. PICK h \in Nat : h = Len(assistant) + m + 1
  BY <1>3, <1>7
<1>11. k < Len(stream'.ch) =>
         /\ stream'.feed # "open"
         /\ stream'.ch[k + 1] \in End
         /\ (stream'.ch[k + 1].kind = "finish" => stream'.ended)
         /\ stream'.said[h] = stream'.ch[k + 1]
         /\ Closing(h)'
  <2> SUFFICES ASSUME k < Len(stream'.ch)
               PROVE  /\ stream'.feed # "open"
                      /\ stream'.ch[k + 1] \in End
                      /\ (stream'.ch[k + 1].kind = "finish" => stream'.ended)
                      /\ stream'.said[h] = stream'.ch[k + 1]
                      /\ Closing(h)'
    OBVIOUS
  <2>1. m < Len(stream.ch) /\ k + 1 \in 1..Len(stream'.ch) /\ (k + 1) + 1 = m + 1
    BY <1>1, <1>3, <1>6, <1>8
  <2>2. /\ stream.feed # "open" /\ stream.ch[m + 1] \in End
        /\ (stream.ch[m + 1].kind = "finish" => stream.ended)
        /\ stream.said[h] = stream.ch[m + 1] /\ Closing(h)
    BY <2>1, <1>4, <1>e DEF Read
  <2>3. stream'.ch[k + 1] = stream.ch[m + 1]
    BY <2>1, <1>1
  <2>4. Closing(h)'
    BY <2>2, <1>1 DEF Closing
  <2> QED
    BY <2>2, <2>3, <2>4, <1>1
<1>12. k = Len(stream'.ch) =>
         /\ stream'.feed # "last"
         /\ Len(stream'.said) = Len(assistant') + k \/ (ctxDone' /\ stream'.feed = "closed")
         /\ (stream'.feed = "closed" => stream'.failed \/ stream'.ended \/ ctxDone')
  <2> SUFFICES ASSUME k = Len(stream'.ch)
               PROVE  /\ stream'.feed # "last"
                      /\ \/ Len(stream'.said) = Len(assistant') + k
                         \/ ctxDone' /\ stream'.feed = "closed"
                      /\ (stream'.feed = "closed" => stream'.failed \/ stream'.ended \/ ctxDone')
    OBVIOUS
  <2>1. m = Len(stream.ch)
    BY <1>1, <1>3, <1>6
  <2>2. /\ stream.feed # "last"
        /\ Len(stream.said) = Len(assistant) + m \/ (ctxDone /\ stream.feed = "closed")
        /\ (stream.feed = "closed" => stream.failed \/ stream.ended \/ ctxDone)
    BY <2>1, <1>4 DEF Read
  <2> QED
    BY <2>2, <1>1, <1>8
<1>13. Read(k)'
  <2>1. k <= Len(stream'.ch)
    BY <1>1, <1>3, <1>8
  <2>2. Len(assistant') + k + 1 = h
    BY <1>6, <1>7, <1>e
  <2> QED
    BY <2>1, <2>2, <1>8, <1>9, <1>10, <1>11, <1>12, <1>h, Zenon DEF Read
<1> QED
  BY <1>2, <1>8, <1>13 DEF p

\* Reading text does not change what the results answer.
LEMMA AnswersGrow ==
  ASSUME NEW s, NEW t, NEW m \in Nat, NEW k \in Nat, NEW res,
         Answers(s, m, res), \A i \in 1..m : t[i] = s[i],
         k = m \/ (k = m + 1 /\ t[k].kind = "text")
  PROVE  Answers(t, k, res)
<1>1. ASSUME NEW i \in 1..Len(res)
      PROVE  \E j \in 1..k : t[j].kind # "text" /\ t[j].n = res[i]
  <2>1. PICK j \in 1..m : s[j].kind # "text" /\ s[j].n = res[i]
    BY DEF Answers
  <2> QED
    BY <2>1
<1>2. ASSUME NEW j \in 1..k, t[j].kind # "text"
      PROVE  \E i \in 1..Len(res) : res[i] = t[j].n
  <2>1. j \in 1..m /\ t[j] = s[j]
    BY <1>2
  <2> QED
    BY <1>2, <2>1 DEF Answers
<1>3. \A i, h \in 1..Len(res) : i < h => res[i] < res[h]
  BY DEF Answers
<1> QED
  BY <1>1, <1>2, <1>3 DEF Answers

\* Text and calls: the channel's first entry moves to pendingAssistant.
LEMMA NextPartOK == IInv /\ (NextText \/ NextCall) => IInv'
<1> SUFFICES ASSUME IInv, NextText \/ NextCall PROVE IInv'
  OBVIOUS
<1> DEFINE p == Head(stream.ch)
<1>0. TypeOK
  BY DEF IInv
<1>1. /\ run = "next" /\ stream.ch # <<>>
      /\ p.kind \in {"text", "plain", "ask"}
      /\ assistant' = Append(assistant, p) /\ events' = Emit(events, Other)
      /\ stream' = [stream EXCEPT !.ch = Tail(@)]
      /\ UNCHANGED <<origin, ctxDone, http, step, attempt, results, cause, rows, parts>>
      /\ \/ run' = "next" /\ p.kind = "text"
         \/ run' = "tool" /\ p.kind # "text"
  BY DEF NextText, NextCall
<1>2. p \in Part /\ \E m \in 0..Len(stream'.ch) : Read(m)'
  BY <1>1, PartRead
<1>3. /\ stream' \in Stream /\ Len(stream'.ch) <= StreamCap /\ stream'.said = stream.said
      /\ stream'.cancelled = stream.cancelled
  BY <1>0, <1>1, Taken
<1>4. events' \in Seq(Event) /\ Len(events') <= EventCap
  BY <1>0, <1>1, EmitTyped, EventKinds
<1> HIDE DEF p
<1>a. assistant \in Seq(Part) /\ Len(assistant) \in Nat
  BY <1>0 DEF TypeOK
<1>b. /\ assistant' \in Seq(Part)
      /\ Len(assistant') = Len(assistant) + 1 /\ assistant'[Len(assistant) + 1] = p
      /\ \A i \in 1..Len(assistant) : assistant'[i] = assistant[i]
  BY <1>a, <1>1, <1>2
<1>5. assistant' # <<>> /\ assistant'[Len(assistant')] = p
  BY <1>a, <1>b
<1>6. TypeOK'
  BY <1>0, <1>1, <1>3, <1>4, <1>b DEF TypeOK, http
<1>7. LoopSound'
  <2>1. handler # "request" /\ step < StepLimit /\ ~stream.cancelled
    BY <1>1 DEF IInv, LoopSound, Returned, Reading
  <2> QED
    BY <2>1, <1>1, <1>3, <1>5 DEF LoopSound, Returned, Reading, Asking, http
<1>8. Numbered'
  BY <1>1, <1>3 DEF IInv, Numbered
<1>9. WholeSound'
  BY <1>1, <1>2 DEF WholeSound, Reading
<1>10. Answers(assistant, Len(assistant), results)
  BY <1>1 DEF IInv, Answering
<1>11. CASE run' = "next"
  <2>1. p.kind = "text"
    BY <1>1, <1>11
  <2>2. Answers(assistant', Len(assistant'), results)
    <3>1. Len(assistant') \in Nat /\ assistant'[Len(assistant')].kind = "text"
      BY <1>a, <1>b, <1>5, <2>1
    <3> QED
      BY <1>10, <1>a, <1>b, <3>1, AnswersGrow
  <2>3. Answering'
    BY <1>1, <1>11, <2>2 DEF Answering, Answers, Asking
  <2> QED
    BY <1>6, <1>7, <1>8, <1>9, <2>3, <1>11, <1>1, RowsKept DEF IInv, Prompted
<1>12. CASE run' = "tool"
  <2>2. Answers(assistant', Len(assistant') - 1, results)
    <3>1. Len(assistant') - 1 = Len(assistant)
      BY <1>a, <1>b
    <3>2. Answers(assistant', Len(assistant), results)
      BY <1>10, <1>a, <1>b, AnswersGrow
    <3> QED
      BY <3>1, <3>2
  <2>3. Answering'
    BY <1>1, <1>12, <2>2 DEF Answering, Answers, Asking
  <2> QED
    BY <1>6, <1>7, <1>8, <1>9, <2>3, <1>12, <1>1, RowsKept DEF IInv, Prompted
<1> QED
  BY <1>1, <1>11, <1>12

\* The response is over: message_end, an error, a closed channel or ctx.Done.
LEMMA ResponseOver ==
  ASSUME IInv, run = "next", run' = "close",
         stream' \in Stream, Len(stream'.ch) <= StreamCap,
         stream'.said = stream.said,
         cause' \in {"end", "calls", "error", "cancelled"},
         events' \in Seq(Event), Len(events') <= EventCap,
         cause' \in Whole =>
           /\ stream'.feed # "open"
           /\ \/ ctxDone
              \/ /\ stream'.ended
                 /\ UpToEnd(assistant, stream.said)
                 /\ stream'.feed = "last" => Len(stream.said) = Len(assistant) + 1,
         UNCHANGED <<origin, ctxDone, http, step, attempt, assistant, results, rows, parts>>
  PROVE  IInv'
<1>1. TypeOK'
  BY DEF IInv, TypeOK, http
<1>2. LoopSound'
  BY DEF IInv, LoopSound, Returned, Reading, Asking, http
<1>3. Numbered'
  BY DEF IInv, Numbered
<1>4. WholeSound'
  BY DEF WholeSound, Reading
<1>5. Answering' /\ Prompted'
  BY DEF IInv, Answering, Answers, Prompted, Asking
<1> QED
  BY <1>1, <1>2, <1>3, <1>4, <1>5, RowsKept DEF IInv

\* A channel read up to message_end, or closed and empty, leaves nothing that
\* was said before unread.
LEMMA NothingUnread ==
  ASSUME IInv, run = "next", Read(0)
  PROVE  /\ stream.ch # <<>> /\ stream.ch[1].kind = "finish" =>
              /\ stream.feed # "open" /\ stream.ended /\ UpToEnd(assistant, stream.said)
              /\ stream.feed = "last" => Len(stream.said) = Len(assistant) + 1
         /\ stream.ch = <<>> =>
              /\ stream.feed # "last"
              /\ ctxDone \/ UpToEnd(assistant, stream.said)
<1>1. /\ stream.ch \in Seq(Part \cup End) /\ Len(stream.ch) \in Nat
      /\ Len(assistant) \in Nat /\ Len(stream.said) \in Nat
  BY DEF IInv, TypeOK, Stream
<1>2. \A i \in 1..Len(assistant) : stream.said[i] = assistant[i]
  BY DEF Read
<1>3. ASSUME stream.ch # <<>>, stream.ch[1].kind = "finish"
      PROVE  /\ stream.feed # "open" /\ stream.ended /\ UpToEnd(assistant, stream.said)
             /\ stream.feed = "last" => Len(stream.said) = Len(assistant) + 1
  <2>1. PICK h \in Nat : h = Len(assistant) + 1
    BY <1>1
  <2>2. 0 < Len(stream.ch) /\ Len(assistant) + 0 + 1 = h
    BY <1>1, <1>3, <2>1
  <2>3. stream.feed # "open" /\ stream.ended /\ stream.said[h] = stream.ch[1] /\ Closing(h)
    BY <1>3, <2>2 DEF Read
  <2>4. UpToEnd(assistant, stream.said)
    BY <1>1, <1>2, <1>3, <2>1, <2>3 DEF Closing, UpToEnd
  <2> QED
    BY <2>1, <2>3, <2>4 DEF Closing
<1>4. ASSUME stream.ch = <<>>
      PROVE  stream.feed # "last" /\ (ctxDone \/ UpToEnd(assistant, stream.said))
  <2>1. Len(stream.ch) = 0
    BY <1>4
  <2>2. /\ stream.feed # "last"
        /\ Len(stream.said) = Len(assistant) \/ ctxDone
    BY <1>1, <2>1 DEF Read
  <2>3. Len(stream.said) = Len(assistant) => UpToEnd(assistant, stream.said)
    BY <1>1, <1>2 DEF UpToEnd
  <2> QED
    BY <2>2, <2>3
<1> QED
  BY <1>3, <1>4

LEMMA EndingWhole == Ending("end") \in Whole
  BY DEF Ending, Whole

LEMMA NextEndOK == IInv /\ NextEnd => IInv'
<1> SUFFICES ASSUME IInv, NextEnd PROVE IInv'
  OBVIOUS
<1>0. TypeOK
  BY DEF IInv
<1>1. /\ run = "next" /\ stream.ch # <<>> /\ run' = "close"
      /\ stream' = [stream EXCEPT !.ch = Tail(@)]
      /\ UNCHANGED <<origin, ctxDone, http, step, attempt, assistant, results, rows, parts>>
  BY DEF NextEnd
<1>2. /\ stream' \in Stream /\ Len(stream'.ch) <= StreamCap /\ stream'.said = stream.said
      /\ stream'.feed = stream.feed /\ stream'.ended = stream.ended
      /\ Head(stream.ch) = stream.ch[1]
  BY <1>0, <1>1, Taken
<1>3. CASE Head(stream.ch).kind = "error" /\ cause' = "error" /\ events' = events
  <2>1. events' \in Seq(Event) /\ Len(events') <= EventCap
    BY <1>0, <1>3 DEF TypeOK
  <2>2. cause' \notin Whole
    BY <1>3 DEF Whole
  <2> QED
    BY <1>1, <1>2, <1>3, <2>1, <2>2, ResponseOver
<1>4. CASE /\ Head(stream.ch).kind = "finish" /\ events' = Emit(events, Other)
           /\ cause' = Ending("end")
  <2>1. events' \in Seq(Event) /\ Len(events') <= EventCap
    BY <1>0, <1>4, EmitTyped, EventKinds
  <2>2. PICK m \in 0..Len(stream.ch) : Read(m)
    BY <1>1 DEF IInv, WholeSound, Reading
  <2>3. m = 0
    <3>1. SUFFICES ASSUME m # 0 PROVE FALSE
      OBVIOUS
    <3>2. 1 \in 1..m
      BY <3>1, <1>0 DEF TypeOK, Stream
    <3>3. stream.ch[1] \in Part
      BY <3>2, <2>2 DEF Read
    <3> QED
      BY <3>3, <1>2, <1>4, PartEnd
  <2>4. /\ stream.feed # "open" /\ stream.ended /\ UpToEnd(assistant, stream.said)
        /\ stream.feed = "last" => Len(stream.said) = Len(assistant) + 1
    BY <2>2, <2>3, <1>1, <1>2, <1>4, NothingUnread
  <2>5. cause' \in {"end", "calls", "error", "cancelled"}
    BY <1>4, EndingWhole DEF Whole
  <2>6. /\ stream'.feed # "open" /\ stream'.ended
        /\ stream'.feed = "last" => Len(stream.said) = Len(assistant) + 1
    BY <2>4, <1>2
  <2> QED
    BY <1>1, <1>2, <2>1, <2>4, <2>5, <2>6, ResponseOver
<1> QED
  BY <1>3, <1>4 DEF NextEnd

LEMMA NextClosedOK == IInv /\ NextClosed => IInv'
<1> SUFFICES ASSUME IInv, NextClosed PROVE IInv'
  OBVIOUS
<1>0. TypeOK
  BY DEF IInv
<1>1. /\ run = "next" /\ stream.ch = <<>> /\ stream.feed = "closed" /\ run' = "close"
      /\ cause' = IF stream.failed THEN "error" ELSE Ending("end")
      /\ UNCHANGED <<origin, ctxDone, events, http, step, attempt, assistant, results,
                     rows, stream, parts>>
  BY DEF NextClosed
<1>2. stream' \in Stream /\ Len(stream'.ch) <= StreamCap /\ stream'.said = stream.said
      /\ events' \in Seq(Event) /\ Len(events') <= EventCap
  BY <1>0, <1>1 DEF TypeOK
<1>3. cause' \in {"end", "calls", "error", "cancelled"}
  BY <1>1, EndingWhole DEF Whole
<1>4. Len(stream.ch) = 0
  BY <1>1
<1>5. PICK m \in 0..Len(stream.ch) : Read(m)
  BY <1>1 DEF IInv, WholeSound, Reading
<1>6. Read(0)
  BY <1>4, <1>5
<1>7. ctxDone \/ UpToEnd(assistant, stream.said)
  BY <1>1, <1>6, NothingUnread
<1>8. stream.failed \/ stream.ended \/ ctxDone
  BY <1>1, <1>4, <1>6 DEF Read
<1>9. cause' \in Whole => stream'.feed = "closed" /\ (stream'.ended \/ ctxDone)
  BY <1>1, <1>8 DEF Whole
<1> QED
  BY <1>1, <1>2, <1>3, <1>7, <1>9, ResponseOver

LEMMA NextCancelledOK == IInv /\ NextCancelled => IInv'
<1> SUFFICES ASSUME IInv, NextCancelled PROVE IInv'
  OBVIOUS
<1>1. /\ run = "next" /\ run' = "close" /\ cause' = "cancelled"
      /\ UNCHANGED <<origin, ctxDone, events, http, step, attempt, assistant, results,
                     rows, stream, parts>>
  BY DEF NextCancelled
<1>2. stream' \in Stream /\ Len(stream'.ch) <= StreamCap /\ stream'.said = stream.said
      /\ events' \in Seq(Event) /\ Len(events') <= EventCap
  BY <1>1 DEF TypeOK, IInv
<1>3. cause' \notin Whole
  BY <1>1 DEF Whole
<1> QED
  BY <1>1, <1>2, <1>3, ResponseOver

-----------------------------------------------------------------------------
(* Runner.Run: the tools                                                   *)

\* The call being worked on.
LEMMA TheCall ==
  ASSUME IInv, run \in Asking
  PROVE  /\ assistant \in Seq(Part) /\ Len(assistant) \in Nat \ {0}
         /\ Call = assistant[Len(assistant)] /\ Call \in Part
         /\ Call.kind # "text" /\ Call.n \in 1..MaxParts
<1>1. /\ assistant \in Seq(Part) /\ assistant # <<>>
      /\ assistant[Len(assistant)].kind # "text"
  BY DEF IInv, TypeOK, LoopSound
<1>2. Len(assistant) \in Nat \ {0} /\ assistant[Len(assistant)] \in Part
  BY <1>1
<1>3. Call = assistant[Len(assistant)]
  BY DEF Call, Last
<1> QED
  BY <1>1, <1>2, <1>3, PartEnd

\* It comes after every call that is answered already.
LEMMA CallIsLatest ==
  ASSUME IInv, run \in Asking, NEW j \in 1..(Len(assistant) - 1)
  PROVE  assistant[j].n < Call.n
<1>1. /\ Len(assistant) \in Nat \ {0} /\ Call = assistant[Len(assistant)]
  BY TheCall
<1>2. PICK m \in 0..Len(stream.ch) : Read(m)
  BY DEF IInv, WholeSound, Reading, Asking
<1>3. Len(stream.ch) \in Nat /\ Len(stream.said) \in Nat /\ Call \in Part
  BY TheCall DEF IInv, TypeOK, Stream
<1>4. /\ j \in 1..Len(stream.said) /\ Len(assistant) \in 1..Len(stream.said)
      /\ j < Len(assistant)
  BY <1>1, <1>2, <1>3 DEF Read
<1>5. stream.said[j] = assistant[j] /\ stream.said[Len(assistant)] = assistant[Len(assistant)]
  BY <1>1, <1>2 DEF Read
<1>6. stream.said[j].n < stream.said[Len(assistant)].n
  BY <1>1, <1>3, <1>4, <1>5 DEF IInv, Numbered
<1> QED
  BY <1>1, <1>5, <1>6

LEMMA AnsweredOK ==
  ASSUME IInv, run \in Asking, NEW ok \in BOOLEAN, Answered(ok),
         UNCHANGED <<origin, ctxDone, http, step, attempt, assistant, cause, rows,
                     stream, parts>>
  PROVE  IInv'
<1>0. TypeOK
  BY DEF IInv
<1>1. results' = Append(results, Call.n) /\ events' = Emit(events, Other) /\ run' = "next"
  BY DEF Answered
<1>2. /\ Len(assistant) \in Nat \ {0} /\ Call = assistant[Len(assistant)]
      /\ Call.kind # "text" /\ Call.n \in 1..MaxParts
  BY TheCall
<1>3. events' \in Seq(Event) /\ Len(events') <= EventCap
  BY <1>0, <1>1, EmitTyped, EventKinds
<1> DEFINE c == Call.n
<1>a. c \in 1..MaxParts /\ results' = Append(results, c) /\ assistant[Len(assistant)].n = c
  BY <1>1, <1>2
<1>b. \A j \in 1..(Len(assistant) - 1) : assistant[j].n < c
  BY CallIsLatest
<1> HIDE DEF c
<1>4. /\ results \in Seq(1..MaxParts) /\ Len(results) \in Nat
  BY <1>0 DEF TypeOK
<1>5. /\ results' \in Seq(1..MaxParts)
      /\ Len(results') = Len(results) + 1 /\ results'[Len(results) + 1] = c
      /\ \A i \in 1..Len(results) : results'[i] = results[i]
  BY <1>4, <1>a
<1>6. TypeOK'
  BY <1>0, <1>1, <1>3, <1>5 DEF TypeOK, http
<1>7. LoopSound'
  <2>1. handler # "request" /\ step < StepLimit /\ ~stream.cancelled
    BY DEF IInv, LoopSound, Returned, Reading, Asking
  <2> QED
    BY <2>1, <1>1 DEF LoopSound, Returned, Reading, Asking, http
<1>8. Numbered'
  BY DEF IInv, Numbered
<1>9. WholeSound'
  <2>1. PICK m \in 0..Len(stream.ch) : Read(m)
    BY DEF IInv, WholeSound, Reading, Asking
  <2>2. Read(m)'
    BY <2>1, ReadKept
  <2> QED
    BY <2>2, <1>1 DEF WholeSound, Reading
<1>10. Answers(assistant, Len(assistant) - 1, results)
  BY DEF IInv, Answering
<1>11. Answers(assistant, Len(assistant), results')
  <2>1. ASSUME NEW i \in 1..Len(results')
        PROVE  \E j \in 1..Len(assistant) : assistant[j].kind # "text" /\ assistant[j].n = results'[i]
    <3>1. CASE i = Len(results) + 1
      BY <3>1, <1>2, <1>5, <1>a
    <3>2. CASE i \in 1..Len(results)
      <4>1. PICK j \in 1..(Len(assistant) - 1) : assistant[j].kind # "text" /\ assistant[j].n = results[i]
        BY <3>2, <1>10 DEF Answers
      <4> QED
        BY <4>1, <3>2, <1>2, <1>5
    <3> QED
      BY <3>1, <3>2, <1>4, <1>5
  <2>2. ASSUME NEW j \in 1..Len(assistant), assistant[j].kind # "text"
        PROVE  \E i \in 1..Len(results') : results'[i] = assistant[j].n
    <3>1. CASE j = Len(assistant)
      <4>1. Len(results) + 1 \in 1..Len(results')
        BY <1>4, <1>5
      <4> QED
        BY <3>1, <4>1, <1>5, <1>a
    <3>2. CASE j \in 1..(Len(assistant) - 1)
      <4>1. PICK i \in 1..Len(results) : results[i] = assistant[j].n
        BY <3>2, <2>2, <1>10 DEF Answers
      <4>2. i \in 1..Len(results') /\ results'[i] = results[i]
        BY <1>4, <1>5
      <4> QED
        BY <4>1, <4>2
    <3> QED
      BY <3>1, <3>2, <1>2
  <2>3. ASSUME NEW i \in 1..Len(results'), NEW k \in 1..Len(results'), i < k
        PROVE  results'[i] < results'[k]
    <3>1. i \in 1..Len(results) /\ results'[i] = results[i]
      BY <2>3, <1>4, <1>5
    <3>2. CASE k \in 1..Len(results)
      BY <3>1, <3>2, <2>3, <1>5, <1>10 DEF Answers
    <3>3. CASE k = Len(results) + 1
      <4>1. PICK j \in 1..(Len(assistant) - 1) : assistant[j].kind # "text" /\ assistant[j].n = results[i]
        BY <3>1, <1>10 DEF Answers
      <4> QED
        BY <4>1, <3>1, <3>3, <1>b, <1>5
    <3> QED
      BY <3>2, <3>3, <1>4, <1>5
  <2> QED
    BY <2>1, <2>2, <2>3 DEF Answers
<1>12. Answering'
  <2>1. run' \notin Asking
    BY <1>1 DEF Asking
  <2> QED
    BY <2>1, <1>11 DEF Answering, Answers
<1>13. Prompted'
  BY <1>1 DEF Prompted
<1> QED
  BY <1>6, <1>7, <1>8, <1>9, <1>12, <1>13, RowsKept DEF IInv

LEMMA ToolOK == IInv /\ (ToolReturns \/ UserAnswers \/ WaitCancelled) => IInv'
<1>1. ASSUME IInv, ToolReturns PROVE IInv'
  <2>1. PICK ok \in BOOLEAN : Answered(ok)
    BY <1>1 DEF ToolReturns
  <2>2. run \in Asking
    BY <1>1 DEF ToolReturns, Asking
  <2> QED
    BY <1>1, <2>1, <2>2, AnsweredOK DEF ToolReturns
<1>2. ASSUME IInv, UserAnswers PROVE IInv'
  BY <1>2, AnsweredOK DEF UserAnswers, Asking
<1>3. ASSUME IInv, WaitCancelled PROVE IInv'
  BY <1>3, AnsweredOK DEF WaitCancelled, Asking
<1> QED
  BY <1>1, <1>2, <1>3

\* The tool goes on with its call: nothing that was read or answered changes.
LEMMA AskingGoesOn ==
  ASSUME IInv, run \in Asking, run' \in Asking,
         events' \in Seq(Event), Len(events') <= EventCap,
         run' = "wait" => \E i \in 1..Len(events') : events'[i] = Call.n,
         UNCHANGED <<origin, ctxDone, http, step, attempt, assistant, results, cause,
                     rows, stream, parts>>
  PROVE  IInv'
<1>1. TypeOK'
  BY DEF IInv, TypeOK, http, Asking
<1>2. LoopSound'
  BY DEF IInv, LoopSound, Returned, Reading, Asking, http
<1>3. Numbered'
  BY DEF IInv, Numbered
<1>4. WholeSound'
  <2>1. PICK m \in 0..Len(stream.ch) : Read(m)
    BY DEF IInv, WholeSound, Reading, Asking
  <2>2. Read(m)'
    BY <2>1, ReadKept
  <2> QED
    BY <2>2 DEF WholeSound, Reading, Asking
<1>5. Answering'
  BY DEF IInv, Answering, Answers, Asking
<1>6. Prompted'
  BY TheCall DEF Prompted
<1> QED
  BY <1>1, <1>2, <1>3, <1>4, <1>5, <1>6, RowsKept DEF IInv

LEMMA PromptOK == IInv /\ (ToolAsks \/ Prompt) => IInv'
<1>1. ASSUME IInv, ToolAsks PROVE IInv'
  BY <1>1, AskingGoesOn DEF ToolAsks, Asking, IInv, TypeOK
<1>2. ASSUME IInv, Prompt PROVE IInv'
  <2>1. run \in Asking /\ run' \in Asking
    BY <1>2 DEF Prompt, Asking
  <2>2. Call.n \in Event
    BY <1>2, <2>1, TheCall, EventKinds
  <2> DEFINE c == Call.n
  <2>3. events \in Seq(Event) /\ Len(events) < EventCap /\ events' = Append(events, c)
        /\ c \in Event /\ EventCap \in Nat
    BY <1>2, <2>2, TurnConstants DEF Prompt, IInv, TypeOK
  <2> HIDE DEF c
  <2>4. /\ events' \in Seq(Event) /\ Len(events') <= EventCap
        /\ Len(events) + 1 \in 1..Len(events') /\ events'[Len(events) + 1] = c
    BY <2>3
  <2>5. \E i \in 1..Len(events') : events'[i] = Call.n
    BY <2>4 DEF c
  <2> QED
    BY <1>2, <2>1, <2>4, <2>5, AskingGoesOn DEF Prompt
<1> QED
  BY <1>1, <1>2

-----------------------------------------------------------------------------
(* Runner.Run: closing and storing                                         *)

LEMMA CloseCancelsOK == IInv /\ CloseCancels => IInv'
<1> SUFFICES ASSUME IInv, CloseCancels PROVE IInv'
  OBVIOUS
<1>0. TypeOK
  BY DEF IInv
<1>1. /\ run = "close" /\ stream' = [stream EXCEPT !.cancelled = TRUE]
      /\ UNCHANGED <<origin, ctxDone, events, http, loop, parts>>
  BY DEF CloseCancels
<1>2. UNCHANGED <<run, step, attempt, assistant, results, cause, rows>>
  BY <1>1 DEF loop
<1>3. stream \in Stream /\ Len(stream.ch) <= StreamCap
  BY <1>0 DEF TypeOK
<1>4. /\ stream' \in Stream /\ stream'.ch = stream.ch /\ stream'.said = stream.said
      /\ stream'.feed = stream.feed /\ stream'.ended = stream.ended
  BY <1>1, <1>3 DEF Stream
<1>5. TypeOK'
  BY <1>0, <1>1, <1>2, <1>3, <1>4 DEF TypeOK, http
<1>6. LoopSound'
  BY <1>1, <1>2 DEF IInv, LoopSound, Returned, Reading, Asking, http
<1>7. Numbered'
  BY <1>1, <1>4 DEF IInv, Numbered
<1>8. WholeSound'
  BY <1>1, <1>2, <1>4 DEF IInv, WholeSound, Reading
<1>9. Answering' /\ Prompted'
  BY <1>1, <1>2 DEF IInv, Answering, Answers, Prompted, Asking
<1> QED
  BY <1>2, <1>5, <1>6, <1>7, <1>8, <1>9, RowsKept DEF IInv

LEMMA CloseStreamOK == IInv /\ CloseStream => IInv'
<1> SUFFICES ASSUME IInv, CloseStream PROVE IInv'
  OBVIOUS
<1>0. TypeOK
  BY DEF IInv
<1>1. /\ run = "close"
      /\ events' = IF cause = "error" THEN Emit(events, Error) ELSE events
      /\ UNCHANGED <<origin, ctxDone, http, step, attempt, assistant, results, cause,
                     rows, stream, parts>>
  BY DEF CloseStream
<1>2. cause \in Whole \cup {"error", "cancelled"}
  BY <1>0, <1>1 DEF IInv, LoopSound, TypeOK, Whole
<1>3. /\ run' \in {"failed", "cancelled", "persist"}
      /\ run' = "persist" => cause \in Whole
  BY <1>2 DEF CloseStream, Whole
<1>4. events' \in Seq(Event) /\ Len(events') <= EventCap
  BY <1>0, <1>1, EmitTyped, EventKinds DEF TypeOK
<1>5. TypeOK'
  BY <1>0, <1>1, <1>3, <1>4 DEF TypeOK, http
<1>6. LoopSound'
  BY <1>1, <1>3 DEF IInv, LoopSound, Returned, Reading, Asking, http
<1>7. Numbered'
  BY <1>1 DEF IInv, Numbered
<1>8. WholeSound'
  BY <1>1, <1>3 DEF IInv, WholeSound, Reading
<1>9. Answering' /\ Prompted'
  BY <1>1, <1>3 DEF IInv, Answering, Answers, Prompted, Asking
<1> QED
  BY <1>1, <1>5, <1>6, <1>7, <1>8, <1>9, RowsKept DEF IInv

LEMMA PersistFailsOK == IInv /\ PersistFails => IInv'
<1> SUFFICES ASSUME IInv, PersistFails PROVE IInv'
  OBVIOUS
<1>0. TypeOK
  BY DEF IInv
<1>1. /\ run = "persist" /\ run' = "failed" /\ events' = Emit(events, Error)
      /\ UNCHANGED <<origin, ctxDone, http, step, attempt, assistant, results, cause,
                     rows, stream, parts>>
  BY DEF PersistFails
<1>4. events' \in Seq(Event) /\ Len(events') <= EventCap
  BY <1>0, <1>1, EmitTyped, EventKinds
<1>5. TypeOK'
  BY <1>0, <1>1, <1>4 DEF TypeOK, http
<1>6. LoopSound'
  BY <1>1 DEF IInv, LoopSound, Returned, Reading, Asking, http
<1>7. Numbered'
  BY <1>1 DEF IInv, Numbered
<1>8. WholeSound' /\ Answering' /\ Prompted'
  BY <1>1 DEF WholeSound, Answering, Prompted, Reading, Asking
<1> QED
  BY <1>1, <1>5, <1>6, <1>7, <1>8, RowsKept DEF IInv

LEMMA PersistOK == IInv /\ Persist => IInv'
<1> SUFFICES ASSUME IInv, Persist PROVE IInv'
  OBVIOUS
<1>0. TypeOK
  BY DEF IInv
<1>1. /\ run = "persist" /\ ~ctxDone /\ rows' = Append(rows, Row)
      /\ run' = Onward /\ step' = step + 1 /\ attempt' = 0
      /\ assistant' = <<>> /\ results' = <<>> /\ cause' = "none"
      /\ UNCHANGED <<origin, ctxDone, events, http, stream, parts>>
  BY DEF Persist
<1>2. step < StepLimit /\ cause \in Whole
  BY <1>1 DEF IInv, LoopSound, Returned
<1>3. UpToEnd(assistant, stream.said) /\ stream.ended
  BY <1>1, <1>2 DEF IInv, WholeSound
<1>4. Answers(assistant, Len(assistant), results)
  BY <1>1 DEF IInv, Answering
<1>5. step \in Nat /\ StepLimit \in Nat /\ step' \in 0..StepLimit
  BY <1>0, <1>1, <1>2, TurnConstants DEF TypeOK
<1>6. run' \in {"ok", "limit", "chat"} /\ (run' = "chat" => step' < StepLimit)
  BY <1>1, <1>2, <1>5 DEF Onward
<1> DEFINE RowSet == [assistant: Seq(Part), results: Seq(1..MaxParts),
                      said: Seq(Part \cup End), ended: BOOLEAN]
           n == Len(rows) + 1
<1>7. /\ Row \in RowSet /\ Row.assistant = assistant /\ Row.results = results
      /\ Row.said = stream.said /\ Row.ended = stream.ended
  <2>1. /\ assistant \in Seq(Part) /\ results \in Seq(1..MaxParts)
        /\ stream.said \in Seq(Part \cup End) /\ stream.ended \in BOOLEAN
    BY <1>0 DEF TypeOK, Stream
  <2> QED
    BY <2>1 DEF Row
<1>8. rows \in Seq(RowSet)
  BY <1>0 DEF TypeOK
<1> HIDE DEF RowSet
<1>9. /\ rows' \in Seq(RowSet) /\ DOMAIN rows' = 1..n /\ rows'[n] = Row
      /\ DOMAIN rows = 1..(n - 1) /\ n \in Nat
      /\ \A i \in 1..(n - 1) : rows'[i] = rows[i]
  BY <1>1, <1>7, <1>8
<1> HIDE DEF n
<1>10. \A i \in DOMAIN rows' : i = n \/ (i \in DOMAIN rows /\ rows'[i] = rows[i])
  BY <1>9
<1>11. TypeOK'
  <2>1. <<>> \in Seq(Part) /\ <<>> \in Seq(1..MaxParts) /\ 0 \in 0..MaxRetries
    BY TurnConstants
  <2> QED
    BY <2>1, <1>0, <1>1, <1>5, <1>6, <1>9 DEF TypeOK, http, RowSet
<1>12. LoopSound'
  BY <1>1, <1>6 DEF IInv, LoopSound, Returned, Reading, Asking, http
<1>13. Numbered'
  BY <1>1 DEF IInv, Numbered
<1>14. WholeSound' /\ Answering' /\ Prompted'
  BY <1>6 DEF WholeSound, Answering, Prompted, Reading, Asking
<1>15. OnlyWholeResponsesStored'
  <2> SUFFICES ASSUME NEW i \in DOMAIN rows'
               PROVE  rows'[i].ended /\ UpToEnd(rows'[i].assistant, rows'[i].said)
    BY DEF OnlyWholeResponsesStored
  <2>1. CASE i = n
    BY <2>1, <1>3, <1>7, <1>9
  <2>2. CASE i \in DOMAIN rows /\ rows'[i] = rows[i]
    BY <2>2 DEF IInv, OnlyWholeResponsesStored
  <2> QED
    BY <2>1, <2>2, <1>10
<1>16. StoredCallsAnswered'
  <2> SUFFICES ASSUME NEW i \in DOMAIN rows'
               PROVE  Answers(rows'[i].assistant, Len(rows'[i].assistant), rows'[i].results)
    BY DEF StoredCallsAnswered, Answers
  <2>1. CASE i = n
    BY <2>1, <1>4, <1>7, <1>9
  <2>2. CASE i \in DOMAIN rows /\ rows'[i] = rows[i]
    BY <2>2 DEF IInv, StoredCallsAnswered
  <2> QED
    BY <2>1, <2>2, <1>10
<1> QED
  BY <1>11, <1>12, <1>13, <1>14, <1>15, <1>16 DEF IInv

-----------------------------------------------------------------------------
(* The theorems                                                            *)

LEMMA InitOK == Init => IInv
<1> SUFFICES ASSUME Init PROVE IInv
  OBVIOUS
<1>1. /\ <<>> \in Seq(Event) /\ <<>> \in Seq(Part) /\ <<>> \in Seq(1..MaxParts)
      /\ <<>> \in Seq(Part \cup End) /\ Len(<<>>) = 0 /\ DOMAIN <<>> = {}
      /\ <<>> \in Seq([assistant: Seq(Part), results: Seq(1..MaxParts),
                       said: Seq(Part \cup End), ended: BOOLEAN])
  OBVIOUS
<1>2. NoStream \in Stream /\ NoStream.ch = <<>> /\ NoStream.said = <<>>
  BY <1>1 DEF NoStream, Stream
<1>3. TypeOK
  <2>1. /\ events \in Seq(Event) /\ Len(events) <= EventCap
        /\ assistant \in Seq(Part) /\ results \in Seq(1..MaxParts)
        /\ rows \in Seq([assistant: Seq(Part), results: Seq(1..MaxParts),
                         said: Seq(Part \cup End), ended: BOOLEAN])
    BY <1>1, TurnConstants DEF Init
  <2>2. stream \in Stream /\ Len(stream.ch) <= StreamCap
    BY <1>1, <1>2, TurnConstants DEF Init
  <2>3. step \in 0..StepLimit /\ attempt \in 0..MaxRetries /\ parts \in 0..MaxParts
    BY TurnConstants DEF Init
  <2>4. /\ origin \in {"chat", "job"} /\ client \in {"here", "gone"} /\ ctxDone \in BOOLEAN
        /\ handler \in {"request", "select", "waitDone", "returned", "none"}
        /\ run \in {"start", "chat"} /\ cause = "none" /\ sent \subseteq Event
    BY DEF Init
  <2> QED
    BY <2>1, <2>2, <2>3, <2>4 DEF TypeOK
<1>4. LoopSound
  BY TurnConstants DEF Init, LoopSound, Returned, Reading, Asking
<1>5. Numbered
  BY <1>1, <1>2 DEF Init, Numbered
<1>6. WholeSound /\ Answering /\ Prompted
  BY DEF Init, WholeSound, Answering, Prompted, Reading, Asking
<1>7. OnlyWholeResponsesStored /\ StoredCallsAnswered
  BY <1>1 DEF Init, OnlyWholeResponsesStored, StoredCallsAnswered
<1> QED
  BY <1>3, <1>4, <1>5, <1>6, <1>7 DEF IInv

LEMMA StepOK == IInv /\ [Next]_vars => IInv'
<1> SUFFICES ASSUME IInv, [Next]_vars PROVE IInv'
  OBVIOUS
<1>1. CASE HandlerStep \/ Leave \/ Disconnect \/ Over \/ UNCHANGED vars
  BY <1>1, ReceiveOK, ForwardOK, HandlerOK DEF HandlerStep
<1>2. CASE FeedStep
  BY <1>2, FeedOK
<1>3. CASE RunStep \/ UserAnswers
  BY <1>3, ChatOK, NextPartOK, NextEndOK, NextClosedOK, NextCancelledOK, ToolOK,
     PromptOK, CloseCancelsOK, CloseStreamOK, PersistOK, PersistFailsOK DEF RunStep
<1> QED
  BY <1>1, <1>2, <1>3 DEF Next

\* The inductive invariant of a turn: what the provider's goroutine, Runner.Run,
\* chatHandler and the client may have done when each stands where it stands.
THEOREM TurnInvariant == Spec => []IInv
  BY InitOK, StepOK, PTL DEF Spec

\* persistTurn stores whole responses only: an assistant row holds all that the
\* provider said before its own end, although a cancelled goroutine closes the
\* channel just as a finished one does; only one text, flushed by the splitter
\* after message_end, may be missing.
THEOREM OnlyWholeResponsesStoredTheorem == Spec => []OnlyWholeResponsesStored
<1>1. IInv => OnlyWholeResponsesStored
  BY DEF IInv
<1> QED
  BY TurnInvariant, <1>1, PTL

\* persistTurn stores a result for every call, once and in call order, whatever
\* became of the tool.
THEOREM StoredCallsAnsweredTheorem == Spec => []StoredCallsAnswered
<1>1. IInv => StoredCallsAnswered
  BY DEF IInv
<1> QED
  BY TurnInvariant, <1>1, PTL

\* The state is well typed, the channels within their capacities, and a prompt
\* the loop waits on is in the channel or was written to the client.
THEOREM PromptNotLostTheorem == Spec => []PromptNotLost
<1>1. IInv => PromptNotLost
  <2> SUFFICES ASSUME IInv PROVE PromptNotLost
    OBVIOUS
  <2>1. DOMAIN events = 1..Len(events)
    BY DEF IInv, TypeOK
  <2>2. Call = assistant[Len(assistant)]
    BY DEF Call, Last
  <2> QED
    BY <2>1, <2>2 DEF IInv, Prompted, PromptNotLost
<1> QED
  BY TurnInvariant, <1>1, PTL

=============================================================================
