-------------------------- MODULE ConversationProofs --------------------------
(***************************************************************************)
(* Proofs about the texts of a conversation: how the stream of a response  *)
(* is split (ThinkSplitter), and how the responses are stored, reloaded    *)
(* and shown again (Transcript).  Both are lists made of lists, FlattenSeq *)
(* of sequences of any length.  What FlattenSeq does to one sequence more  *)
(* (FlattenAppend) and to one list after the other (FlattenConcat), and    *)
(* the statements about all elements that follow from it, are inductions,  *)
(* stated for a set of numbers (SetInduction).                             *)
(*                                                                         *)
(* ThinkSplitter: for texts of any length, any set of tags, any cut into   *)
(* deltas and any limit on what is held back.  SplitAsWritten speaks of    *)
(* the end of the stream.  Before it, Reading says that the splitter       *)
(* stands between two pieces of the text: what it has not read yet is a    *)
(* Window, the delivered characters from the beginning of a piece on, and  *)
(* what it has read is split as it should be.  Three facts keep it so.     *)
(* The first tag the regular expression finds in a window is the first tag *)
(* of the text there (FirstTag).  Where it finds none, every piece that    *)
(* has arrived whole is plain (PlainUntil).  And the cut in front of the   *)
(* last "<" never falls into a tag whose beginning is short enough to be   *)
(* held (HeldTag).                                                         *)
(*                                                                         *)
(* Transcript: for any lengths of texts, inputs and outputs, any window,   *)
(* and any number of turns and steps.  It uses nothing of the splitter's   *)
(* but the laws of lists.  OfType, OfRole, Spoken, History and             *)
(* ToLLMMessages go over a list element by element, so a turn's rows and   *)
(* messages can be judged alone and then joined (KeepsConcat,              *)
(* ShownConcat).  TranscriptInv says that what was stored tells what was   *)
(* lived, and that both it and the transcript in memory stay paired.       *)
(***************************************************************************)
EXTENDS ThinkSplitter, Transcript, SequenceTheorems, WellFoundedInduction, TLAPS

-----------------------------------------------------------------------------
(* Induction over a set of numbers, and FlattenSeq                         *)

\* Every non-empty set of naturals has a least element.
LEMMA LeastExists ==
  ASSUME NEW T \in SUBSET Nat, T # {}
  PROVE  \E a \in T : \A b \in T : a <= b
<1> DEFINE R == OpToRel(<, Nat)
<1>1. IsWellFoundedOn(R, Nat)
  BY NatLessThanWellFounded
<1>2. \A a, b \in Nat : ~(<<b, a>> \in R) => a <= b
  BY DEF OpToRel
<1> HIDE DEF R
<1>3. \E a \in T : \A b \in T : ~(<<b, a>> \in R)
  BY <1>1, WFMin
<1> QED
  BY <1>2, <1>3

\* Induction, stated for a set.
LEMMA SetInduction ==
  ASSUME NEW S \in SUBSET Nat, 0 \in S, \A n \in S : n + 1 \in S
  PROVE  S = Nat
<1>1. SUFFICES ASSUME Nat \ S # {} PROVE FALSE
  OBVIOUS
<1>2. PICK a \in Nat \ S : \A b \in Nat \ S : a <= b
  BY <1>1, LeastExists
<1>3. a - 1 \in Nat /\ a - 1 \in S
  BY <1>2
<1> QED
  BY <1>2, <1>3

\* f holds the concatenations of the beginnings of s: what FlattenSeq's
\* recursive function does at each place up to n.
Concats(f, s, n) ==
    \A i \in 1..n : f[i] = IF i = 1 THEN s[i] ELSE f[i - 1] \o s[i]

\* There is such a function: one place more for one sequence more.
LEMMA ConcatsExist ==
  ASSUME NEW A, NEW s \in Seq(Seq(A))
  PROVE  \E f \in [1..Len(s) -> Seq(A)] : Concats(f, s, Len(s))
<1> DEFINE S == {n \in Nat : n <= Len(s) => \E f \in [1..n -> Seq(A)] : Concats(f, s, n)}
<1>1. 0 \in S
  <2>1. [i \in 1..0 |-> <<>>] \in [1..0 -> Seq(A)]
    OBVIOUS
  <2>2. Concats([i \in 1..0 |-> <<>>], s, 0)
    BY DEF Concats
  <2> QED
    BY <2>1, <2>2
<1>2. ASSUME NEW n \in S PROVE n + 1 \in S
  <2>1. SUFFICES ASSUME n + 1 <= Len(s)
                 PROVE  \E f \in [1..(n + 1) -> Seq(A)] : Concats(f, s, n + 1)
    OBVIOUS
  <2>2. PICK f \in [1..n -> Seq(A)] : Concats(f, s, n)
    BY <1>2, <2>1
  <2> DEFINE x == IF n = 0 THEN s[1] ELSE f[n] \o s[n + 1]
             g == [i \in 1..(n + 1) |-> IF i = n + 1 THEN x ELSE f[i]]
  <2>3. s[n + 1] \in Seq(A)
    BY <1>2, <2>1
  <2>4. x \in Seq(A)
    <3>1. CASE n = 0
      BY <3>1, <2>3
    <3>2. CASE n # 0
      <4>1. f[n] \in Seq(A)
        BY <3>2, <1>2
      <4> QED
        BY <4>1, <3>2, <2>3
    <3> QED
      BY <3>1, <3>2
  <2>5. g \in [1..(n + 1) -> Seq(A)]
    <3> HIDE DEF x
    <3> QED
      BY <2>4, <1>2
  <2>6. Concats(g, s, n + 1)
    <3>1. SUFFICES ASSUME NEW i \in 1..(n + 1)
                   PROVE  g[i] = IF i = 1 THEN s[i] ELSE g[i - 1] \o s[i]
      BY DEF Concats
    <3>2. CASE i = n + 1
      <4>1. CASE n = 0
        BY <4>1, <3>2
      <4>2. CASE n # 0
        <5>1. g[i] = f[n] \o s[n + 1] /\ i # 1 /\ i - 1 = n
          <6>1. x = f[n] \o s[n + 1]
            BY <4>2
          <6>2. i # 1 /\ i - 1 = n
            <7> n \in Nat
              BY <1>2
            <7> HIDE DEF S
            <7> QED
              BY <4>2, <3>2
          <6>3. g[i] = x
            <7> HIDE DEF x
            <7> QED
              BY <3>2
          <6> QED
            BY <6>1, <6>2, <6>3
        <5>2. g[n] = f[n]
          BY <4>2, <1>2
        <5> HIDE DEF g
        <5> QED
          BY <5>1, <5>2, <3>2
      <4> QED
        BY <4>1, <4>2
    <3>3. CASE i # n + 1
      <4>1. i \in 1..n /\ g[i] = f[i]
        BY <3>3, <1>2
      <4>2. i # 1 => g[i - 1] = f[i - 1]
        BY <4>1, <1>2
      <4> HIDE DEF g
      <4> QED
        BY <4>1, <4>2, <2>2 DEF Concats
    <3> QED
      BY <3>2, <3>3
  <2> HIDE DEF g
  <2> QED
    BY <2>5, <2>6
<1>3. S = Nat
  <2> HIDE DEF S
  <2>1. S \in SUBSET Nat
    BY DEF S
  <2> QED
    BY <1>1, <1>2, <2>1, SetInduction
<1>4. Len(s) \in S /\ Len(s) \in Nat
  BY <1>3
<1> QED
  BY <1>4

\* There is only one.
LEMMA ConcatsUnique ==
  ASSUME NEW A, NEW s \in Seq(Seq(A)), NEW f, NEW g,
         Concats(f, s, Len(s)), Concats(g, s, Len(s))
  PROVE  \A i \in 1..Len(s) : f[i] = g[i]
<1> DEFINE S == {n \in Nat : (n + 1) \in 1..Len(s) => f[n + 1] = g[n + 1]}
<1>1. 0 \in S
  BY DEF Concats
<1>2. ASSUME NEW n \in S PROVE n + 1 \in S
  <2>1. SUFFICES ASSUME n + 2 \in 1..Len(s) PROVE f[n + 2] = g[n + 2]
    BY <1>2
  <2>2. f[n + 1] = g[n + 1]
    BY <2>1, <1>2
  <2>3. f[n + 2] = f[n + 1] \o s[n + 2] /\ g[n + 2] = g[n + 1] \o s[n + 2]
    <3>1. n + 2 # 1 /\ (n + 2) - 1 = n + 1
      BY <1>2
    <3> QED
      BY <3>1, <2>1 DEF Concats
  <2> QED
    BY <2>2, <2>3
<1>3. S = Nat
  <2> HIDE DEF S
  <2>1. S \in SUBSET Nat
    BY DEF S
  <2> QED
    BY <1>1, <1>2, <2>1, SetInduction
<1>4. \A i \in 1..Len(s) : i - 1 \in S
  <2> HIDE DEF S
  <2> QED
    BY <1>3
<1> QED
  BY <1>4

\* FlattenSeq is the function's last value: the one FlattenSeq chooses exists,
\* and is the only one.
LEMMA FlattenIsLast ==
  ASSUME NEW A, NEW s \in Seq(Seq(A)), Len(s) # 0,
         NEW f \in [1..Len(s) -> Seq(A)], Concats(f, s, Len(s))
  PROVE  FlattenSeq(s) = f[Len(s)]
<1> DEFINE Step(g) == [i \in 1..Len(s) |-> IF i = 1 THEN s[i] ELSE g[i - 1] \o s[i]]
           h == CHOOSE g : g = Step(g)
<1>1. f = Step(f)
  BY DEF Concats
<1>2. h = Step(h)
  <2> HIDE DEF Step
  <2> QED
    BY <1>1
<1>3. FlattenSeq(s) = h[Len(s)]
  BY DEF FlattenSeq
<1>4. Concats(h, s, Len(s))
  <2> HIDE DEF h
  <2> QED
    BY <1>2 DEF Concats
<1> HIDE DEF h
<1>5. Len(s) \in 1..Len(s)
  OBVIOUS
<1> QED
  BY <1>3, <1>4, <1>5, ConcatsUnique

\* FlattenSeq, one sequence at a time.
LEMMA FlattenEmpty == FlattenSeq(<<>>) = <<>>
  BY DEF FlattenSeq

\* One sequence more at the end: what every induction over a text needs.
LEMMA FlattenAppend ==
  ASSUME NEW A, NEW s \in Seq(Seq(A)), NEW x \in Seq(A)
  PROVE  FlattenSeq(Append(s, x)) = FlattenSeq(s) \o x
<1>1. PICK f \in [1..Len(s) -> Seq(A)] : Concats(f, s, Len(s))
  BY ConcatsExist
<1> DEFINE t == Append(s, x)
           y == IF Len(s) = 0 THEN x ELSE f[Len(s)] \o x
           g == [i \in 1..Len(t) |-> IF i = Len(t) THEN y ELSE f[i]]
<1>2. /\ t \in Seq(Seq(A)) /\ Len(t) = Len(s) + 1 /\ t[Len(t)] = x
      /\ \A i \in 1..Len(s) : t[i] = s[i]
      /\ Len(s) \in Nat /\ Len(t) # 0
  OBVIOUS
<1>3. y \in Seq(A)
  <2>1. CASE Len(s) = 0
    BY <2>1
  <2>2. CASE Len(s) # 0
    <3>1. f[Len(s)] \in Seq(A)
      BY <2>2, <1>2
    <3> QED
      BY <3>1, <2>2
  <2> QED
    BY <2>1, <2>2
<1>4. y = FlattenSeq(s) \o x
  <2>1. CASE Len(s) = 0
    <3>1. s = <<>>
      BY <2>1
    <3>2. <<>> \o x = x
      OBVIOUS
    <3> QED
      BY <2>1, <3>1, <3>2, FlattenEmpty
  <2>2. CASE Len(s) # 0
    BY <2>2, <1>1, FlattenIsLast
  <2> QED
    BY <2>1, <2>2
<1>5. ASSUME Len(s) # 0 PROVE y = f[Len(s)] \o x
  BY <1>5
<1>6. ASSUME Len(s) = 0 PROVE y = x
  BY <1>6
<1> HIDE DEF t, y
<1>7. g \in [1..Len(t) -> Seq(A)]
  BY <1>2, <1>3
<1>8. \A i \in 1..Len(s) : g[i] = f[i]
  BY <1>2
<1>9. g[Len(t)] = y
  BY <1>2
<1> HIDE DEF g
<1>10. Concats(g, t, Len(t))
  <2>1. SUFFICES ASSUME NEW i \in 1..Len(t)
                 PROVE  g[i] = IF i = 1 THEN t[i] ELSE g[i - 1] \o t[i]
    BY DEF Concats
  <2>2. CASE i = Len(t) /\ Len(s) = 0
    BY <2>2, <1>2, <1>6, <1>9
  <2>3. CASE i = Len(t) /\ Len(s) # 0
    <3>1. i # 1 /\ i - 1 = Len(s) /\ Len(s) \in 1..Len(s)
      BY <2>3, <1>2
    <3> QED
      BY <3>1, <2>3, <1>2, <1>5, <1>8, <1>9
  <2>4. CASE i # Len(t)
    <3>1. i \in 1..Len(s) /\ (i # 1 => i - 1 \in 1..Len(s))
      BY <2>4, <1>2
    <3> QED
      BY <3>1, <1>1, <1>2, <1>8 DEF Concats
  <2> QED
    BY <2>2, <2>3, <2>4
<1>11. FlattenSeq(t) = g[Len(t)]
  BY <1>2, <1>7, <1>10, FlattenIsLast
<1> QED
  BY <1>4, <1>9, <1>11 DEF t

-----------------------------------------------------------------------------
(* The text and its characters                                             *)

Pieces == TagNames \cup {Letter, Less}
Glyph == [what: {Letter, Less, "mark"}, tag: TagNames \cup {"none"}, i: Nat, piece: Nat]
Kinds == {"token", "reasoning"}
Event == Kinds \X Glyph
Size(p) == IF p \in TagNames THEN Lengths[p] ELSE 1

\* The characters of the first k pieces, and their number.
Begun(k) == FlattenSeq([j \in 1..k |-> Spelled(text[j], j)])
Off(k)   == Len(Begun(k))

\* The characters of a piece.
LEMMA SpelledSound ==
  ASSUME NEW p \in Pieces, NEW k \in Nat
  PROVE  /\ Spelled(p, k) \in Seq(Glyph)
         /\ Len(Spelled(p, k)) = Size(p)
         /\ Size(p) \in Nat /\ Size(p) >= 1
<1>1. CASE p \in TagNames
  <2>1. Lengths[p] \in Nat /\ Lengths[p] > 1
    BY <1>1, SplitterConstants DEF TagNames
  <2>2. Spelled(p, k) = [i \in 1..Lengths[p] |-> Char(IF i = 1 THEN Less ELSE "mark", p, i, k)]
    BY <1>1 DEF Spelled
  <2>3. \A i \in 1..Lengths[p] : Char(IF i = 1 THEN Less ELSE "mark", p, i, k) \in Glyph
    BY <1>1, <2>1 DEF Char, Glyph
  <2>4. Spelled(p, k) \in [1..Lengths[p] -> Glyph]
    BY <2>2, <2>3
  <2> QED
    BY <1>1, <2>1, <2>4 DEF Size
<1>2. CASE p \notin TagNames
  <2>1. Char(p, "none", 1, k) \in Glyph
    BY <1>2 DEF Pieces, Char, Glyph
  <2>2. Spelled(p, k) = <<Char(p, "none", 1, k)>>
    BY <1>2 DEF Spelled
  <2> HIDE DEF Char
  <2> QED
    BY <1>2, <2>1, <2>2 DEF Size
<1> QED
  BY <1>1, <1>2

\* FlattenSeq over the beginnings of a list made from the pieces.
LEMMA FlattenFirst ==
  ASSUME NEW A, NEW n \in Nat, NEW f \in [1..n -> Seq(A)]
  PROVE  /\ FlattenSeq([j \in 1..0 |-> f[j]]) = <<>>
         /\ \A k \in 1..n : FlattenSeq([j \in 1..k |-> f[j]])
                             = FlattenSeq([j \in 1..(k - 1) |-> f[j]]) \o f[k]
<1>1. [j \in 1..0 |-> f[j]] = <<>>
  OBVIOUS
<1>2. ASSUME NEW k \in 1..n
      PROVE  FlattenSeq([j \in 1..k |-> f[j]])
             = FlattenSeq([j \in 1..(k - 1) |-> f[j]]) \o f[k]
  <2> DEFINE s == [j \in 1..(k - 1) |-> f[j]]
             t == [j \in 1..k |-> f[j]]
  <2>1. k - 1 \in Nat /\ k \in Nat
    OBVIOUS
  <2>2. s \in Seq(Seq(A)) /\ t \in Seq(Seq(A)) /\ f[k] \in Seq(A)
        /\ Len(s) = k - 1 /\ Len(t) = k
    BY <2>1
  <2>3. t[k] = f[k] /\ \A j \in 1..(k - 1) : t[j] = s[j]
    BY <2>1
  <2> HIDE DEF s, t
  <2>4. t = Append(s, f[k])
    BY <2>1, <2>2, <2>3
  <2> QED
    BY <2>2, <2>4, FlattenAppend DEF s, t
<1> QED
  BY <1>1, <1>2, FlattenEmpty

\* The text is read piece by piece.
LEMMA BegunStep ==
  ASSUME text \in Seq(Pieces)
  PROVE  /\ Begun(0) = <<>>
         /\ \A k \in 1..Len(text) : Begun(k) = Begun(k - 1) \o Spelled(text[k], k)
         /\ Chars = Begun(Len(text))
<1> DEFINE f == [j \in 1..Len(text) |-> Spelled(text[j], j)]
<1>1. f \in [1..Len(text) -> Seq(Glyph)]
  BY SpelledSound
<1>2. \A k \in 0..Len(text) : Begun(k) = FlattenSeq([j \in 1..k |-> f[j]])
  <2>1. SUFFICES ASSUME NEW k \in 0..Len(text)
                 PROVE  [j \in 1..k |-> Spelled(text[j], j)] = [j \in 1..k |-> f[j]]
    BY DEF Begun
  <2>2. \A j \in 1..k : f[j] = Spelled(text[j], j)
    OBVIOUS
  <2> HIDE DEF f
  <2> QED
    BY <2>2
<1>3. \A k \in 1..Len(text) : f[k] = Spelled(text[k], k)
  OBVIOUS
<1> HIDE DEF f
<1>4. Begun(0) = <<>>
  <2>1. 0 \in 0..Len(text) /\ Len(text) \in Nat
    OBVIOUS
  <2>2. FlattenSeq([j \in 1..0 |-> f[j]]) = <<>>
    BY <1>1, <2>1, FlattenFirst
  <2> QED
    BY <1>2, <2>1, <2>2
<1>5. ASSUME NEW k \in 1..Len(text) PROVE Begun(k) = Begun(k - 1) \o Spelled(text[k], k)
  <2>1. k \in 0..Len(text) /\ k - 1 \in 0..Len(text) /\ Len(text) \in Nat
    OBVIOUS
  <2>2. FlattenSeq([j \in 1..k |-> f[j]]) = FlattenSeq([j \in 1..(k - 1) |-> f[j]]) \o f[k]
    BY <1>1, <2>1, FlattenFirst
  <2> QED
    BY <1>2, <1>3, <2>1, <2>2
<1>6. Chars = Begun(Len(text))
  <2>1. DOMAIN text = 1..Len(text)
    OBVIOUS
  <2> QED
    BY <2>1 DEF Chars, Begun
<1> QED
  BY <1>4, <1>5, <1>6

\* A piece's characters follow those of the pieces before it.
LEMMA OffStep ==
  ASSUME text \in Seq(Pieces)
  PROVE  /\ Off(0) = 0
         /\ \A k \in 0..Len(text) : Begun(k) \in Seq(Glyph) /\ Off(k) \in Nat
         /\ \A k \in 1..Len(text) : /\ Off(k) = Off(k - 1) + Size(text[k])
                                    /\ Size(text[k]) \in Nat /\ Size(text[k]) >= 1
         /\ Chars \in Seq(Glyph) /\ Len(Chars) = Off(Len(text))
<1> DEFINE S == {n \in Nat : n <= Len(text) => Begun(n) \in Seq(Glyph)}
<1>1. 0 \in S
  <2>1. <<>> \in Seq(Glyph)
    OBVIOUS
  <2>2. Begun(0) \in Seq(Glyph)
    BY <2>1, BegunStep
  <2> QED
    BY <2>2
<1>2. ASSUME NEW n \in S PROVE n + 1 \in S
  <2>1. SUFFICES ASSUME n + 1 <= Len(text) PROVE Begun(n + 1) \in Seq(Glyph)
    OBVIOUS
  <2>2. n \in Nat /\ Begun(n) \in Seq(Glyph)
    BY <2>1
  <2>3. n + 1 \in 1..Len(text) /\ (n + 1) - 1 = n /\ text[n + 1] \in Pieces
    BY <2>1, <2>2
  <2>4. Begun(n + 1) = Begun(n) \o Spelled(text[n + 1], n + 1)
    BY <2>3, BegunStep
  <2>5. Spelled(text[n + 1], n + 1) \in Seq(Glyph)
    BY <2>2, <2>3, SpelledSound
  <2>6. Begun(n) \o Spelled(text[n + 1], n + 1) \in Seq(Glyph)
    <3> HIDE DEF S
    <3> QED
      BY <2>2, <2>5
  <2> QED
    BY <2>4, <2>6
<1>3. S = Nat
  <2> HIDE DEF S
  <2>1. S \in SUBSET Nat
    BY DEF S
  <2> QED
    BY <1>1, <1>2, <2>1, SetInduction
<1>4. ASSUME NEW k \in 0..Len(text) PROVE Begun(k) \in Seq(Glyph) /\ Off(k) \in Nat
  <2>1. k \in S
    <3> HIDE DEF S
    <3> QED
      BY <1>3
  <2>2. Begun(k) \in Seq(Glyph)
    BY <2>1
  <2> QED
    BY <2>2 DEF Off
<1> HIDE DEF S
<1>5. ASSUME NEW k \in 1..Len(text)
      PROVE  /\ Off(k) = Off(k - 1) + Size(text[k])
             /\ Size(text[k]) \in Nat /\ Size(text[k]) >= 1
  <2>1. k \in Nat /\ k - 1 \in 0..Len(text) /\ text[k] \in Pieces
    OBVIOUS
  <2>2. PICK c \in Seq(Glyph) : c = Spelled(text[k], k)
    BY <2>1, SpelledSound
  <2>3. Len(c) = Size(text[k]) /\ Size(text[k]) \in Nat /\ Size(text[k]) >= 1
    BY <2>1, <2>2, SpelledSound
  <2>4. PICK d \in Seq(Glyph) : d = Begun(k - 1)
    BY <1>4, <2>1
  <2>5. Begun(k) = d \o c
    BY <2>2, <2>4, BegunStep
  <2>6. Len(d \o c) = Len(d) + Len(c)
    OBVIOUS
  <2>7. Off(k) = Len(d \o c) /\ Off(k - 1) = Len(d)
    BY <2>4, <2>5 DEF Off
  <2> QED
    BY <2>3, <2>6, <2>7
<1>6. Off(0) = 0
  BY BegunStep DEF Off
<1>7. Len(text) \in 0..Len(text)
  OBVIOUS
<1> QED
  BY <1>4, <1>5, <1>6, <1>7, BegunStep DEF Off

\* The characters of the first pieces are the first characters.
LEMMA BegunPrefix ==
  ASSUME text \in Seq(Pieces), NEW k \in 0..Len(text), NEW m \in 0..Len(text), k <= m
  PROVE  /\ Off(k) <= Off(m)
         /\ \A p \in 1..Off(k) : Begun(m)[p] = Begun(k)[p]
<1> DEFINE S == {n \in Nat : k + n <= Len(text) =>
                    /\ Off(k) <= Off(k + n)
                    /\ \A p \in 1..Off(k) : Begun(k + n)[p] = Begun(k)[p]}
<1>1. 0 \in S
  <2>1. k + 0 = k /\ Off(k) \in Nat
    BY OffStep
  <2> QED
    BY <2>1
<1>2. ASSUME NEW n \in S PROVE n + 1 \in S
  <2>1. n \in Nat
    OBVIOUS
  <2>2. SUFFICES ASSUME k + (n + 1) <= Len(text)
                 PROVE  /\ Off(k) <= Off(k + (n + 1))
                        /\ \A p \in 1..Off(k) : Begun(k + (n + 1))[p] = Begun(k)[p]
    BY <2>1
  <2>3. k + n <= Len(text)
    BY <2>1, <2>2
  <2>4. Off(k) <= Off(k + n) /\ \A p \in 1..Off(k) : Begun(k + n)[p] = Begun(k)[p]
    BY <2>3
  <2> HIDE DEF S
  <2>5. PICK j \in 1..Len(text) : j = k + (n + 1) /\ j - 1 = k + n /\ j - 1 \in 0..Len(text)
    BY <2>1, <2>2
  <2>6. PICK c \in Seq(Glyph) : c = Spelled(text[j], j)
    BY <2>5, SpelledSound
  <2>7. PICK d \in Seq(Glyph) : d = Begun(j - 1)
    BY <2>5, OffStep
  <2>8. Begun(j) = d \o c
    BY <2>6, <2>7, BegunStep
  <2>9. Off(j - 1) = Len(d) /\ Off(k) \in Nat
    BY <2>7, OffStep DEF Off
  <2>10. Off(j) = Len(d) + Len(c)
    BY <2>8 DEF Off
  <2>11. \A p \in 1..Off(k) : Begun(j)[p] = d[p]
    BY <2>4, <2>5, <2>8, <2>9
  <2>12. Off(k) <= Off(j)
    BY <2>4, <2>5, <2>9, <2>10
  <2>13. \A p \in 1..Off(k) : Begun(j)[p] = Begun(k)[p]
    BY <2>4, <2>5, <2>7, <2>11
  <2> QED
    BY <2>5, <2>12, <2>13
<1>3. S = Nat
  <2> HIDE DEF S
  <2>1. S \in SUBSET Nat
    BY DEF S
  <2> QED
    BY <1>1, <1>2, <2>1, SetInduction
<1>4. m - k \in S
  <2> HIDE DEF S
  <2> QED
    BY <1>3
<1>5. k + (m - k) = m /\ m <= Len(text)
  OBVIOUS
<1> QED
  BY <1>4, <1>5

\* Every character has its place, and every place its character.
LEMMA Placed ==
  ASSUME text \in Seq(Pieces), NEW k \in 1..Len(text), NEW q \in 1..Size(text[k])
  PROVE  /\ Off(k - 1) + q \in 1..Len(Chars)
         /\ Chars[Off(k - 1) + q] = Spelled(text[k], k)[q]
<1>1. k \in 0..Len(text) /\ k - 1 \in 0..Len(text) /\ Len(text) \in 0..Len(text) /\ k <= Len(text)
  OBVIOUS
<1>2. PICK c \in Seq(Glyph) : c = Spelled(text[k], k) /\ Len(c) = Size(text[k])
  BY SpelledSound
<1>3. PICK d \in Seq(Glyph) : d = Begun(k - 1) /\ Len(d) = Off(k - 1)
  BY <1>1, OffStep DEF Off
<1>4. Begun(k) = d \o c
  BY <1>2, <1>3, BegunStep
<1>5. Begun(k)[Len(d) + q] = c[q] /\ Len(d) + q \in 1..Off(k)
  BY <1>2, <1>4 DEF Off
<1>6. Off(k) <= Off(Len(text)) /\ Begun(Len(text))[Len(d) + q] = Begun(k)[Len(d) + q]
  BY <1>1, <1>5, BegunPrefix
<1>7. Off(k) \in Nat /\ Len(Chars) = Off(Len(text)) /\ Off(Len(text)) \in Nat
  BY <1>1, OffStep
<1>8. Len(d) + q \in 1..Len(Chars)
  BY <1>5, <1>6, <1>7
<1>9. Chars[Len(d) + q] = c[q]
  BY <1>5, <1>6, BegunStep
<1> QED
  BY <1>2, <1>3, <1>8, <1>9

\* Every character of the text belongs to a piece.
LEMMA Located ==
  ASSUME text \in Seq(Pieces), NEW p \in 1..Len(Chars)
  PROVE  \E k \in 1..Len(text) : \E q \in 1..Size(text[k]) : p = Off(k - 1) + q
<1> DEFINE S == {n \in Nat : n <= Len(text) /\ p <= Off(n) =>
                    \E k \in 1..Len(text) : \E q \in 1..Size(text[k]) : p = Off(k - 1) + q}
<1>1. 0 \in S
  BY OffStep
<1>2. ASSUME NEW n \in S PROVE n + 1 \in S
  <2>1. n \in Nat
    OBVIOUS
  <2>2. SUFFICES ASSUME n + 1 <= Len(text), p <= Off(n + 1)
                 PROVE  \E k \in 1..Len(text) : \E q \in 1..Size(text[k]) : p = Off(k - 1) + q
    BY <2>1
  <2>3. CASE p <= Off(n)
    BY <2>1, <2>2, <2>3
  <2>4. CASE ~(p <= Off(n))
    <3> HIDE DEF S
    <3>1. PICK k \in 1..Len(text) : k = n + 1 /\ k - 1 = n /\ n \in 0..Len(text)
      BY <2>1, <2>2
    <3>2. Off(k) = Off(k - 1) + Size(text[k]) /\ Size(text[k]) \in Nat /\ Off(k - 1) \in Nat
      BY <3>1, OffStep
    <3>3. p - Off(k - 1) \in 1..Size(text[k]) /\ p = Off(k - 1) + (p - Off(k - 1))
      BY <3>1, <3>2, <2>2, <2>4
    <3> QED
      BY <3>3
  <2> QED
    BY <2>3, <2>4
<1>3. S = Nat
  <2> HIDE DEF S
  <2>1. S \in SUBSET Nat
    BY DEF S
  <2> QED
    BY <1>1, <1>2, <2>1, SetInduction
<1>4. Len(text) \in S
  <2> HIDE DEF S
  <2> QED
    BY <1>3
<1>5. Len(text) <= Len(text) /\ p <= Off(Len(text))
  BY OffStep
<1> QED
  BY <1>4, <1>5

-----------------------------------------------------------------------------
(* What the text means                                                     *)

Kind(k) == IF Within(k) THEN "reasoning" ELSE "token"

\* What the first k pieces are split into.
Split(k) == FlattenSeq([j \in 1..k |->
                 IF text[j] \in TagNames THEN <<>> ELSE As(Kind(j), Spelled(text[j], j))])

\* Pieces b + 1 to c are not tags.
Plain(b, c) == \A j \in (b + 1)..c : text[j] \notin TagNames

\* As labels every character of a string.
LEMMA AsSound ==
  ASSUME NEW kind \in Kinds, NEW s \in Seq(Glyph)
  PROVE  /\ As(kind, s) \in Seq(Event)
         /\ Len(As(kind, s)) = Len(s)
         /\ \A i \in 1..Len(s) : As(kind, s)[i] = <<kind, s[i]>>
<1>1. As(kind, s) = [i \in 1..Len(s) |-> <<kind, s[i]>>]
  BY DEF As
<1>2. \A i \in 1..Len(s) : <<kind, s[i]>> \in Event
  BY DEF Event
<1>3. As(kind, s) \in [1..Len(s) -> Event]
  BY <1>1, <1>2
<1> QED
  BY <1>1, <1>3

\* Nothing is labelled in the empty string.
LEMMA AsEmpty == \A kind : As(kind, <<>>) = <<>>
  BY DEF As

\* What is where in a concatenation.
LEMMA ConcatAt ==
  ASSUME NEW A, NEW s \in Seq(A), NEW t \in Seq(A), NEW u, u = s \o t
  PROVE  /\ u \in Seq(A)
         /\ Len(s) \in Nat /\ Len(t) \in Nat /\ Len(u) = Len(s) + Len(t)
         /\ \A i \in 1..Len(s) : u[i] = s[i]
         /\ \A i \in 1..Len(t) : u[Len(s) + i] = t[i]
<1>1. u \in Seq(A) /\ Len(u) = Len(s) + Len(t) /\ Len(s) \in Nat /\ Len(t) \in Nat
  BY ConcatProperties, LenProperties
<1>2. \A i \in 1..(Len(s) + Len(t)) : u[i] = IF i <= Len(s) THEN s[i] ELSE t[i - Len(s)]
  BY ConcatProperties
<1>3. \A i \in 1..Len(s) : u[i] = s[i]
  BY <1>1, <1>2
<1>4. ASSUME NEW i \in 1..Len(t) PROVE u[Len(s) + i] = t[i]
  <2>1. Len(s) + i \in 1..(Len(s) + Len(t)) /\ ~(Len(s) + i <= Len(s)) /\ (Len(s) + i) - Len(s) = i
    BY <1>1
  <2> QED
    BY <1>2, <2>1
<1> QED
  BY <1>1, <1>3, <1>4

\* Concatenation of events is associative.
LEMMA EventsConcat ==
  ASSUME NEW s \in Seq(Event), NEW t \in Seq(Event), NEW u \in Seq(Event)
  PROVE  (s \o t) \o u = s \o (t \o u)
  BY ConcatAssociative

\* As distributes over concatenation.
LEMMA AsConcat ==
  ASSUME NEW kind \in Kinds, NEW s \in Seq(Glyph), NEW t \in Seq(Glyph)
  PROVE  As(kind, s \o t) = As(kind, s) \o As(kind, t)
<1>1. PICK u \in Seq(Glyph) : u = s \o t
  BY ConcatProperties
<1>2. PICK a \in Seq(Event) : a = As(kind, s)
  BY AsSound
<1>3. PICK b \in Seq(Event) : b = As(kind, t)
  BY AsSound
<1>4. PICK c \in Seq(Event) : c = As(kind, u)
  BY AsSound
<1>5. PICK d \in Seq(Event) : d = a \o b
  BY ConcatProperties
<1>6. /\ Len(s) \in Nat /\ Len(t) \in Nat /\ Len(u) = Len(s) + Len(t)
      /\ \A i \in 1..Len(s) : u[i] = s[i]
      /\ \A i \in 1..Len(t) : u[Len(s) + i] = t[i]
  BY <1>1, ConcatAt
<1>7. Len(a) = Len(s) /\ \A i \in 1..Len(s) : a[i] = <<kind, s[i]>>
  BY <1>2, AsSound
<1>8. Len(b) = Len(t) /\ \A i \in 1..Len(t) : b[i] = <<kind, t[i]>>
  BY <1>3, AsSound
<1>9. Len(c) = Len(u) /\ \A i \in 1..Len(u) : c[i] = <<kind, u[i]>>
  BY <1>4, AsSound
<1>10. /\ Len(d) = Len(s) + Len(t)
       /\ \A i \in 1..Len(s) : d[i] = a[i]
       /\ \A i \in 1..Len(t) : d[Len(s) + i] = b[i]
  <2>1. /\ Len(d) = Len(a) + Len(b)
        /\ \A i \in 1..Len(a) : d[i] = a[i]
        /\ \A i \in 1..Len(b) : d[Len(a) + i] = b[i]
    BY <1>5, ConcatAt
  <2> QED
    BY <1>7, <1>8, <2>1
<1>11. ASSUME NEW i \in 1..Len(c) PROVE c[i] = d[i]
  <2>1. CASE i <= Len(s)
    <3>1. i \in 1..Len(s) /\ i \in 1..Len(u)
      BY <2>1, <1>6, <1>9
    <3> QED
      BY <3>1, <1>6, <1>7, <1>9, <1>10
  <2>2. CASE ~(i <= Len(s))
    <3>1. PICK j \in 1..Len(t) : i = Len(s) + j /\ i \in 1..Len(u)
      <4>1. i - Len(s) \in 1..Len(t) /\ i = Len(s) + (i - Len(s)) /\ i \in 1..Len(u)
        BY <2>2, <1>6, <1>9
      <4> QED
        BY <4>1
    <3>2. c[i] = <<kind, t[j]>>
      BY <3>1, <1>6, <1>9
    <3>3. d[i] = b[j]
      BY <3>1, <1>10
    <3> QED
      BY <3>2, <3>3, <1>8
  <2> QED
    BY <2>1, <2>2
<1>12. Len(c) = Len(d)
  BY <1>6, <1>9, <1>10
<1>13. c = d
  BY <1>11, <1>12, SeqEqual
<1> QED
  BY <1>1, <1>2, <1>3, <1>4, <1>5, <1>13

\* An upper bound in the set is Most of it.
LEMMA MostSound ==
  ASSUME NEW T \in SUBSET Nat, NEW m \in T, \A j \in T : j <= m
  PROVE  Most(T) = m
<1>1. Most(T) \in T /\ \A j \in T : j <= Most(T)
  BY DEF Most
<1>2. Most(T) \in Nat /\ m \in Nat /\ m <= Most(T) /\ Most(T) <= m
  BY <1>1
<1> QED
  BY <1>2

\* The block the reader is in after a piece.
LEMMA WithinStep ==
  ASSUME text \in Seq(Pieces), NEW k \in 1..Len(text)
  PROVE  /\ Within(1) = FALSE
         /\ text[k] \in TagNames => (Within(k + 1) <=> text[k] \in Opens)
         /\ text[k] \notin TagNames => (Within(k + 1) <=> Within(k))
<1> DEFINE T(n) == {j \in 1..(n - 1) : text[j] \in TagNames}
<1>1. T(1) = {}
  OBVIOUS
<1>2. ASSUME text[k] \in TagNames PROVE Within(k + 1) <=> text[k] \in Opens
  <2>1. k \in T(k + 1) /\ T(k + 1) \in SUBSET Nat /\ \A j \in T(k + 1) : j <= k
    BY <1>2
  <2>2. Most(T(k + 1)) = k
    <3> HIDE DEF T
    <3> QED
      BY <2>1, MostSound
  <2> QED
    BY <2>1, <2>2 DEF Within
<1>3. ASSUME text[k] \notin TagNames PROVE Within(k + 1) <=> Within(k)
  <2>1. T(k + 1) = T(k)
    BY <1>3
  <2> QED
    BY <2>1 DEF Within
<1> QED
  BY <1>1, <1>2, <1>3 DEF Within

\* One piece more: a tag adds nothing, any other piece its characters.
LEMMA SplitStep ==
  ASSUME text \in Seq(Pieces)
  PROVE  /\ Split(0) = <<>>
         /\ \A k \in 1..Len(text) :
              /\ text[k] \in TagNames => Split(k) = Split(k - 1) \o <<>>
              /\ text[k] \notin TagNames =>
                   Split(k) = Split(k - 1) \o As(Kind(k), Spelled(text[k], k))
<1> DEFINE e(j) == IF text[j] \in TagNames THEN <<>> ELSE As(Kind(j), Spelled(text[j], j))
           f == [j \in 1..Len(text) |-> e(j)]
<1>1. ASSUME NEW j \in 1..Len(text) PROVE e(j) \in Seq(Event)
  <2>1. Kind(j) \in Kinds
    BY DEF Kind, Kinds
  <2>2. Spelled(text[j], j) \in Seq(Glyph)
    BY SpelledSound
  <2>3. As(Kind(j), Spelled(text[j], j)) \in Seq(Event)
    BY <2>1, <2>2, AsSound
  <2>4. <<>> \in Seq(Event)
    OBVIOUS
  <2> QED
    BY <2>3, <2>4
<1>2. \A k : Split(k) = FlattenSeq([j \in 1..k |-> e(j)])
  BY DEF Split
<1>3. \A k \in 1..Len(text) :
        /\ text[k] \in TagNames => e(k) = <<>>
        /\ text[k] \notin TagNames => e(k) = As(Kind(k), Spelled(text[k], k))
  OBVIOUS
<1> HIDE DEF e
<1>4. f \in [1..Len(text) -> Seq(Event)]
  BY <1>1
<1>5. \A k \in 0..Len(text) : [j \in 1..k |-> e(j)] = [j \in 1..k |-> f[j]]
  <2> TAKE k \in 0..Len(text)
  <2>1. \A j \in 1..k : f[j] = e(j)
    OBVIOUS
  <2> HIDE DEF f
  <2> QED
    BY <2>1
<1>6. \A k \in 1..Len(text) : f[k] = e(k)
  OBVIOUS
<1> HIDE DEF f
<1>7. Split(0) = <<>>
  <2>1. 0 \in 0..Len(text) /\ Len(text) \in Nat
    OBVIOUS
  <2>2. FlattenSeq([j \in 1..0 |-> f[j]]) = <<>>
    BY <1>4, <2>1, FlattenFirst
  <2> QED
    BY <1>2, <1>5, <2>1, <2>2
<1>8. ASSUME NEW k \in 1..Len(text) PROVE Split(k) = Split(k - 1) \o e(k)
  <2>1. k \in 0..Len(text) /\ k - 1 \in 0..Len(text) /\ Len(text) \in Nat
    OBVIOUS
  <2>2. FlattenSeq([j \in 1..k |-> f[j]]) = FlattenSeq([j \in 1..(k - 1) |-> f[j]]) \o f[k]
    BY <1>4, <2>1, FlattenFirst
  <2> QED
    BY <1>2, <1>5, <1>6, <2>1, <2>2
<1> QED
  BY <1>3, <1>7, <1>8

-----------------------------------------------------------------------------
(* Slices                                                                  *)

\* The characters m + 1 to n of s.
LEMMA SliceSound ==
  ASSUME NEW A, NEW s \in Seq(A), NEW m \in Nat, NEW n \in Nat, m <= n, n <= Len(s),
         NEW u, u = SubSeq(s, m + 1, n)
  PROVE  /\ u \in Seq(A) /\ Len(u) = n - m /\ n - m \in Nat
         /\ \A i \in 1..(n - m) : u[i] = s[m + i]
<1>1. \A i \in (m + 1)..n : s[i] \in A
  OBVIOUS
<1>2. PICK k \in Nat : k = m + 1 /\ k \in Int /\ n \in Int
  OBVIOUS
<1>3. /\ SubSeq(s, k, n) \in Seq(A)
      /\ Len(SubSeq(s, k, n)) = IF k <= n THEN n - k + 1 ELSE 0
      /\ \A i \in 1..(n - k + 1) : SubSeq(s, k, n)[i] = s[k + i - 1]
  BY <1>1, <1>2, SubSeqProperties
<1>4. (IF k <= n THEN n - k + 1 ELSE 0) = n - m /\ n - k + 1 = n - m /\ n - m \in Nat
  BY <1>2
<1>5. \A i \in 1..(n - m) : k + i - 1 = m + i
  BY <1>2
<1> QED
  BY <1>2, <1>3, <1>4, <1>5

\* Two slices that meet are one.
LEMMA SliceJoin ==
  ASSUME NEW A, NEW s \in Seq(A), NEW m \in Nat, NEW k \in Nat, NEW n \in Nat,
         m <= k, k <= n, n <= Len(s)
  PROVE  SubSeq(s, m + 1, k) \o SubSeq(s, k + 1, n) = SubSeq(s, m + 1, n)
<1>1. PICK j \in 1..(Len(s) + 1) : j = m + 1
  OBVIOUS
<1>2. k \in (j - 1)..Len(s) /\ n \in k..Len(s)
  BY <1>1
<1> QED
  BY <1>1, <1>2, ConcatAdjacentSubSeq

\* A slice of a slice.
LEMMA SliceSlice ==
  ASSUME NEW A, NEW s \in Seq(A), NEW m \in Nat, NEW n \in Nat, m <= n, n <= Len(s),
         NEW u, u = SubSeq(s, m + 1, n),
         NEW i \in Nat, NEW j \in Nat, i <= j, j <= n - m
  PROVE  SubSeq(u, i + 1, j) = SubSeq(s, (m + i) + 1, m + j)
<1>1. u \in Seq(A) /\ Len(u) = n - m /\ \A x \in 1..(n - m) : u[x] = s[m + x]
  BY SliceSound
<1>2. PICK v : v = SubSeq(u, i + 1, j)
  OBVIOUS
<1>3. v \in Seq(A) /\ Len(v) = j - i /\ \A x \in 1..(j - i) : v[x] = u[i + x]
  BY <1>1, <1>2, SliceSound
<1>4. PICK a \in Nat, b \in Nat : a = m + i /\ b = m + j /\ a <= b /\ b <= Len(s) /\ b - a = j - i
  OBVIOUS
<1>5. PICK w : w = SubSeq(s, a + 1, b)
  OBVIOUS
<1>6. w \in Seq(A) /\ Len(w) = b - a /\ \A x \in 1..(b - a) : w[x] = s[a + x]
  BY <1>4, <1>5, SliceSound
<1>7. ASSUME NEW x \in 1..Len(v) PROVE v[x] = w[x]
  <2>1. x \in 1..(j - i) /\ x \in 1..(b - a) /\ i + x \in 1..(n - m) /\ m + (i + x) = a + x
    BY <1>3, <1>4
  <2> QED
    BY <2>1, <1>1, <1>3, <1>6
<1>8. v = w
  BY <1>3, <1>4, <1>6, <1>7, SeqEqual
<1> QED
  BY <1>2, <1>4, <1>5, <1>8

\* The slice between two places of the text is the piece between them.
LEMMA PieceSlice ==
  ASSUME text \in Seq(Pieces), NEW k \in 1..Len(text)
  PROVE  SubSeq(Chars, Off(k - 1) + 1, Off(k)) = Spelled(text[k], k)
<1>1. k \in 0..Len(text) /\ k - 1 \in 0..Len(text) /\ Len(text) \in 0..Len(text) /\ k <= Len(text)
      /\ k \in Nat /\ text[k] \in Pieces
  OBVIOUS
<1>2. PICK m \in Nat, n \in Nat : m = Off(k - 1) /\ n = Off(k)
  BY <1>1, OffStep
<1>3. n = m + Size(text[k]) /\ Size(text[k]) \in Nat
  BY <1>2, OffStep
<1>4. Chars \in Seq(Glyph) /\ n <= Len(Chars)
  BY <1>1, <1>2, OffStep, BegunPrefix
<1>5. PICK u : u = SubSeq(Chars, m + 1, n)
  OBVIOUS
<1>6. m <= n /\ n - m = Size(text[k])
  BY <1>3
<1>7. u \in Seq(Glyph) /\ Len(u) = n - m /\ \A i \in 1..(n - m) : u[i] = Chars[m + i]
  BY <1>4, <1>5, <1>6, SliceSound, SMTT(30)
<1>8. PICK c \in Seq(Glyph) : c = Spelled(text[k], k) /\ Len(c) = Size(text[k])
  BY <1>1, SpelledSound
<1>9. \A i \in 1..Size(text[k]) : Chars[m + i] = c[i]
  BY <1>2, <1>8, Placed
<1>10. u = c
  BY <1>6, <1>7, <1>8, <1>9, SeqEqual
<1> QED
  BY <1>2, <1>5, <1>8, <1>10

\* A place of the text is outside a block or inside.
LEMMA KindSound == \A k : Kind(k) \in Kinds
  BY DEF Kind, Kinds

\* Splitting gives events.
LEMMA SplitType ==
  ASSUME text \in Seq(Pieces)
  PROVE  \A k \in 0..Len(text) : Split(k) \in Seq(Event)
<1> DEFINE S == {n \in Nat : n <= Len(text) => Split(n) \in Seq(Event)}
<1>1. 0 \in S
  <2>1. Split(0) \in Seq(Event)
    BY SplitStep, EmptySeq
  <2> QED
    BY <2>1
<1>2. ASSUME NEW n \in S PROVE n + 1 \in S
  <2>1. n \in Nat
    OBVIOUS
  <2>2. SUFFICES ASSUME n + 1 <= Len(text) PROVE Split(n + 1) \in Seq(Event)
    BY <2>1
  <2>3. PICK d \in Seq(Event) : d = Split(n)
    BY <2>1, <2>2
  <2> HIDE DEF S
  <2>4. PICK j \in 1..Len(text) : j = n + 1 /\ j - 1 = n /\ text[j] \in Pieces /\ j \in Nat
    BY <2>1, <2>2
  <2>5. CASE text[j] \in TagNames
    <3>1. Split(j) = d \o <<>>
      BY <2>3, <2>4, <2>5, SplitStep
    <3> QED
      BY <2>4, <3>1, ConcatEmptySeq
  <2>6. CASE text[j] \notin TagNames
    <3>1. PICK c \in Seq(Event) : c = As(Kind(j), Spelled(text[j], j))
      BY <2>4, KindSound, SpelledSound, AsSound
    <3>2. Split(j) = d \o c
      BY <2>3, <2>4, <2>6, <3>1, SplitStep
    <3> QED
      BY <2>4, <3>2, ConcatProperties
  <2> QED
    BY <2>5, <2>6
<1>3. S = Nat
  <2> HIDE DEF S
  <2>1. S \in SUBSET Nat
    BY DEF S
  <2> QED
    BY <1>1, <1>2, <2>1, SetInduction
<1>4. ASSUME NEW k \in 0..Len(text) PROVE Split(k) \in Seq(Event)
  <2>1. k \in S
    <3> HIDE DEF S
    <3> QED
      BY <1>3
  <2> QED
    BY <2>1
<1> QED
  BY <1>4

\* Where there is no tag, the reader stays inside or outside a block.
LEMMA PlainRun ==
  ASSUME text \in Seq(Pieces), NEW b \in 0..Len(text), NEW c \in 0..Len(text), b <= c,
         Plain(b, c)
  PROVE  /\ Within(c + 1) <=> Within(b + 1)
         /\ Split(c) = Split(b) \o As(Kind(b + 1), SubSeq(Chars, Off(b) + 1, Off(c)))
<1> DEFINE Run(k) == /\ Within(k + 1) <=> Within(b + 1)
                     /\ Split(k) = Split(b) \o As(Kind(b + 1), SubSeq(Chars, Off(b) + 1, Off(k)))
           S == {n \in Nat : b + n <= c => Run(b + n)}
<1>1. PICK sb \in Seq(Event) : sb = Split(b)
  BY SplitType
<1>2. PICK ob \in Nat : ob = Off(b)
  BY OffStep
<1>3. Chars \in Seq(Glyph) /\ Kind(b + 1) \in Kinds
  BY OffStep, KindSound
<1>4. 0 \in S
  <2>1. b + 0 = b /\ ob < ob + 1 /\ ob + 1 \in Int /\ ob \in Int
    OBVIOUS
  <2>2. SubSeq(Chars, ob + 1, ob) = <<>>
    BY <2>1, SubSeqEmpty
  <2>3. sb \o <<>> = sb
    BY ConcatEmptySeq
  <2>4. Run(b)
    BY <1>1, <1>2, <2>2, <2>3, AsEmpty
  <2> HIDE DEF Run
  <2> QED
    BY <2>1, <2>4
<1>5. ASSUME NEW n \in S PROVE n + 1 \in S
  <2>1. n \in Nat
    OBVIOUS
  <2>2. SUFFICES ASSUME b + (n + 1) <= c PROVE Run(b + (n + 1))
    BY <2>1
  <2>3. Run(b + n)
    BY <2>1, <2>2
  <2> HIDE DEF S
  <2>4. PICK j \in 1..Len(text) : /\ j = b + (n + 1) /\ j - 1 = b + n /\ (j - 1) + 1 = j
                                  /\ j \in (b + 1)..c /\ j \in Nat /\ j - 1 \in 0..Len(text)
                                  /\ j \in 0..Len(text) /\ b <= j - 1 /\ j <= Len(text)
                                  /\ Len(text) \in 0..Len(text) /\ text[j] \in Pieces
    BY <2>1, <2>2
  <2>5. text[j] \notin TagNames
    BY <2>4 DEF Plain
  <2>6. Within(j + 1) <=> Within(b + 1)
    <3>1. Within(j + 1) <=> Within(j)
      BY <2>5, WithinStep
    <3> QED
      BY <3>1, <2>3, <2>4
  <2>7. Kind(j) = Kind(b + 1)
    BY <2>3, <2>4 DEF Kind
  <2>8. PICK m \in Nat, o \in Nat : /\ m = Off(j - 1) /\ o = Off(j) /\ ob <= m /\ m <= o
                                    /\ o <= Len(Chars)
    <3>1. Off(j - 1) \in Nat /\ Off(j) \in Nat /\ Len(Chars) = Off(Len(text))
      BY <2>4, OffStep
    <3>2. Off(b) <= Off(j - 1)
      BY <2>4, BegunPrefix
    <3>3. Off(j - 1) <= Off(j)
      <4>1. j - 1 <= j
        BY <2>4
      <4> QED
        BY <2>4, <4>1, BegunPrefix
    <3>4. Off(j) <= Off(Len(text))
      BY <2>4, BegunPrefix
    <3> QED
      BY <1>2, <3>1, <3>2, <3>3, <3>4
  <2>9. PICK x \in Seq(Glyph) : x = SubSeq(Chars, ob + 1, m)
    <3>1. m <= Len(Chars)
      BY <2>8, <1>3
    <3> QED
      BY <1>3, <2>8, <3>1, SliceSound
  <2>10. PICK y \in Seq(Glyph) : y = SubSeq(Chars, m + 1, o)
    BY <1>3, <2>8, SliceSound
  <2>11. y = Spelled(text[j], j)
    BY <2>8, <2>10, PieceSlice
  <2>12. x \o y = SubSeq(Chars, ob + 1, o)
    <3>1. ob <= m /\ m <= o /\ o <= Len(Chars)
      BY <2>8
    <3>2. SubSeq(Chars, ob + 1, m) \o SubSeq(Chars, m + 1, o) = SubSeq(Chars, ob + 1, o)
      BY <1>3, <3>1, SliceJoin
    <3> QED
      BY <2>9, <2>10, <3>2
  <2>13. PICK ax \in Seq(Event) : ax = As(Kind(b + 1), x)
    BY <1>3, AsSound
  <2>14. PICK ay \in Seq(Event) : ay = As(Kind(b + 1), y)
    BY <1>3, AsSound
  <2>15. As(Kind(b + 1), x \o y) = ax \o ay
    BY <1>3, <2>13, <2>14, AsConcat
  <2>16. Split(j - 1) = sb \o ax
    BY <2>3, <2>4, <1>1, <1>2, <2>8, <2>9, <2>13
  <2>17. Split(j) = (sb \o ax) \o ay
    BY <2>5, <2>7, <2>11, <2>14, <2>16, SplitStep
  <2>18. (sb \o ax) \o ay = sb \o (ax \o ay)
    <3> HIDE DEF Run
    <3> QED
      BY EventsConcat
  <2>19. Split(j) = Split(b) \o As(Kind(b + 1), SubSeq(Chars, Off(b) + 1, Off(j)))
    BY <1>1, <1>2, <2>8, <2>12, <2>15, <2>17, <2>18
  <2>20. Run(j)
    BY <2>6, <2>19
  <2> HIDE DEF Run
  <2> QED
    BY <2>4, <2>20
<1>6. S = Nat
  <2> HIDE DEF S, Run
  <2>1. S \in SUBSET Nat
    BY DEF S
  <2> QED
    BY <1>4, <1>5, <2>1, SetInduction
<1>7. c - b \in S
  <2> HIDE DEF S, Run
  <2> QED
    BY <1>6
<1>8. b + (c - b) = c /\ c <= c
  OBVIOUS
<1>9. Run(c)
  <2> HIDE DEF Run
  <2> QED
    BY <1>7, <1>8
<1> QED
  BY <1>9

-----------------------------------------------------------------------------
(* What feed sees of the text                                              *)

\* A character of a tag says which tag, which piece and which place in it.
LEMMA TagSpelled ==
  ASSUME NEW p \in TagNames, NEW k \in Nat, NEW q \in 1..Lengths[p],
         NEW c, c = Spelled(p, k)[q]
  PROVE  /\ c.tag = p /\ p # "none" /\ c.piece = k
         /\ c.what = Less <=> q = 1
         /\ c = Char(c.what, p, q, k)
<1>1. p # "none"
  BY SplitterConstants DEF TagNames
<1>2. c = Char(IF q = 1 THEN Less ELSE "mark", p, q, k)
  BY DEF Spelled
<1>3. Less # "mark"
  BY DEF Less
<1> QED
  BY <1>1, <1>2, <1>3 DEF Char

\* A piece that is no tag is one character that belongs to no tag.
LEMMA PlainSpelled ==
  ASSUME NEW p, p \notin TagNames, NEW k \in Nat, NEW q, q \in 1..Size(p),
         NEW c, c = Spelled(p, k)[q]
  PROVE  c.tag = "none" /\ q = 1
<1>1. q = 1
  BY DEF Size
<1>2. c = Char(p, "none", 1, k)
  BY <1>1 DEF Spelled
<1> QED
  BY <1>1, <1>2 DEF Char

\* s is what of the first n characters comes after the first b pieces.
Window(b, n, s) ==
    /\ b \in 0..Len(text) /\ n \in Nat
    /\ Off(b) <= n /\ n <= Len(Chars)
    /\ s = SubSeq(Chars, Off(b) + 1, n)

\* What a window is, character by character.
LEMMA WindowSound ==
  ASSUME text \in Seq(Pieces), NEW b, NEW n, NEW s, Window(b, n, s)
  PROVE  /\ b \in 0..Len(text) /\ n \in Nat /\ Off(b) \in Nat /\ n <= Len(Chars)
         /\ s \in Seq(Glyph) /\ Len(s) \in Nat /\ n = Off(b) + Len(s)
         /\ \A i \in 1..Len(s) : s[i] = Chars[Off(b) + i]
<1>1. b \in 0..Len(text) /\ n \in Nat /\ n <= Len(Chars)
  BY DEF Window
<1>2. PICK o \in Nat : o = Off(b)
  BY <1>1, OffStep
<1>3. Chars \in Seq(Glyph)
  BY OffStep
<1>4. o <= n
  BY <1>2 DEF Window
<1>5. s = SubSeq(Chars, o + 1, n)
  BY <1>2 DEF Window
<1>6. s \in Seq(Glyph) /\ Len(s) = n - o /\ n - o \in Nat /\ \A i \in 1..(n - o) : s[i] = Chars[o + i]
  BY <1>1, <1>3, <1>4, <1>5, SliceSound, SMTT(30)
<1>7. n = o + (n - o)
  BY <1>1
<1> QED
  BY <1>1, <1>2, <1>6, <1>7

\* Each character of it belongs to a piece after the first b.
LEMMA WindowChar ==
  ASSUME text \in Seq(Pieces), NEW b, NEW n, NEW s, Window(b, n, s), NEW i \in 1..Len(s)
  PROVE  \E k \in 1..Len(text) : \E q \in 1..Size(text[k]) :
             /\ b < k
             /\ Off(b) + i = Off(k - 1) + q
             /\ s[i] = Spelled(text[k], k)[q]
<1>1. /\ b \in 0..Len(text) /\ Off(b) \in Nat /\ Len(s) \in Nat /\ n = Off(b) + Len(s)
      /\ n <= Len(Chars) /\ s[i] = Chars[Off(b) + i]
  BY WindowSound
<1>2. Len(Chars) \in Nat
  BY OffStep, LenProperties
<1>3. Off(b) + i \in 1..Len(Chars)
  BY <1>1, <1>2
<1>4. PICK k \in 1..Len(text) : \E q \in 1..Size(text[k]) : Off(b) + i = Off(k - 1) + q
  BY <1>3, Located
<1>5. PICK q \in 1..Size(text[k]) : Off(b) + i = Off(k - 1) + q
  BY <1>4
<1>6. k \in 0..Len(text) /\ k - 1 \in 0..Len(text)
  OBVIOUS
<1>7. Off(k) = Off(k - 1) + Size(text[k]) /\ Size(text[k]) \in Nat /\ Off(k) \in Nat /\ Off(k - 1) \in Nat
  BY <1>6, OffStep
<1>8. b < k
  <2>1. SUFFICES ASSUME k <= b PROVE FALSE
    BY <1>1
  <2>2. Off(k) <= Off(b)
    BY <2>1, <1>1, <1>6, BegunPrefix
  <2> QED
    BY <2>2, <1>1, <1>5, <1>7
<1>9. Chars[Off(k - 1) + q] = Spelled(text[k], k)[q]
  BY Placed
<1>10. s[i] = Spelled(text[k], k)[q]
  BY <1>1, <1>5, <1>9
<1> QED
  BY <1>5, <1>8, <1>10

\* The characters of a piece after the first b are in it, once they have come.
LEMMA WindowPiece ==
  ASSUME text \in Seq(Pieces), NEW b, NEW n, NEW s, Window(b, n, s),
         NEW k \in 1..Len(text), b < k, NEW q \in 1..Size(text[k]), Off(k - 1) + q <= n
  PROVE  \E i \in 1..Len(s) : Off(b) + i = Off(k - 1) + q /\ s[i] = Spelled(text[k], k)[q]
<1>1. /\ b \in 0..Len(text) /\ Off(b) \in Nat /\ Len(s) \in Nat /\ n = Off(b) + Len(s)
      /\ \A i \in 1..Len(s) : s[i] = Chars[Off(b) + i]
  BY WindowSound
<1>2. k - 1 \in 0..Len(text) /\ b <= k - 1
  BY <1>1
<1>3. Off(b) <= Off(k - 1) /\ Off(k - 1) \in Nat /\ Size(text[k]) \in Nat
  BY <1>1, <1>2, BegunPrefix, OffStep
<1>4. PICK i \in 1..Len(s) : Off(b) + i = Off(k - 1) + q
  <2>1. (Off(k - 1) + q) - Off(b) \in 1..Len(s)
    BY <1>1, <1>3
  <2>2. Off(b) + ((Off(k - 1) + q) - Off(b)) = Off(k - 1) + q
    BY <1>1, <1>3
  <2> QED
    BY <2>1, <2>2
<1>5. Chars[Off(k - 1) + q] = Spelled(text[k], k)[q]
  BY Placed
<1> QED
  BY <1>1, <1>4, <1>5

\* A tag that has arrived whole is found.
LEMMA TagSeen ==
  ASSUME text \in Seq(Pieces), NEW b, NEW n, NEW s, Window(b, n, s),
         NEW k \in 1..Len(text), b < k, text[k] \in TagNames, Off(k) <= n,
         NEW i, Off(b) + i = Off(k - 1) + 1, i \in Nat
  PROVE  i \in TagStarts(s)
<1>1. b \in 0..Len(text) /\ Off(b) \in Nat /\ Len(s) \in Nat /\ n = Off(b) + Len(s) /\ s \in Seq(Glyph)
  BY WindowSound
<1>2. k \in Nat /\ k - 1 \in 0..Len(text) /\ k \in 0..Len(text)
  OBVIOUS
<1>3. PICK z \in Nat : z = Lengths[text[k]] /\ z = Size(text[k]) /\ z >= 1
  BY OffStep DEF Size
<1>4. PICK m \in Nat : m = Off(k - 1) /\ Off(k) = m + z
  BY <1>2, <1>3, OffStep
<1>a. PICK o \in Nat, l \in Nat, e \in Nat :
         o = Off(b) /\ l = Len(s) /\ e = n /\ e = o + l /\ m + z <= e /\ o + i = m + 1
  BY <1>1, <1>4
<1>b. e = o + l /\ m + z <= e /\ o + i = m + 1
  BY <1>a
<1>5. ASSUME NEW j \in 0..(z - 1)
      PROVE  i + j \in 1..Len(s) /\ s[i + j] = Spelled(text[k], k)[j + 1]
  <2>1. PICK q \in 1..z : q = j + 1
    BY <1>3
  <2>2. m + q <= e
    BY <1>b
  <2>3. PICK x \in 1..Len(s) : Off(b) + x = Off(k - 1) + q /\ s[x] = Spelled(text[k], k)[q]
    <3>1. q \in 1..Size(text[k]) /\ Off(k - 1) + q <= n
      BY <1>3, <1>4, <1>a, <2>2
    <3> QED
      BY <3>1, WindowPiece
  <2>4. PICK y \in Nat : y = x /\ o + y = m + q
    BY <1>4, <1>a, <2>3
  <2>5. y = i + j
    <3>1. o + y = m + q
      BY <2>4
    <3> QED
      BY <1>b, <2>1, <3>1
  <2> QED
    BY <2>1, <2>3, <2>4, <2>5
<1>6. 0 \in 0..(z - 1) /\ 1 \in 1..z /\ 1 \in 1..Lengths[text[k]] /\ i + 0 = i /\ 0 + 1 = 1
  BY <1>3
<1>7. i \in 1..Len(s) /\ s[i] = Spelled(text[k], k)[1]
  BY <1>5, <1>6
<1>8. s[i].tag = text[k] /\ text[k] # "none" /\ s[i].piece = k /\ s[i].what = Less
  BY <1>2, <1>6, <1>7, TagSpelled
<1>9. ASSUME NEW j \in 0..(z - 1) PROVE s[i + j] = Char(s[i + j].what, text[k], j + 1, k)
  <2>1. PICK q \in 1..Lengths[text[k]] : q = j + 1
    BY <1>3
  <2>2. s[i + j] = Spelled(text[k], k)[q]
    BY <1>5, <2>1
  <2> QED
    BY <1>2, <2>1, <2>2, TagSpelled
<1>10. i + z - 1 <= Len(s)
  <2>1. i + z - 1 <= l
    BY <1>b
  <2> QED
    BY <1>a, <2>1
<1>11. TagAt(s, i)
  BY <1>3, <1>8, <1>9, <1>10 DEF TagAt
<1>12. DOMAIN s = 1..Len(s)
  BY <1>1
<1> QED
  BY <1>7, <1>11, <1>12 DEF TagStarts

\* What is found is a tag that has arrived whole.
LEMMA SeenTag ==
  ASSUME text \in Seq(Pieces), NEW b, NEW n, NEW s, Window(b, n, s), NEW i \in TagStarts(s)
  PROVE  /\ i \in 1..Len(s)
         /\ \E k \in 1..Len(text) :
              /\ b < k /\ text[k] \in TagNames /\ s[i].tag = text[k]
              /\ Off(b) + i = Off(k - 1) + 1 /\ Off(k) <= n
<1>1. b \in 0..Len(text) /\ Off(b) \in Nat /\ Len(s) \in Nat /\ n = Off(b) + Len(s) /\ s \in Seq(Glyph)
  BY WindowSound
<1>2. i \in 1..Len(s) /\ TagAt(s, i)
  BY <1>1 DEF TagStarts
<1>3. PICK k \in 1..Len(text) : \E q \in 1..Size(text[k]) :
             /\ b < k
             /\ Off(b) + i = Off(k - 1) + q
             /\ s[i] = Spelled(text[k], k)[q]
  BY <1>2, WindowChar
<1>4. PICK q \in 1..Size(text[k]) : /\ Off(b) + i = Off(k - 1) + q
                                    /\ s[i] = Spelled(text[k], k)[q]
  BY <1>3
<1>5. k \in Nat /\ k - 1 \in 0..Len(text)
  OBVIOUS
<1>6. s[i].what = Less /\ s[i].tag # "none" /\ i + Lengths[s[i].tag] - 1 <= Len(s)
  BY <1>2 DEF TagAt
<1>7. text[k] \in TagNames
  BY <1>4, <1>5, <1>6, PlainSpelled
<1>8. Size(text[k]) = Lengths[text[k]]
  BY <1>7 DEF Size
<1>9. s[i].tag = text[k] /\ q = 1
  BY <1>4, <1>5, <1>6, <1>7, <1>8, TagSpelled
<1>10. PICK m \in Nat, z \in Nat : m = Off(k - 1) /\ z = Lengths[text[k]] /\ Off(k) = m + z
  BY <1>5, <1>8, OffStep
<1>11. Off(b) + i = m + 1 /\ i + z - 1 <= Len(s)
  BY <1>4, <1>6, <1>9, <1>10
<1>12. Off(k) <= n
  <2>1. PICK o \in Nat, l \in Nat, e \in Nat, x \in Nat :
           o = Off(b) /\ l = Len(s) /\ e = n /\ e = o + l /\ x = i
           /\ o + x = m + 1 /\ x + z - 1 <= l
    BY <1>1, <1>2, <1>11
  <2>2. e = o + l /\ o + x = m + 1 /\ x + z - 1 <= l
    BY <2>1
  <2>3. m + z <= e
    BY <2>2
  <2> QED
    BY <1>10, <2>1, <2>3
<1> QED
  BY <1>2, <1>3, <1>7, <1>9, <1>10, <1>11, <1>12

\* The first d characters of s, and what pieces b + 1 to c spell.
UpTo(s, d)    == SubSeq(s, 1, d)
Between(b, c) == SubSeq(Chars, Off(b) + 1, Off(c))

\* A window cut at the beginning of a piece: what is left is a window again.
LEMMA WindowSplit ==
  ASSUME text \in Seq(Pieces), NEW b \in Nat, NEW n \in Nat, NEW s \in Seq(Glyph),
         Window(b, n, s),
         NEW c \in 0..Len(text), b <= c, Off(c) <= n, NEW d \in Nat, Off(b) + d = Off(c)
  PROVE  /\ Window(c, n, SubSeq(s, d + 1, Len(s)))
         /\ UpTo(s, d) = Between(b, c)
<1>1. /\ b \in 0..Len(text) /\ n \in Nat /\ Len(s) \in Nat /\ n = Off(b) + Len(s)
      /\ n <= Len(Chars) /\ s \in Seq(Glyph)
  BY WindowSound
<1>2. PICK o \in Nat, p \in Nat : o = Off(b) /\ p = Off(c) /\ p = o + d
  BY <1>1, OffStep
<1>3. Chars \in Seq(Glyph) /\ s = SubSeq(Chars, o + 1, n) /\ o <= n
  BY <1>2, OffStep DEF Window
<1>4. PICK l \in Nat : l = Len(s) /\ o + l = n /\ p <= n
  BY <1>1, <1>2
<1>5. d <= l /\ l <= n - o /\ d <= n - o
  BY <1>2, <1>4
<1>6. n <= Len(Chars)
  BY <1>1
<1>7. SubSeq(s, d + 1, l) = SubSeq(Chars, (o + d) + 1, o + l)
  BY <1>3, <1>5, <1>6, SliceSlice
<1>8. Window(c, n, SubSeq(s, d + 1, Len(s)))
  <2>1. SubSeq(s, d + 1, Len(s)) = SubSeq(Chars, p + 1, n)
    <3>1. (o + d) + 1 = p + 1
      BY <1>2
    <3> QED
      BY <1>4, <1>7, <3>1
  <2> QED
    BY <1>1, <1>2, <2>1 DEF Window
<1>9. PICK zero \in Nat : zero = 0 /\ zero + 1 = 1 /\ zero <= d /\ o + zero = o
  OBVIOUS
<1>10. zero <= d
  BY <1>9
<1>11. SubSeq(s, zero + 1, d) = SubSeq(Chars, (o + zero) + 1, o + d)
  BY <1>3, <1>5, <1>6, <1>10, SliceSlice
<1> QED
  BY <1>2, <1>8, <1>9, <1>11 DEF UpTo, Between

\* Least is the least element.
LEMMA LeastSound ==
  ASSUME NEW T \in SUBSET Nat, T # {}
  PROVE  Least(T) \in T /\ \A j \in T : Least(T) <= j
  BY LeastExists DEF Least

\* Cutting at the first tag: the pieces before it are plain.
LEMMA FirstTag ==
  ASSUME text \in Seq(Pieces), NEW b \in Nat, NEW n \in Nat, NEW s \in Seq(Glyph),
         Window(b, n, s),
         TagStarts(s) # {}, NEW i \in Nat, i = Least(TagStarts(s))
  PROVE  \E k \in 1..Len(text) :
           /\ text[k] \in TagNames /\ s[i].tag = text[k]
           /\ b <= k - 1 /\ Plain(b, k - 1)
           /\ UpTo(s, i - 1) = Between(b, k - 1)
           /\ Window(k, n, SubSeq(s, i + Lengths[text[k]], Len(s)))
<1>1. /\ b \in 0..Len(text) /\ n \in Nat /\ Off(b) \in Nat /\ Len(s) \in Nat
      /\ n = Off(b) + Len(s) /\ n <= Len(Chars) /\ s \in Seq(Glyph)
  BY WindowSound
<1>2. TagStarts(s) \in SUBSET Nat
  <2>1. DOMAIN s \subseteq Nat
    BY <1>1
  <2> QED
    BY <2>1 DEF TagStarts
<1>3. i \in TagStarts(s) /\ \A j \in TagStarts(s) : i <= j
  BY <1>2, LeastSound
<1>4. i \in 1..Len(s)
  BY <1>3, SeenTag
<1>5. PICK k \in 1..Len(text) : /\ b < k /\ text[k] \in TagNames /\ s[i].tag = text[k]
                                /\ Off(b) + i = Off(k - 1) + 1 /\ Off(k) <= n
  BY <1>3, SeenTag
<1>6. k - 1 \in 0..Len(text) /\ k \in 0..Len(text) /\ b <= k - 1 /\ b <= k
  BY <1>1, <1>5
<1>7. PICK m \in Nat, z \in Nat : /\ m = Off(k - 1) /\ z = Lengths[text[k]] /\ Off(k) = m + z
                                  /\ z >= 1
  <2>1. Size(text[k]) = Lengths[text[k]]
    BY <1>5 DEF Size
  <2> QED
    BY <1>6, <2>1, OffStep
<1>8. PICK o \in Nat, g \in Nat : o = Off(b) /\ g = i
  BY <1>1, <1>4
<1>9. o + g = m + 1 /\ m + z <= n /\ 1 <= g /\ 1 <= z
  BY <1>4, <1>5, <1>7, <1>8
<1>10. Plain(b, k - 1)
  <2>1. SUFFICES ASSUME NEW j \in (b + 1)..(k - 1), text[j] \in TagNames PROVE FALSE
    BY DEF Plain
  <2>2. j \in 1..Len(text) /\ b < j /\ j \in 0..Len(text) /\ j - 1 \in 0..Len(text) /\ b <= j - 1
        /\ j <= k - 1
    BY <1>1, <1>6
  <2>3. PICK x \in Nat : x = Off(j - 1)
    BY <2>2, OffStep
  <2>4. PICK e \in Nat : e = Off(j) /\ x < e
    <3>1. Off(j) = Off(j - 1) + Size(text[j]) /\ Size(text[j]) \in Nat /\ Size(text[j]) >= 1
      BY <2>2, OffStep
    <3> QED
      BY <2>3, <3>1
  <2>5. o <= x
    BY <1>1, <1>8, <2>2, <2>3, BegunPrefix
  <2>6. e <= m
    BY <1>6, <1>7, <2>2, <2>4, BegunPrefix
  <2>7. PICK y \in Nat : o + y = x + 1
    <3>1. (x + 1) - o \in Nat /\ o + ((x + 1) - o) = x + 1
      BY <2>5
    <3> QED
      BY <3>1
  <2>8. e <= n
    BY <1>1, <1>9, <2>6
  <2>9. y \in TagStarts(s)
    BY <1>8, <2>1, <2>2, <2>3, <2>4, <2>7, <2>8, TagSeen
  <2>10. g <= y
    BY <1>3, <1>8, <2>9
  <2> QED
    BY <1>9, <2>4, <2>6, <2>7, <2>10
<1>11. UpTo(s, i - 1) = Between(b, k - 1)
  <2>1. PICK d \in Nat : d = g - 1 /\ o + d = m
    BY <1>9
  <2>2. Off(b) + d = Off(k - 1) /\ Off(k - 1) <= n
    <3>1. o + d = m /\ m <= n
      BY <1>9, <2>1
    <3> QED
      BY <1>7, <1>8, <3>1
  <2>3. UpTo(s, d) = Between(b, k - 1)
    <3>1. PICK c \in 0..Len(text) : c = k - 1
      BY <1>6
    <3>2. b <= c /\ Off(b) + d = Off(c) /\ Off(c) <= n
      BY <1>6, <2>2, <3>1
    <3>3. UpTo(s, d) = Between(b, c)
      BY <3>2, WindowSplit
    <3> QED
      BY <3>1, <3>3
  <2>4. d = i - 1
    BY <1>8, <2>1
  <2> QED
    BY <2>3, <2>4
<1>12. Window(k, n, SubSeq(s, i + Lengths[text[k]], Len(s)))
  <2>1. PICK d \in Nat : d + 1 = g + z /\ o + d = m + z
    <3>1. (g + z) - 1 \in Nat /\ ((g + z) - 1) + 1 = g + z /\ o + ((g + z) - 1) = m + z
      BY <1>9
    <3> QED
      BY <3>1
  <2>2. Off(b) + d = Off(k) /\ Off(k) <= n
    BY <1>5, <1>7, <1>8, <2>1
  <2>3. Window(k, n, SubSeq(s, d + 1, Len(s)))
    BY <1>6, <2>2, WindowSplit
  <2>4. d + 1 = i + Lengths[text[k]]
    BY <1>7, <1>8, <2>1
  <2> QED
    BY <2>3, <2>4
<1> QED
  BY <1>5, <1>6, <1>10, <1>11, <1>12

\* Where no tag is found, none has arrived whole.
LEMMA Unfinished ==
  ASSUME text \in Seq(Pieces), NEW b \in Nat, NEW n \in Nat, NEW s \in Seq(Glyph),
         Window(b, n, s), TagStarts(s) = {},
         NEW k \in 1..Len(text), b < k, text[k] \in TagNames
  PROVE  ~(Off(k) <= n)
<1>1. SUFFICES ASSUME Off(k) <= n PROVE FALSE
  OBVIOUS
<1>2. b \in 0..Len(text) /\ Off(b) \in Nat
  BY WindowSound
<1>3. k - 1 \in 0..Len(text) /\ b <= k - 1
  BY <1>2
<1>4. Off(b) <= Off(k - 1) /\ Off(k - 1) \in Nat
  BY <1>2, <1>3, BegunPrefix, OffStep
<1>5. PICK i \in Nat : Off(b) + i = Off(k - 1) + 1
  <2>1. (Off(k - 1) + 1) - Off(b) \in Nat /\ Off(b) + ((Off(k - 1) + 1) - Off(b)) = Off(k - 1) + 1
    BY <1>2, <1>4
  <2> QED
    BY <2>1
<1>6. i \in TagStarts(s)
  BY <1>1, <1>5, TagSeen
<1> QED
  BY <1>6

\* Where no tag is found, every whole piece that has arrived is plain.
LEMMA PlainUntil ==
  ASSUME text \in Seq(Pieces), NEW b \in Nat, NEW n \in Nat, NEW s \in Seq(Glyph),
         Window(b, n, s), TagStarts(s) = {},
         NEW c \in 0..Len(text), Off(c) <= n
  PROVE  Plain(b, c)
<1>1. SUFFICES ASSUME NEW j \in (b + 1)..c, text[j] \in TagNames PROVE FALSE
  BY DEF Plain
<1>2. b \in 0..Len(text) /\ n \in Nat
  BY WindowSound
<1>3. j \in 1..Len(text) /\ b < j /\ j \in 0..Len(text) /\ j <= c
  BY <1>2
<1>4. Off(j) <= Off(c) /\ Off(j) \in Nat /\ Off(c) \in Nat
  BY <1>3, BegunPrefix, OffStep
<1>5. ~(Off(j) <= n)
  BY <1>1, <1>3, Unfinished
<1> QED
  BY <1>2, <1>4, <1>5

\* Most is the greatest element of a finite set of numbers.
LEMMA MostExists ==
  ASSUME NEW n \in Nat, NEW T \in SUBSET (1..n), T # {}
  PROVE  Most(T) \in T /\ \A j \in T : j <= Most(T)
<1> DEFINE U == {n - j : j \in T}
<1>1. U \in SUBSET Nat /\ U # {}
  <2>1. \A j \in T : n - j \in Nat
    OBVIOUS
  <2> QED
    BY <2>1
<1>2. PICK a \in U : \A c \in U : a <= c
  <2> HIDE DEF U
  <2> QED
    BY <1>1, LeastExists
<1>3. PICK m \in T : a = n - m
  BY <1>2
<1>4. \A j \in T : n - j \in U
  OBVIOUS
<1>5. ASSUME NEW j \in T PROVE j <= m
  <2>1. n - m <= n - j
    BY <1>2, <1>3, <1>4
  <2> QED
    BY <2>1
<1> QED
  BY <1>5 DEF Most

LessAt(s) == {i \in DOMAIN s : s[i].what = Less}

\* What feed holds back is short, and begins with a "<".
LEMMA HeldSound ==
  ASSUME NEW s \in Seq(Glyph), NEW at, at = HeldFrom(s)
  PROVE  /\ at \in 1..(Len(s) + 1) /\ (Len(s) - at) + 1 <= HoldMax
         /\ at # Len(s) + 1 => s[at].what = Less
         /\ at = Len(s) + 1 => \A i \in LessAt(s) : (Len(s) - i) + 1 > HoldMax
<1>1. PICK l \in Nat : l = Len(s) /\ DOMAIN s = 1..l
  BY LenProperties
<1>2. LessAt(s) \in SUBSET (1..l)
  BY <1>1 DEF LessAt
<1>3. HoldMax \in Nat
  BY SplitterConstants
<1>4. CASE LessAt(s) = {}
  <2>1. at = l + 1
    BY <1>1, <1>4 DEF HeldFrom, LessAt
  <2>2. (l - (l + 1)) + 1 = 0
    OBVIOUS
  <2> QED
    BY <1>1, <1>3, <1>4, <2>1, <2>2
<1>5. CASE LessAt(s) # {}
  <2>1. PICK h \in 1..l : h = Most(LessAt(s)) /\ h \in LessAt(s) /\ \A j \in LessAt(s) : j <= h
    BY <1>2, <1>5, MostExists
  <2>2. at = IF l - h + 1 > HoldMax THEN l + 1 ELSE h
    BY <1>1, <1>5, <2>1 DEF HeldFrom, LessAt
  <2>3. s[h].what = Less
    BY <2>1 DEF LessAt
  <2>4. CASE (l - h) + 1 > HoldMax
    <3>1. at = l + 1
      BY <2>2, <2>4
    <3>2. (l - (l + 1)) + 1 = 0
      OBVIOUS
    <3>3. ASSUME NEW j \in LessAt(s) PROVE (l - j) + 1 > HoldMax
      <4>1. j \in 1..l /\ j <= h
        BY <1>2, <2>1
      <4> QED
        BY <1>3, <2>4, <4>1
    <3> QED
      BY <1>1, <1>3, <3>1, <3>2, <3>3
  <2>5. CASE ~((l - h) + 1 > HoldMax)
    <3>1. at = h
      BY <2>2, <2>5
    <3>2. h # l + 1 /\ (l - h) + 1 <= HoldMax /\ h \in 1..(l + 1)
      BY <1>3, <2>5
    <3> QED
      BY <1>1, <2>3, <3>1, <3>2
  <2> QED
    BY <2>4, <2>5
<1> QED
  BY <1>4, <1>5

\* Cutting where the held part begins: the pieces before it are plain, and
\* no tag of a well-formed text is cut in two.
LEMMA HeldTag ==
  ASSUME text \in Seq(Pieces), WellFormed,
         NEW b \in Nat, NEW n \in Nat, NEW s \in Seq(Glyph),
         Window(b, n, s), TagStarts(s) = {}, NEW at \in Nat, at = HeldFrom(s)
  PROVE  \E c \in 0..Len(text) : b <= c /\ Off(c) <= n /\ Off(b) + (at - 1) = Off(c)
<1>1. PICK o \in Nat, l \in Nat : o = Off(b) /\ l = Len(s)
  BY WindowSound
<1>2. b \in 0..Len(text) /\ n = o + l
  BY <1>1, WindowSound
<1>3. /\ at \in 1..(l + 1) /\ (l - at) + 1 <= HoldMax
      /\ at # l + 1 => s[at].what = Less
      /\ at = l + 1 => \A i \in LessAt(s) : (l - i) + 1 > HoldMax
  BY <1>1, HeldSound
<1>4. HoldMax \in Nat
  BY SplitterConstants
<1>5. CASE at = l + 1 /\ l = 0
  <2>1. o + (at - 1) = o /\ o <= n
    BY <1>2, <1>5
  <2> QED
    BY <1>1, <1>2, <2>1
<1>6. CASE at = l + 1 /\ l # 0
  <2>1. l \in 1..Len(s)
    BY <1>1, <1>6
  <2>2. PICK k \in 1..Len(text) : \E q \in 1..Size(text[k]) :
             b < k /\ Off(b) + l = Off(k - 1) + q
    BY <2>1, WindowChar
  <2>3. PICK q \in 1..Size(text[k]) : b < k /\ Off(b) + l = Off(k - 1) + q
    BY <2>2
  <2>4. PICK m \in Nat, z \in Nat : m = Off(k - 1) /\ z = Size(text[k]) /\ Off(k) = m + z
    <3>1. k - 1 \in 0..Len(text)
      OBVIOUS
    <3> QED
      BY <3>1, OffStep
  <2>5. n = m + q /\ q \in 1..z
    BY <1>1, <1>2, <2>3, <2>4
  <2>6. CASE text[k] \in TagNames
    <3>1. z = Lengths[text[k]]
      BY <2>4, <2>6 DEF Size
    <3>2. ~(Off(k) <= n)
      BY <2>3, <2>6, Unfinished
    <3>3. q <= z - 1
      <4>1. ~(m + z <= n)
        BY <2>4, <3>2
      <4> QED
        BY <2>5, <4>1
    <3>4. z - 1 <= HoldMax
      <4>1. k \in DOMAIN text
        OBVIOUS
      <4> QED
        BY <2>6, <3>1, <4>1 DEF WellFormed
    <3>5. m + 1 <= n /\ 1 \in 1..z
      BY <2>5
    <3>6. PICK i \in 1..Len(s) : Off(b) + i = Off(k - 1) + 1 /\ s[i] = Spelled(text[k], k)[1]
      <4>1. 1 \in 1..Size(text[k]) /\ Off(k - 1) + 1 <= n
        BY <2>4, <3>5
      <4> QED
        BY <2>3, <4>1, WindowPiece
    <3>7. i \in LessAt(s)
      <4>1. s[i].what = Less
        BY <2>6, <3>1, <3>5, <3>6, TagSpelled
      <4>2. i \in DOMAIN s
        OBVIOUS
      <4> QED
        BY <4>1, <4>2 DEF LessAt
    <3>8. PICK x \in Nat : x = i /\ o + x = m + 1
      BY <1>1, <2>4, <3>6
    <3>9. (l - x) + 1 > HoldMax
      BY <1>3, <1>6, <3>7, <3>8
    <3>10. l + 1 = x + q
      <4>1. o + x = m + 1
        BY <3>8
      <4> QED
        BY <1>2, <2>5, <4>1
    <3>11. FALSE
      BY <1>4, <2>5, <3>3, <3>4, <3>9, <3>10
    <3> QED
      BY <3>11
  <2>7. CASE text[k] \notin TagNames
    <3>1. z = 1
      BY <2>4, <2>7 DEF Size
    <3>2. Off(k) = n
      BY <2>4, <2>5, <3>1
    <3>3. k \in 0..Len(text) /\ b <= k /\ n <= n
      BY <2>3
    <3>4. o + (at - 1) = n
      BY <1>2, <1>6
    <3> QED
      BY <1>1, <3>2, <3>3, <3>4
  <2> QED
    BY <2>6, <2>7
<1>7. CASE at # l + 1
  <2>1. at \in 1..Len(s) /\ s[at].what = Less
    BY <1>1, <1>3, <1>7
  <2>2. PICK k \in 1..Len(text) : \E q \in 1..Size(text[k]) :
             b < k /\ Off(b) + at = Off(k - 1) + q /\ s[at] = Spelled(text[k], k)[q]
    BY <2>1, WindowChar
  <2>3. PICK q \in 1..Size(text[k]) :
             b < k /\ Off(b) + at = Off(k - 1) + q /\ s[at] = Spelled(text[k], k)[q]
    BY <2>2
  <2>4. PICK m \in Nat : m = Off(k - 1) /\ k - 1 \in 0..Len(text)
    <3>1. k - 1 \in 0..Len(text)
      OBVIOUS
    <3> QED
      BY <3>1, OffStep
  <2>5. q = 1
    <3>1. CASE text[k] \in TagNames
      <4>1. q \in 1..Lengths[text[k]]
        BY <3>1 DEF Size
      <4> QED
        BY <2>1, <2>3, <3>1, <4>1, TagSpelled
    <3>2. CASE text[k] \notin TagNames
      BY <2>3, <3>2, PlainSpelled
    <3> QED
      BY <3>1, <3>2
  <2>6. o + at = m + 1
    BY <1>1, <2>3, <2>4, <2>5
  <2>7. o + (at - 1) = m /\ m <= n
    <3>1. PICK x \in 1..(l + 1) : x = at
      BY <1>3
    <3>2. o + x = m + 1
      BY <2>6, <3>1
    <3>3. o + (x - 1) = m /\ m <= n
      BY <1>2, <3>2
    <3> QED
      BY <3>1, <3>3
  <2>8. b <= k - 1
    BY <2>3
  <2>9. PICK c \in 0..Len(text) : c = k - 1
    BY <2>4
  <2>10. b <= c /\ Off(c) <= n /\ Off(b) + (at - 1) = Off(c)
    BY <1>1, <2>4, <2>7, <2>8, <2>9
  <2> QED
    BY <2>10
<1> QED
  BY <1>5, <1>6, <1>7

\* Up to a tag.
LEMMA TagRun ==
  ASSUME text \in Seq(Pieces), NEW b \in 0..Len(text), NEW k \in 1..Len(text),
         b <= k - 1, Plain(b, k - 1), text[k] \in TagNames
  PROVE  /\ Within(k) <=> Within(b + 1)
         /\ Split(k) = Split(b) \o As(Kind(b + 1), Between(b, k - 1))
         /\ Within(k + 1) <=> text[k] \in Opens
<1>1. PICK c \in 0..Len(text) : c = k - 1 /\ c + 1 = k
  OBVIOUS
<1>2. b <= c /\ Plain(b, c)
  BY <1>1
<1>3. /\ Within(c + 1) <=> Within(b + 1)
      /\ Split(c) = Split(b) \o As(Kind(b + 1), Between(b, c))
  BY <1>2, PlainRun DEF Between
<1>4. PICK e \in Seq(Event) : e = Split(c)
  BY SplitType
<1>5. Split(k) = e \o <<>>
  BY <1>1, <1>4, SplitStep
<1>6. e \o <<>> = e
  BY ConcatEmptySeq
<1>7. Split(k) = Split(c)
  BY <1>4, <1>5, <1>6
<1>8. Within(k + 1) <=> text[k] \in Opens
  BY WithinStep
<1> QED
  BY <1>1, <1>3, <1>7, <1>8

-----------------------------------------------------------------------------
(* The invariant                                                           *)

\* What has been delivered and not been read.
Rest == IF pc = "scan" THEN raw ELSE buf

Typed ==
    /\ text \in Seq(Pieces) /\ pos \in Nat /\ pos <= Len(Chars)
    /\ raw \in Seq(Glyph) /\ buf \in Seq(Glyph) /\ reasoning \in Seq(Glyph)
    /\ out \in Seq(Event) /\ tags \in Nat
    /\ inside \in BOOLEAN /\ pc \in {"idle", "scan", "flushed"}

Handed ==
    /\ ~inside => reasoning = <<>>
    /\ pc # "scan" => raw = <<>>
    /\ pc = "scan" => buf = <<>>

Counted ==
    /\ Len(out) + Len(reasoning) + Len(buf) + Len(raw) + tags = pos
    /\ Len(buf) <= HoldMax

\* The first b pieces have been read, and split as they should be.
Read(b) ==
    /\ Window(b, pos, Rest)
    /\ inside <=> Within(b + 1)
    /\ out \o As("reasoning", reasoning) = Split(b)

Reading ==
    /\ pc = "flushed" => out = Split(Len(text))
    /\ pc # "flushed" => \E b \in 0..Len(text) : Read(b)
    /\ pc = "idle" => TagStarts(buf) = {}

SplitterInv == Typed /\ Handed /\ Counted /\ (WellFormed => Reading)

\* What is said of the text alone does not change with the state.
LEMMA TextStays ==
  ASSUME text' = text
  PROVE  /\ Chars' = Chars /\ (WellFormed' <=> WellFormed)
         /\ \A b : Off(b)' = Off(b) /\ Within(b)' = Within(b) /\ Split(b)' = Split(b)
<1>1. \A b : Within(b)' = Within(b)
  BY DEF Within
<1>2. Chars' = Chars
  BY DEF Chars
<1>3. \A b : Off(b)' = Off(b)
  BY DEF Off, Begun
<1>4. \A b : Kind(b)' = Kind(b)
  BY <1>1 DEF Kind
<1>5. \A b : Split(b)' = Split(b)
  BY <1>4 DEF Split
<1>6. WellFormed' <=> WellFormed
  BY <1>1 DEF WellFormed
<1> QED
  BY <1>1, <1>2, <1>3, <1>5, <1>6

\* How a step that reads up to piece b keeps Reading.
LEMMA ReadTo ==
  ASSUME text' = text, NEW b \in 0..Len(text), Window(b, pos', Rest'),
         inside' <=> Within(b + 1), out' \o As("reasoning", reasoning') = Split(b),
         pc' # "flushed", pc' = "idle" => TagStarts(buf') = {}
  PROVE  Reading'
<1>1. Window(b, pos, Rest)'
  BY TextStays DEF Window
<1>2. Within(b + 1)' = Within(b + 1) /\ Split(b)' = Split(b)
  BY TextStays
<1>3. As("reasoning", reasoning)' = As("reasoning", reasoning')
  BY DEF As
<1>4. Read(b)'
  BY <1>1, <1>2, <1>3 DEF Read
<1>5. (TagStarts(buf))' = TagStarts(buf')
  BY DEF TagStarts, TagAt
<1> QED
  BY <1>4, <1>5 DEF Reading

\* At the beginning nothing has been read.
LEMMA InitHolds == Init => SplitterInv
<1>1. SUFFICES ASSUME Init PROVE SplitterInv
  OBVIOUS
<1>2. text \in Seq(Pieces)
  <2>1. MaxPieces \in Nat
    BY SplitterConstants
  <2>2. PICK n \in 0..MaxPieces : text \in [1..n -> Pieces]
    BY <1>1 DEF Init, Pieces
  <2>3. n \in Nat
    BY <2>1
  <2> QED
    BY <2>2, <2>3
<1>3. Chars \in Seq(Glyph) /\ Len(Chars) \in Nat
  BY <1>2, OffStep, LenProperties
<1>4. <<>> \in Seq(Glyph) /\ <<>> \in Seq(Event) /\ Len(<<>>) = 0
  BY EmptySeq
<1>5. Typed
  <2>1. /\ pos = 0 /\ raw = <<>> /\ inside = FALSE /\ buf = <<>> /\ reasoning = <<>>
        /\ out = <<>> /\ tags = 0 /\ pc = "idle"
    BY <1>1 DEF Init
  <2>2. pos \in Nat /\ pos <= Len(Chars) /\ tags \in Nat
    BY <1>3, <2>1
  <2> QED
    BY <1>2, <1>4, <2>1, <2>2 DEF Typed
<1>6. Handed
  BY <1>1 DEF Handed, Init
<1>7. Counted
  BY <1>1, <1>4, SplitterConstants DEF Counted, Init
<1>8. Reading
  <2>1. TagStarts(<<>>) = {}
    BY DEF TagStarts
  <2>2. 0 \in 0..Len(text) /\ Off(0) = 0
    BY <1>2, OffStep
  <2>3. SubSeq(Chars, 0 + 1, 0) = <<>>
    <3>1. 0 + 1 \in Int /\ 0 \in Int /\ 0 < 0 + 1
      OBVIOUS
    <3> QED
      BY <3>1, SubSeqEmpty
  <2>4. Window(0, 0, <<>>)
    BY <1>3, <2>2, <2>3 DEF Window
  <2>5. Window(0, pos, Rest)
    BY <1>1, <2>4 DEF Init, Rest
  <2>6. ~Within(0 + 1)
    <3>1. {j \in 1..(0 + 1 - 1) : text[j] \in TagNames} = {}
      OBVIOUS
    <3> QED
      BY <3>1 DEF Within
  <2>7. out \o As("reasoning", reasoning) = Split(0)
    <3>1. <<>> \o <<>> = <<>>
      BY <1>4, ConcatEmptySeq
    <3> QED
      BY <1>1, <1>2, <3>1, AsEmpty, SplitStep DEF Init
  <2>8. Read(0)
    BY <1>1, <2>5, <2>6, <2>7 DEF Read, Init
  <2> QED
    BY <1>1, <2>1, <2>2, <2>8 DEF Reading, Init
<1> QED
  BY <1>5, <1>6, <1>7, <1>8 DEF SplitterInv

\* How feed cuts raw, whatever the text.
LEMMA CutSound ==
  ASSUME NEW s \in Seq(Glyph), NEW d \in Nat, d <= Len(s)
  PROVE  /\ SubSeq(s, 1, d) \in Seq(Glyph) /\ Len(SubSeq(s, 1, d)) = d
         /\ SubSeq(s, d + 1, Len(s)) \in Seq(Glyph) /\ Len(SubSeq(s, d + 1, Len(s))) = Len(s) - d
<1>1. PICK zero \in Nat : zero = 0 /\ zero + 1 = 1 /\ d - zero = d
  OBVIOUS
<1>2. zero <= d
  BY <1>1
<1>3. PICK l \in Nat : l = Len(s)
  OBVIOUS
<1>4. d <= l /\ l <= Len(s)
  BY <1>3
<1>5. PICK u : u = SubSeq(s, zero + 1, d)
  OBVIOUS
<1>6. u \in Seq(Glyph) /\ Len(u) = d - zero
  BY <1>2, <1>5, SliceSound
<1>7. PICK v : v = SubSeq(s, d + 1, l)
  OBVIOUS
<1>8. v \in Seq(Glyph) /\ Len(v) = l - d
  BY <1>4, <1>7, SliceSound
<1> QED
  BY <1>1, <1>3, <1>5, <1>6, <1>7, <1>8

\* The three parts raw is cut into at its first tag.
LEMMA FoundCut ==
  ASSUME NEW s \in Seq(Glyph), TagStarts(s) # {}
  PROVE  \E i \in Nat, z \in Nat : \E f \in Seq(Glyph), r \in Seq(Glyph) :
           /\ i = Least(TagStarts(s)) /\ z = Lengths[s[i].tag]
           /\ f = SubSeq(s, 1, i - 1) /\ r = SubSeq(s, i + z, Len(s))
           /\ Len(f) + z + Len(r) = Len(s)
<1>1. PICK l \in Nat : l = Len(s) /\ DOMAIN s = 1..l
  BY LenProperties
<1>2. TagStarts(s) \in SUBSET Nat
  BY <1>1 DEF TagStarts
<1>3. Least(TagStarts(s)) \in TagStarts(s)
  BY <1>2, LeastSound
<1>4. PICK i \in 1..l : i = Least(TagStarts(s)) /\ TagAt(s, i)
  BY <1>1, <1>3 DEF TagStarts
<1>5. s[i] \in Glyph
  BY <1>1
<1>6. s[i].tag \in TagNames /\ i + Lengths[s[i].tag] - 1 <= l
  BY <1>1, <1>4, <1>5 DEF TagAt, Glyph
<1>7. PICK z \in Nat : z = Lengths[s[i].tag] /\ z > 1
  BY <1>6, SplitterConstants DEF TagNames
<1>8. i + z - 1 <= l
  BY <1>6, <1>7
<1>9. PICK d \in Nat, e \in Nat : d = i - 1 /\ e + 1 = i + z /\ d <= l /\ e <= l /\ d + z = e
  <2>1. i \in Nat /\ 1 <= i /\ i <= l
    OBVIOUS
  <2>2. i - 1 \in Nat /\ i - 1 <= l
    BY <2>1
  <2>3. (i + z) - 1 \in Nat /\ ((i + z) - 1) + 1 = i + z /\ (i - 1) + z = (i + z) - 1
    BY <2>1, <1>7
  <2>4. (i + z) - 1 <= l
    BY <2>1, <1>7, <1>8
  <2> QED
    BY <2>2, <2>3, <2>4
<1>10. PICK f \in Seq(Glyph) : f = SubSeq(s, 1, d) /\ Len(f) = d
  BY <1>1, <1>9, CutSound
<1>11. PICK r \in Seq(Glyph) : r = SubSeq(s, e + 1, Len(s)) /\ Len(r) = Len(s) - e
  BY <1>1, <1>9, CutSound
<1>12. Len(f) + z + Len(r) = Len(s)
  <2>1. Len(f) = d /\ Len(r) = Len(s) - e
    BY <1>10, <1>11
  <2>2. d + z = e /\ Len(s) \in Nat
    BY <1>9
  <2> QED
    BY <2>1, <2>2
<1>13. f = SubSeq(s, 1, i - 1) /\ r = SubSeq(s, i + z, Len(s))
  <2>1. d = i - 1 /\ e + 1 = i + z
    BY <1>9
  <2>2. f = SubSeq(s, 1, d) /\ r = SubSeq(s, e + 1, Len(s))
    BY <1>10, <1>11
  <2> QED
    BY <2>1, <2>2, Zenon
<1>14. i \in Nat
  OBVIOUS
<1>15. i = Least(TagStarts(s)) /\ z = Lengths[s[i].tag]
  BY <1>4, <1>7
<1> QED
  BY <1>12, <1>13, <1>14, <1>15, Zenon

\* The two parts raw is cut into where the held end begins.
LEMMA HeldCut ==
  ASSUME NEW s \in Seq(Glyph)
  PROVE  \E at \in Nat : \E f \in Seq(Glyph), r \in Seq(Glyph) :
           /\ at = HeldFrom(s) /\ at >= 1
           /\ f = SubSeq(s, 1, at - 1) /\ r = SubSeq(s, at, Len(s))
           /\ Len(f) + Len(r) = Len(s) /\ Len(r) <= HoldMax
<1>1. PICK l \in Nat : l = Len(s)
  OBVIOUS
<1>2. PICK at \in 1..(l + 1) : at = HeldFrom(s) /\ (l - at) + 1 <= HoldMax
  BY <1>1, HeldSound
<1>3. (l - at) + 1 <= HoldMax
  BY <1>2
<1>4. PICK d \in Nat : d = at - 1 /\ d + 1 = at /\ d <= l /\ l - d = (l - at) + 1
  OBVIOUS
<1>5. PICK f \in Seq(Glyph) : f = SubSeq(s, 1, d) /\ Len(f) = d
  BY <1>1, <1>4, CutSound
<1>6. PICK r \in Seq(Glyph) : r = SubSeq(s, d + 1, Len(s)) /\ Len(r) = Len(s) - d
  BY <1>1, <1>4, CutSound
<1>7. Len(f) + Len(r) = Len(s) /\ Len(r) <= HoldMax
  <2>1. Len(f) = d /\ Len(r) = Len(s) - d
    BY <1>5, <1>6
  <2>2. l - d <= HoldMax
    BY <1>3, <1>4
  <2> QED
    BY <1>1, <2>1, <2>2
<1>8. at \in Nat /\ at >= 1
  OBVIOUS
<1> QED
  BY <1>2, <1>4, <1>5, <1>6, <1>7, <1>8

\* Emitting a string adds as many events as it has characters.
LEMMA AsLen ==
  ASSUME NEW kind \in Kinds, NEW o \in Seq(Event), NEW s \in Seq(Glyph)
  PROVE  o \o As(kind, s) \in Seq(Event) /\ Len(o \o As(kind, s)) = Len(o) + Len(s)
<1>1. PICK a \in Seq(Event) : a = As(kind, s) /\ Len(a) = Len(s)
  BY AsSound
<1>2. o \o a \in Seq(Event) /\ Len(o \o a) = Len(o) + Len(a)
  BY ConcatProperties
<1> QED
  BY <1>1, <1>2

\* An open tag is found.
LEMMA OpenStep == ASSUME SplitterInv, ScanOpen PROVE SplitterInv'
<1>1. Typed /\ Handed /\ Counted /\ (WellFormed => Reading)
  BY DEF SplitterInv
<1>2. PICK i \in Nat, z \in Nat : \E f \in Seq(Glyph), r \in Seq(Glyph) :
           /\ i = Least(TagStarts(raw)) /\ z = Lengths[raw[i].tag]
           /\ f = SubSeq(raw, 1, i - 1) /\ r = SubSeq(raw, i + z, Len(raw))
           /\ Len(f) + z + Len(r) = Len(raw)
  BY <1>1, FoundCut DEF Typed, ScanOpen
<1>3. PICK f \in Seq(Glyph), r \in Seq(Glyph) :
           /\ f = SubSeq(raw, 1, i - 1) /\ r = SubSeq(raw, i + z, Len(raw))
           /\ Len(f) + z + Len(r) = Len(raw)
  BY <1>2
<1>4. /\ pc = "scan" /\ TagStarts(raw) # {} /\ raw[i].tag \in Opens /\ raw' = r
      /\ out' = out \o As("token", f) /\ inside' = TRUE /\ tags' = tags + z
      /\ UNCHANGED <<text, pos, buf, reasoning, pc>>
  BY <1>2, <1>3 DEF ScanOpen
<1>5. out' \in Seq(Event) /\ Len(out') = Len(out) + Len(f)
  <2>1. "token" \in Kinds /\ out \in Seq(Event)
    BY <1>1 DEF Kinds, Typed
  <2> QED
    BY <1>4, <2>1, AsLen
<1>6. Chars' = Chars /\ (WellFormed' <=> WellFormed)
  BY <1>4, TextStays
<1>7. Typed'
  BY <1>1, <1>4, <1>5, <1>6 DEF Typed
<1>8. Handed'
  BY <1>1, <1>4 DEF Handed
<1>9. Counted'
  <2>1. /\ Len(out) \in Nat /\ Len(reasoning) \in Nat /\ Len(buf) \in Nat /\ Len(raw) \in Nat
        /\ Len(f) \in Nat /\ Len(r) \in Nat /\ tags \in Nat /\ pos \in Nat
    BY <1>1 DEF Typed
  <2>2. Len(out) + Len(reasoning) + Len(buf) + Len(raw) + tags = pos /\ Len(buf) <= HoldMax
    BY <1>1 DEF Counted
  <2>3. Len(f) + z + Len(r) = Len(raw)
    BY <1>3
  <2>4. (Len(out) + Len(f)) + Len(reasoning) + Len(buf) + Len(r) + (tags + z) = pos
    BY <2>1, <2>2, <2>3
  <2> QED
    BY <1>4, <1>5, <2>2, <2>4 DEF Counted
<1>10. ASSUME WellFormed PROVE Reading'
  <2>1. PICK b \in 0..Len(text) : Read(b)
    BY <1>1, <1>4, <1>10 DEF Reading
  <2>2. b \in Nat /\ text \in Seq(Pieces) /\ pos \in Nat /\ raw \in Seq(Glyph)
        /\ out \in Seq(Event)
    BY <1>1 DEF Typed
  <2>3. Window(b, pos, raw)
    BY <1>4, <2>1 DEF Read, Rest
  <2>4. PICK k \in 1..Len(text) :
           /\ text[k] \in TagNames /\ raw[i].tag = text[k]
           /\ b <= k - 1 /\ Plain(b, k - 1)
           /\ UpTo(raw, i - 1) = Between(b, k - 1)
           /\ Window(k, pos, SubSeq(raw, i + Lengths[text[k]], Len(raw)))
    BY <1>2, <1>4, <2>2, <2>3, FirstTag
  <2>5. /\ Within(k) <=> Within(b + 1)
        /\ Split(k) = Split(b) \o As(Kind(b + 1), Between(b, k - 1))
        /\ Within(k + 1) <=> text[k] \in Opens
    BY <2>2, <2>4, TagRun
  <2>6. ~Within(b + 1) /\ Kind(b + 1) = "token"
    <3>1. ~Within(k)
      <4>1. k \in DOMAIN text
        BY <2>2
      <4> QED
        BY <1>4, <1>10, <2>4, <4>1 DEF WellFormed
    <3> QED
      BY <2>5, <3>1 DEF Kind
  <2>7. reasoning = <<>>
    BY <1>1, <2>1, <2>6 DEF Read, Handed
  <2>8. \A o \in Seq(Event) : o \o As("reasoning", <<>>) = o
    BY AsEmpty, ConcatEmptySeq
  <2>9. out = Split(b)
    BY <2>1, <2>2, <2>7, <2>8 DEF Read
  <2>10. out' = Split(k)
    BY <1>3, <1>4, <2>4, <2>5, <2>6, <2>9 DEF UpTo
  <2>11. out' \o As("reasoning", reasoning') = Split(k)
    BY <1>4, <1>5, <2>7, <2>8, <2>10
  <2>12. Window(k, pos', Rest')
    BY <1>2, <1>3, <1>4, <2>4 DEF Rest
  <2>13. k \in 0..Len(text) /\ (inside' <=> Within(k + 1))
    <3>1. inside' <=> text[k] \in Opens
      BY <1>4, <2>4
    <3>2. Within(k + 1) <=> text[k] \in Opens
      BY <2>5
    <3> QED
      BY <3>1, <3>2
  <2> QED
    BY <1>4, <2>11, <2>12, <2>13, ReadTo
<1> QED
  BY <1>6, <1>7, <1>8, <1>9, <1>10 DEF SplitterInv

\* A close tag is found.
LEMMA CloseStep == ASSUME SplitterInv, ScanClose PROVE SplitterInv'
<1>1. Typed /\ Handed /\ Counted /\ (WellFormed => Reading)
  BY DEF SplitterInv
<1>2. PICK i \in Nat, z \in Nat : \E f \in Seq(Glyph), r \in Seq(Glyph) :
           /\ i = Least(TagStarts(raw)) /\ z = Lengths[raw[i].tag]
           /\ f = SubSeq(raw, 1, i - 1) /\ r = SubSeq(raw, i + z, Len(raw))
           /\ Len(f) + z + Len(r) = Len(raw)
  BY <1>1, FoundCut DEF Typed, ScanClose
<1>3. PICK f \in Seq(Glyph), r \in Seq(Glyph) :
           /\ f = SubSeq(raw, 1, i - 1) /\ r = SubSeq(raw, i + z, Len(raw))
           /\ Len(f) + z + Len(r) = Len(raw)
  BY <1>2
<1>4. /\ pc = "scan" /\ TagStarts(raw) # {} /\ raw[i].tag \notin Opens /\ raw' = r
      /\ out' = out \o As("reasoning", reasoning \o f) /\ reasoning' = <<>>
      /\ inside' = FALSE /\ tags' = tags + z
      /\ UNCHANGED <<text, pos, buf, pc>>
  BY <1>2, <1>3 DEF ScanClose
<1>5. /\ out \in Seq(Event) /\ reasoning \in Seq(Glyph) /\ "reasoning" \in Kinds
      /\ <<>> \in Seq(Glyph) /\ Len(<<>>) = 0
  BY <1>1, EmptySeq DEF Kinds, Typed
<1>6. PICK g \in Seq(Glyph) : g = reasoning \o f /\ Len(g) = Len(reasoning) + Len(f)
  BY <1>5, ConcatProperties
<1>7. out' \in Seq(Event) /\ Len(out') = Len(out) + Len(g)
  BY <1>4, <1>5, <1>6, AsLen
<1>8. Chars' = Chars /\ (WellFormed' <=> WellFormed)
  BY <1>4, TextStays
<1>9. Typed'
  <2>1. /\ raw' \in Seq(Glyph) /\ reasoning' \in Seq(Glyph) /\ inside' \in BOOLEAN
        /\ tags' = tags + z /\ UNCHANGED <<text, pos, buf, pc>>
    BY <1>4, <1>5
  <2> QED
    BY <1>1, <1>7, <1>8, <2>1 DEF Typed
<1>10. Handed'
  BY <1>1, <1>4 DEF Handed
<1>11. Counted'
  <2>1. /\ Len(out) \in Nat /\ Len(reasoning) \in Nat /\ Len(buf) \in Nat /\ Len(raw) \in Nat
        /\ Len(f) \in Nat /\ Len(r) \in Nat /\ tags \in Nat /\ pos \in Nat
    BY <1>1 DEF Typed
  <2>2. Len(out) + Len(reasoning) + Len(buf) + Len(raw) + tags = pos /\ Len(buf) <= HoldMax
    BY <1>1 DEF Counted
  <2>3. Len(f) + z + Len(r) = Len(raw)
    BY <1>3
  <2>4. Len(out') = Len(out) + (Len(reasoning) + Len(f))
    BY <1>6, <1>7
  <2>5. (Len(out) + (Len(reasoning) + Len(f))) + 0 + Len(buf) + Len(r) + (tags + z) = pos
    BY <2>1, <2>2, <2>3
  <2> QED
    BY <1>4, <1>5, <2>2, <2>4, <2>5 DEF Counted
<1>12. ASSUME WellFormed PROVE Reading'
  <2>1. PICK b \in 0..Len(text) : Read(b)
    BY <1>1, <1>4, <1>12 DEF Reading
  <2>2. b \in Nat /\ text \in Seq(Pieces) /\ pos \in Nat /\ raw \in Seq(Glyph)
    BY <1>1 DEF Typed
  <2>3. Window(b, pos, raw)
    BY <1>4, <2>1 DEF Read, Rest
  <2>4. PICK k \in 1..Len(text) :
           /\ text[k] \in TagNames /\ raw[i].tag = text[k]
           /\ b <= k - 1 /\ Plain(b, k - 1)
           /\ UpTo(raw, i - 1) = Between(b, k - 1)
           /\ Window(k, pos, SubSeq(raw, i + Lengths[text[k]], Len(raw)))
    BY <1>2, <1>4, <2>2, <2>3, FirstTag
  <2>5. /\ Within(k) <=> Within(b + 1)
        /\ Split(k) = Split(b) \o As(Kind(b + 1), Between(b, k - 1))
        /\ Within(k + 1) <=> text[k] \in Opens
    BY <2>2, <2>4, TagRun
  <2>6. Kind(b + 1) = "reasoning"
    <3>1. Within(k)
      <4>1. k \in DOMAIN text
        BY <2>2
      <4> QED
        BY <1>4, <1>12, <2>4, <4>1 DEF WellFormed
    <3> QED
      BY <2>5, <3>1 DEF Kind
  <2>7. PICK a \in Seq(Event) : a = As("reasoning", reasoning)
    BY <1>5, AsSound
  <2>8. PICK c \in Seq(Event) : c = As("reasoning", f)
    BY <1>5, AsSound
  <2>9. As("reasoning", g) = a \o c
    BY <1>5, <1>6, <2>7, <2>8, AsConcat
  <2>10. out \o a = Split(b)
    BY <2>1, <2>7 DEF Read
  <2>11. f = Between(b, k - 1)
    BY <1>3, <2>4 DEF UpTo
  <2>12. Split(k) = (out \o a) \o c
    BY <2>5, <2>6, <2>8, <2>10, <2>11
  <2>13. (out \o a) \o c = out \o (a \o c)
    BY <1>5, EventsConcat
  <2>14. out' = Split(k)
    BY <1>4, <1>6, <2>9, <2>12, <2>13
  <2>15. \A o \in Seq(Event) : o \o As("reasoning", <<>>) = o
    BY AsEmpty, ConcatEmptySeq
  <2>16. out' \o As("reasoning", reasoning') = Split(k)
    BY <1>4, <1>7, <2>14, <2>15
  <2>17. Window(k, pos', Rest')
    BY <1>2, <1>3, <1>4, <2>4 DEF Rest
  <2>18. k \in 0..Len(text) /\ (inside' <=> Within(k + 1))
    <3>1. inside' <=> text[k] \in Opens
      BY <1>4, <2>4
    <3>2. Within(k + 1) <=> text[k] \in Opens
      BY <2>5
    <3> QED
      BY <3>1, <3>2
  <2> QED
    BY <1>4, <2>16, <2>17, <2>18, ReadTo
<1> QED
  BY <1>8, <1>9, <1>10, <1>11, <1>12 DEF SplitterInv

\* A delta arrives.
LEMMA FeedStep == ASSUME SplitterInv, Feed PROVE SplitterInv'
<1>1. Typed /\ Handed /\ Counted /\ (WellFormed => Reading)
  BY DEF SplitterInv
<1>2. /\ text \in Seq(Pieces) /\ pos \in Nat /\ buf \in Seq(Glyph) /\ raw \in Seq(Glyph)
      /\ out \in Seq(Event) /\ reasoning \in Seq(Glyph) /\ tags \in Nat
  BY <1>1 DEF Typed
<1>3. PICK l \in Nat : l = Len(Chars) /\ Chars \in Seq(Glyph)
  BY <1>2, OffStep, LenProperties
<1>4. PICK n \in 1..(l - pos) : raw' = buf \o SubSeq(Chars, pos + 1, pos + n) /\ pos' = pos + n
  BY <1>3 DEF Feed
<1>5. PICK p \in Nat : p = pos + n /\ pos <= p /\ p <= l /\ p - pos = n /\ pos' = p
  BY <1>2, <1>4
<1>6. p <= Len(Chars) /\ pos <= p
  BY <1>3, <1>5
<1>7. PICK d : d = SubSeq(Chars, pos + 1, p)
  OBVIOUS
<1>8. d \in Seq(Glyph) /\ Len(d) = p - pos
  <2>1. Chars \in Seq(Glyph) /\ pos \in Nat /\ p \in Nat /\ pos <= p /\ p <= Len(Chars)
    BY <1>2, <1>3, <1>6
  <2> QED
    BY <2>1, <1>7, SliceSound, SMTT(30)
<1>9. raw' = buf \o d
  BY <1>4, <1>5, <1>7
<1>10. raw' \in Seq(Glyph) /\ Len(raw') = Len(buf) + Len(d)
  BY <1>2, <1>8, <1>9, ConcatProperties
<1>11. /\ pc = "idle" /\ pc' = "scan" /\ buf' = <<>>
       /\ UNCHANGED <<text, inside, reasoning, out, tags>>
  BY DEF Feed
<1>12. <<>> \in Seq(Glyph) /\ Len(<<>>) = 0
  BY EmptySeq
<1>13. Chars' = Chars /\ (WellFormed' <=> WellFormed)
  BY <1>11, TextStays
<1>14. Typed'
  BY <1>1, <1>5, <1>6, <1>10, <1>11, <1>12, <1>13 DEF Typed
<1>15. Handed'
  BY <1>1, <1>11 DEF Handed
<1>16. Counted'
  <2>1. /\ Len(out) \in Nat /\ Len(reasoning) \in Nat /\ Len(buf) \in Nat /\ Len(raw) = 0
        /\ HoldMax \in Nat
    BY <1>1, <1>2, <1>11, <1>12, SplitterConstants DEF Handed
  <2>2. Len(out) + Len(reasoning) + Len(buf) + Len(raw) + tags = pos
    BY <1>1 DEF Counted
  <2>3. Len(out) + Len(reasoning) + 0 + (Len(buf) + (p - pos)) + tags = p
    BY <1>2, <2>1, <2>2
  <2> QED
    BY <1>5, <1>8, <1>10, <1>11, <1>12, <2>1, <2>3 DEF Counted
<1>17. ASSUME WellFormed PROVE Reading'
  <2>1. PICK b \in 0..Len(text) : Read(b)
    BY <1>1, <1>11, <1>17 DEF Reading
  <2>2. Window(b, pos, buf)
    BY <1>11, <2>1 DEF Read, Rest
  <2>3. PICK o \in Nat : o = Off(b) /\ o <= pos /\ buf = SubSeq(Chars, o + 1, pos)
    BY <1>2, <2>2, WindowSound DEF Window
  <2>4. o <= pos
    BY <2>3
  <2>5. PICK v \in Nat : v = pos
    BY <1>2
  <2>6. raw' = SubSeq(Chars, o + 1, p)
    <3>1. o <= v /\ v <= p
      BY <1>6, <2>4, <2>5
    <3>2. SubSeq(Chars, o + 1, v) \o SubSeq(Chars, v + 1, p) = SubSeq(Chars, o + 1, p)
      BY <1>3, <1>6, <3>1, SliceJoin
    <3>3. buf = SubSeq(Chars, o + 1, v) /\ d = SubSeq(Chars, v + 1, p)
      BY <1>7, <2>3, <2>5
    <3> QED
      BY <1>9, <3>2, <3>3
  <2>7. o <= p
    BY <1>2, <1>5, <2>4
  <2>8. Window(b, p, raw')
    BY <1>6, <2>3, <2>6, <2>7 DEF Window
  <2>9. Window(b, pos', Rest')
    BY <1>5, <1>11, <2>8 DEF Rest
  <2>10. (inside' <=> Within(b + 1)) /\ out' \o As("reasoning", reasoning') = Split(b)
    BY <1>11, <2>1 DEF Read
  <2> QED
    BY <1>11, <2>9, <2>10, ReadTo
<1> QED
  BY <1>13, <1>14, <1>15, <1>16, <1>17 DEF SplitterInv

\* Reading on over plain pieces: kind is that of the place where the reader is.
LEMMA ReadOn ==
  ASSUME Typed, Handed, NEW b \in 0..Len(text), Read(b), NEW f \in Seq(Glyph), NEW kind,
         kind = Kind(b + 1)
  PROVE  /\ inside => /\ kind = "reasoning"
                      /\ out \o As("reasoning", reasoning \o f) = Split(b) \o As(kind, f)
         /\ ~inside => /\ kind = "token" /\ reasoning = <<>>
                       /\ out \o As("token", f) = Split(b) \o As(kind, f)
<1>1. out \in Seq(Event) /\ reasoning \in Seq(Glyph) /\ "reasoning" \in Kinds /\ "token" \in Kinds
  BY DEF Typed, Kinds
<1>2. inside <=> Within(b + 1)
  BY DEF Read
<1>3. PICK a \in Seq(Event) : a = As("reasoning", reasoning)
  BY <1>1, AsSound
<1>4. out \o a = Split(b)
  BY <1>3 DEF Read
<1>5. ASSUME inside
      PROVE  /\ kind = "reasoning"
             /\ out \o As("reasoning", reasoning \o f) = Split(b) \o As(kind, f)
  <2>1. kind = "reasoning"
    BY <1>2, <1>5 DEF Kind
  <2>2. PICK c \in Seq(Event) : c = As("reasoning", f)
    BY <1>1, AsSound
  <2>3. As("reasoning", reasoning \o f) = a \o c
    BY <1>1, <1>3, <2>2, AsConcat
  <2>4. (out \o a) \o c = out \o (a \o c)
    BY <1>1, EventsConcat
  <2> QED
    BY <1>4, <2>1, <2>2, <2>3, <2>4
<1>6. ASSUME ~inside
      PROVE  /\ kind = "token" /\ reasoning = <<>>
             /\ out \o As("token", f) = Split(b) \o As(kind, f)
  <2>1. kind = "token" /\ reasoning = <<>>
    BY <1>2, <1>6 DEF Kind, Handed
  <2>2. out \o <<>> = out
    BY <1>1, ConcatEmptySeq
  <2>3. out = Split(b)
    BY <1>3, <1>4, <2>1, <2>2, AsEmpty
  <2> QED
    BY <2>1, <2>3
<1> QED
  BY <1>5, <1>6

\* No tag is found: feed returns.
LEMMA RestStep == ASSUME SplitterInv, ScanRest PROVE SplitterInv'
<1>1. Typed /\ Handed /\ Counted /\ (WellFormed => Reading)
  BY DEF SplitterInv
<1>2. /\ text \in Seq(Pieces) /\ pos \in Nat /\ buf \in Seq(Glyph) /\ raw \in Seq(Glyph)
      /\ out \in Seq(Event) /\ reasoning \in Seq(Glyph) /\ tags \in Nat
  BY <1>1 DEF Typed
<1>3. PICK at \in Nat : \E f \in Seq(Glyph), r \in Seq(Glyph) :
           /\ at = HeldFrom(raw) /\ at >= 1
           /\ f = SubSeq(raw, 1, at - 1) /\ r = SubSeq(raw, at, Len(raw))
           /\ Len(f) + Len(r) = Len(raw) /\ Len(r) <= HoldMax
  BY <1>2, HeldCut
<1>4. PICK f \in Seq(Glyph), r \in Seq(Glyph) :
           /\ at = HeldFrom(raw) /\ at >= 1
           /\ f = SubSeq(raw, 1, at - 1) /\ r = SubSeq(raw, at, Len(raw))
           /\ Len(f) + Len(r) = Len(raw) /\ Len(r) <= HoldMax
  BY <1>3
<1>5. /\ pc = "scan" /\ TagStarts(raw) = {} /\ buf' = r /\ raw' = <<>> /\ pc' = "idle"
      /\ UNCHANGED <<text, pos, inside, tags>>
  BY <1>4 DEF ScanRest
<1>6. /\ inside => reasoning' = reasoning \o f /\ out' = out
      /\ ~inside => out' = out \o As("token", f) /\ reasoning' = reasoning
  BY <1>4 DEF ScanRest
<1>7. <<>> \in Seq(Glyph) /\ Len(<<>>) = 0 /\ "token" \in Kinds
  BY EmptySeq DEF Kinds
<1>8. /\ reasoning' \in Seq(Glyph) /\ out' \in Seq(Event)
      /\ Len(out') + Len(reasoning') = (Len(out) + Len(reasoning)) + Len(f)
  <2>1. Len(out) \in Nat /\ Len(reasoning) \in Nat /\ Len(f) \in Nat
    BY <1>2
  <2>2. CASE inside
    <3>1. reasoning' \in Seq(Glyph) /\ Len(reasoning') = Len(reasoning) + Len(f)
      BY <1>2, <1>6, <2>2, ConcatProperties
    <3>2. out' = out
      BY <1>6, <2>2
    <3> QED
      BY <1>2, <2>1, <3>1, <3>2
  <2>3. CASE ~inside
    <3>1. out' = out \o As("token", f) /\ reasoning' = reasoning
      BY <1>6, <2>3
    <3>2. /\ out \o As("token", f) \in Seq(Event)
          /\ Len(out \o As("token", f)) = Len(out) + Len(f)
      BY <1>2, <1>7, AsLen
    <3>3. out' \in Seq(Event) /\ Len(out') = Len(out) + Len(f)
      BY <3>1, <3>2
    <3>4. reasoning' = reasoning
      BY <3>1
    <3>5. \A a, c, d \in Nat : (a + d) + c = (a + c) + d
      OBVIOUS
    <3>6. (Len(out) + Len(f)) + Len(reasoning) = (Len(out) + Len(reasoning)) + Len(f)
      BY <2>1, <3>5
    <3> QED
      BY <1>2, <3>3, <3>4, <3>6
  <2> QED
    BY <2>2, <2>3
<1>9. Chars' = Chars /\ (WellFormed' <=> WellFormed)
  BY <1>5, TextStays
<1>10. Typed'
  BY <1>1, <1>5, <1>7, <1>8, <1>9 DEF Typed
<1>11. Handed'
  BY <1>1, <1>5, <1>6 DEF Handed
<1>12. Counted'
  <2>1. /\ Len(out) \in Nat /\ Len(reasoning) \in Nat /\ Len(raw) \in Nat
        /\ Len(f) \in Nat /\ Len(r) \in Nat /\ Len(buf) = 0
        /\ Len(out') \in Nat /\ Len(reasoning') \in Nat
    BY <1>1, <1>2, <1>5, <1>7, <1>8 DEF Handed
  <2>2. Len(out) + Len(reasoning) + Len(buf) + Len(raw) + tags = pos
    BY <1>1 DEF Counted
  <2>3. Len(f) + Len(r) = Len(raw) /\ Len(r) <= HoldMax
    BY <1>4
  <2>4. Len(out') + Len(reasoning') = (Len(out) + Len(reasoning)) + Len(f)
    BY <1>8
  <2>5. \A a, b, d, e, g, h, k, q, v \in Nat :
          a + b + 0 + d + e = q /\ g + h = d /\ k + v = (a + b) + g
            => k + v + h + 0 + e = q
    OBVIOUS
  <2>6. Len(out) + Len(reasoning) + 0 + Len(raw) + tags = pos
    BY <2>1, <2>2
  <2>7. Len(out') + Len(reasoning') + Len(r) + 0 + tags = pos
    <3>1. PICK a \in Nat, c \in Nat, d \in Nat, g \in Nat, h \in Nat, k \in Nat, v \in Nat :
             /\ a = Len(out) /\ c = Len(reasoning) /\ d = Len(raw) /\ g = Len(f)
             /\ h = Len(r) /\ k = Len(out') /\ v = Len(reasoning')
      BY <2>1
    <3>2. a + c + 0 + d + tags = pos /\ g + h = d /\ k + v = (a + c) + g
      BY <2>3, <2>4, <2>6, <3>1
    <3>3. tags \in Nat /\ pos \in Nat
      BY <1>2
    <3>4. k + v + h + 0 + tags = pos
      BY <2>5, <3>2, <3>3
    <3> QED
      BY <3>1, <3>4
  <2> QED
    BY <1>5, <1>7, <2>3, <2>7 DEF Counted
<1>13. ASSUME WellFormed PROVE Reading'
  <2>1. PICK b \in 0..Len(text) : Read(b)
    BY <1>1, <1>5, <1>13 DEF Reading
  <2>2. b \in Nat
    BY <1>2
  <2>3. Window(b, pos, raw)
    BY <1>5, <2>1 DEF Read, Rest
  <2>4. PICK c \in 0..Len(text) : b <= c /\ Off(c) <= pos /\ Off(b) + (at - 1) = Off(c)
    <3>1. at = HeldFrom(raw)
      BY <1>4
    <3>2. TagStarts(raw) = {}
      BY <1>5
    <3>3. PICK n \in Nat, s \in Seq(Glyph) : n = pos /\ s = raw
      BY <1>2
    <3>4. text \in Seq(Pieces) /\ Window(b, n, s) /\ TagStarts(s) = {} /\ at = HeldFrom(s)
      BY <1>2, <2>3, <3>1, <3>2, <3>3
    <3>5. \E c \in 0..Len(text) : b <= c /\ Off(c) <= n /\ Off(b) + (at - 1) = Off(c)
      BY <1>13, <2>2, <3>4, HeldTag
    <3> QED
      BY <3>3, <3>5
  <2>5. PICK d \in Nat : d = at - 1 /\ d + 1 = at
    <3>1. at >= 1
      BY <1>4
    <3>2. at - 1 \in Nat /\ (at - 1) + 1 = at
      BY <3>1
    <3> QED
      BY <3>2
  <2>6. Off(b) + d = Off(c)
    BY <2>4, <2>5
  <2>7. Window(c, pos, SubSeq(raw, d + 1, Len(raw))) /\ UpTo(raw, d) = Between(b, c)
    BY <1>2, <2>2, <2>3, <2>4, <2>6, WindowSplit
  <2>8. Window(c, pos, r) /\ f = Between(b, c)
    BY <1>4, <2>5, <2>7 DEF UpTo
  <2>9. Plain(b, c)
    BY <1>2, <1>5, <2>2, <2>3, <2>4, PlainUntil
  <2>10. /\ Within(c + 1) <=> Within(b + 1)
         /\ Split(c) = Split(b) \o As(Kind(b + 1), f)
    BY <1>2, <2>4, <2>8, <2>9, PlainRun DEF Between
  <2>11. PICK kind : kind = Kind(b + 1)
    OBVIOUS
  <2>12. /\ inside => out \o As("reasoning", reasoning \o f) = Split(b) \o As(kind, f)
         /\ ~inside => /\ reasoning = <<>>
                       /\ out \o As("token", f) = Split(b) \o As(kind, f)
    BY <1>1, <2>1, <2>11, ReadOn
  <2>13. out' \o As("reasoning", reasoning') = Split(c)
    <3>1. CASE inside
      BY <1>6, <2>10, <2>11, <2>12, <3>1
    <3>2. CASE ~inside
      <4>1. out' = Split(c) /\ reasoning' = <<>>
        BY <1>6, <2>10, <2>11, <2>12, <3>2
      <4>2. out' \o <<>> = out'
        BY <1>8, ConcatEmptySeq
      <4> QED
        BY <4>1, <4>2, AsEmpty
    <3> QED
      BY <3>1, <3>2
  <2>14. inside' <=> Within(c + 1)
    BY <1>5, <2>1, <2>10 DEF Read
  <2>15. Window(c, pos', Rest')
    BY <1>5, <2>8 DEF Rest
  <2>16. TagStarts(r) = {}
    <3>1. SUFFICES ASSUME NEW i \in TagStarts(r) PROVE FALSE
      OBVIOUS
    <3>2. PICK k \in 1..Len(text) : c < k /\ text[k] \in TagNames /\ Off(k) <= pos
      BY <1>2, <2>8, <3>1, SeenTag
    <3>3. b < k
      BY <2>2, <2>4, <3>2
    <3>4. ~(Off(k) <= pos)
      BY <1>2, <1>5, <2>2, <2>3, <3>2, <3>3, Unfinished
    <3> QED
      BY <3>2, <3>4
  <2> QED
    BY <1>5, <2>13, <2>14, <2>15, <2>16, ReadTo
<1> QED
  BY <1>9, <1>10, <1>11, <1>12, <1>13 DEF SplitterInv

\* The stream has ended.
LEMMA FlushStep == ASSUME SplitterInv, Flush PROVE SplitterInv'
<1>1. Typed /\ Handed /\ Counted /\ (WellFormed => Reading)
  BY DEF SplitterInv
<1>2. /\ text \in Seq(Pieces) /\ pos \in Nat /\ buf \in Seq(Glyph) /\ raw \in Seq(Glyph)
      /\ out \in Seq(Event) /\ reasoning \in Seq(Glyph) /\ tags \in Nat
  BY <1>1 DEF Typed
<1>3. PICK kind \in Kinds : /\ kind = IF inside THEN "reasoning" ELSE "token"
                            /\ out' = out \o As(kind, reasoning \o buf)
  BY DEF Flush, Kinds
<1>4. /\ pc = "idle" /\ pos = Len(Chars) /\ reasoning' = <<>> /\ buf' = <<>> /\ pc' = "flushed"
      /\ UNCHANGED <<text, pos, raw, inside, tags>>
  BY DEF Flush
<1>5. <<>> \in Seq(Glyph) /\ Len(<<>>) = 0
  BY EmptySeq
<1>6. PICK g \in Seq(Glyph) : g = reasoning \o buf /\ Len(g) = Len(reasoning) + Len(buf)
  BY <1>2, ConcatProperties
<1>7. out' \in Seq(Event) /\ Len(out') = Len(out) + Len(g)
  BY <1>2, <1>3, <1>6, AsLen
<1>8. Chars' = Chars /\ (WellFormed' <=> WellFormed)
  BY <1>4, TextStays
<1>9. Typed'
  BY <1>1, <1>4, <1>5, <1>7, <1>8 DEF Typed
<1>10. Handed'
  BY <1>1, <1>4 DEF Handed
<1>11. Counted'
  <2>1. /\ Len(out) \in Nat /\ Len(reasoning) \in Nat /\ Len(raw) \in Nat /\ Len(buf) \in Nat
        /\ HoldMax \in Nat
    BY <1>2, SplitterConstants
  <2>2. Len(out) + Len(reasoning) + Len(buf) + Len(raw) + tags = pos
    BY <1>1 DEF Counted
  <2>3. Len(out') = Len(out) + (Len(reasoning) + Len(buf))
    BY <1>6, <1>7
  <2>4. (Len(out) + (Len(reasoning) + Len(buf))) + 0 + 0 + Len(raw) + tags = pos
    BY <1>2, <2>1, <2>2
  <2> QED
    BY <1>4, <1>5, <2>1, <2>3, <2>4 DEF Counted
<1>12. ASSUME WellFormed PROVE Reading'
  <2>1. PICK b \in 0..Len(text) : Read(b)
    BY <1>1, <1>4, <1>12 DEF Reading
  <2>2. b \in Nat /\ TagStarts(buf) = {}
    BY <1>1, <1>2, <1>4, <1>12 DEF Reading
  <2>3. Window(b, pos, buf)
    BY <1>4, <2>1 DEF Read, Rest
  <2>4. PICK c \in 0..Len(text) : c = Len(text) /\ b <= c
    BY <1>2
  <2>5. Off(c) = pos
    BY <1>2, <1>4, <2>4, OffStep
  <2>6. Off(c) <= pos
    BY <1>2, <2>5
  <2>7. Plain(b, c)
    BY <1>2, <2>2, <2>3, <2>6, PlainUntil
  <2>8. buf = SubSeq(Chars, Off(b) + 1, Off(c))
    BY <2>3, <2>5 DEF Window
  <2>9. Split(c) = Split(b) \o As(Kind(b + 1), buf)
    BY <1>2, <2>4, <2>7, <2>8, PlainRun
  <2>10. PICK k : k = Kind(b + 1)
    OBVIOUS
  <2>11. /\ inside => out \o As("reasoning", reasoning \o buf) = Split(b) \o As(k, buf)
         /\ ~inside => /\ reasoning = <<>>
                       /\ out \o As("token", buf) = Split(b) \o As(k, buf)
    BY <1>1, <1>2, <2>1, <2>10, ReadOn
  <2>12. out' = Split(c)
    <3>1. CASE inside
      BY <1>3, <2>9, <2>10, <2>11, <3>1
    <3>2. CASE ~inside
      <4>1. <<>> \o buf = buf
        BY <1>2, ConcatEmptySeq
      <4> QED
        BY <1>3, <2>9, <2>10, <2>11, <3>2, <4>1
    <3> QED
      BY <3>1, <3>2
  <2>13. (Split(Len(text)))' = Split(c)
    <3>1. Split(c)' = Split(c)
      BY <1>4, TextStays
    <3>2. (Split(Len(text)))' = Split(c)'
      BY <1>4, <2>4 DEF Split
    <3> QED
      BY <3>1, <3>2
  <2> QED
    BY <1>4, <2>12, <2>13 DEF Reading
<1> QED
  BY <1>8, <1>9, <1>10, <1>11, <1>12 DEF SplitterInv

\* A stutter changes nothing.
LEMMA StutterStep == ASSUME SplitterInv, UNCHANGED vars PROVE SplitterInv'
<1>1. text' = text
  BY DEF vars
<1>2. Chars' = Chars /\ (WellFormed' <=> WellFormed)
  BY <1>1, TextStays
<1>3. Typed'
  BY <1>2 DEF SplitterInv, Typed, vars
<1>4. Handed' /\ Counted'
  BY DEF SplitterInv, Handed, Counted, vars
<1>5. ASSUME WellFormed PROVE Reading'
  <2>1. Reading
    BY <1>5 DEF SplitterInv
  <2>2. CASE pc = "flushed"
    <3>1. (Split(Len(text)))' = Split(Len(text))
      <4>1. PICK c : c = Len(text)
        OBVIOUS
      <4>2. (Split(Len(text)))' = Split(c)'
        BY <1>1, <4>1 DEF Split
      <4> QED
        BY <1>1, <4>1, <4>2, TextStays
    <3> QED
      BY <2>1, <2>2, <3>1 DEF Reading, vars
  <2>3. CASE pc # "flushed"
    <3>1. PICK b \in 0..Len(text) : Read(b)
      BY <2>1, <2>3 DEF Reading
    <3>2. Window(b, pos', Rest')
      BY <3>1 DEF Read, Rest, vars
    <3>3. (inside' <=> Within(b + 1)) /\ out' \o As("reasoning", reasoning') = Split(b)
      BY <3>1 DEF Read, vars
    <3>4. pc' # "flushed" /\ (pc' = "idle" => TagStarts(buf') = {})
      BY <2>1, <2>3 DEF Reading, vars
    <3> QED
      BY <1>1, <3>2, <3>3, <3>4, ReadTo
  <2> QED
    BY <2>2, <2>3
<1> QED
  BY <1>2, <1>3, <1>4, <1>5 DEF SplitterInv

\* The inductive invariant of the splitter: every text, every cut of it into
\* deltas, every set of tags.
THEOREM SplitterInvariant == Spec => []SplitterInv
<1>1. Init => SplitterInv
  BY InitHolds
<1>2. SplitterInv /\ [Next]_vars => SplitterInv'
  <2>1. SUFFICES ASSUME SplitterInv, [Next]_vars PROVE SplitterInv'
    OBVIOUS
  <2>2. CASE Feed
    BY <2>1, <2>2, FeedStep
  <2>3. CASE ScanOpen
    BY <2>1, <2>3, OpenStep
  <2>4. CASE ScanClose
    BY <2>1, <2>4, CloseStep
  <2>5. CASE ScanRest
    BY <2>1, <2>5, RestStep
  <2>6. CASE Flush
    BY <2>1, <2>6, FlushStep
  <2>7. CASE Done
    BY <2>1, <2>7, StutterStep DEF Done
  <2>8. CASE UNCHANGED vars
    BY <2>1, <2>8, StutterStep
  <2> QED
    BY <2>1, <2>2, <2>3, <2>4, <2>5, <2>6, <2>7, <2>8 DEF Next
<1> QED
  BY <1>1, <1>2, PTL DEF Spec

\* feed and flush lose no character and emit none twice, whatever the text, the
\* order of its tags and its cut into deltas, and hold back at most HoldMax
\* characters between two deltas.
THEOREM NothingLostTheorem == Spec => []NothingLost
<1>1. SplitterInv => NothingLost
  <2>1. SUFFICES ASSUME SplitterInv PROVE NothingLost
    OBVIOUS
  <2>2. Typed /\ Handed /\ Counted
    BY <2>1 DEF SplitterInv
  <2>3. PICK l \in Nat : l = Len(Chars)
    BY <2>2, OffStep, LenProperties DEF Typed
  <2>4. pos \in 0..Len(Chars)
    BY <2>2, <2>3 DEF Typed
  <2>5. TypeOK
    BY <2>2, <2>4 DEF TypeOK, Typed, Handed
  <2> QED
    BY <2>2, <2>5 DEF NothingLost, Counted
<1> QED
  BY <1>1, SplitterInvariant, PTL

\* When the stream has ended, a text whose tags take turns and are short enough
\* to be held has been split as it was written, however it was cut into deltas.
THEOREM SplitAsWrittenTheorem == Spec => []SplitAsWritten
<1>1. SplitterInv => SplitAsWritten
  <2>1. SUFFICES ASSUME SplitterInv, pc = "flushed", WellFormed
                 PROVE  out = FlattenSeq([k \in DOMAIN text |->
                          IF text[k] \in TagNames THEN <<>>
                          ELSE As(IF Within(k) THEN "reasoning" ELSE "token",
                                  Spelled(text[k], k))])
    BY DEF SplitAsWritten
  <2>2. DOMAIN text = 1..Len(text)
    BY <2>1, LenProperties DEF SplitterInv, Typed
  <2>3. out = Split(Len(text))
    BY <2>1 DEF SplitterInv, Reading
  <2> QED
    BY <2>2, <2>3 DEF Split, Kind
<1> QED
  BY <1>1, SplitterInvariant, PTL

-----------------------------------------------------------------------------
(* Transcript: lists, element by element                                   *)

\* FlattenSeq of two lists of sequences, one after the other.
LEMMA FlattenConcat ==
  ASSUME NEW A, NEW s \in Seq(Seq(A)), NEW t \in Seq(Seq(A))
  PROVE  /\ FlattenSeq(s) \in Seq(A)
         /\ FlattenSeq(s \o t) = FlattenSeq(s) \o FlattenSeq(t)
<1>0. ASSUME NEW u \in Seq(Seq(A)) PROVE FlattenSeq(u) \in Seq(A)
  <2>1. CASE Len(u) = 0
    <3>1. u = <<>> /\ <<>> \in Seq(A)
      BY <2>1
    <3> QED
      BY <3>1, FlattenEmpty
  <2>2. CASE Len(u) # 0
    <3>1. PICK f \in [1..Len(u) -> Seq(A)] : Concats(f, u, Len(u))
      BY ConcatsExist
    <3>2. FlattenSeq(u) = f[Len(u)] /\ Len(u) \in 1..Len(u)
      BY <3>1, <2>2, FlattenIsLast
    <3> QED
      BY <3>2
  <2> QED
    BY <2>1, <2>2
<1> DEFINE S == {n \in Nat : \A u \in Seq(Seq(A)) : Len(u) = n =>
                    FlattenSeq(s \o u) = FlattenSeq(s) \o FlattenSeq(u)}
<1>1. 0 \in S
  <2>1. SUFFICES ASSUME NEW u \in Seq(Seq(A)), Len(u) = 0
                 PROVE  FlattenSeq(s \o u) = FlattenSeq(s) \o FlattenSeq(u)
    OBVIOUS
  <2>2. u = <<>>
    BY <2>1
  <2>3. s \o <<>> = s /\ FlattenSeq(s) \o <<>> = FlattenSeq(s)
    BY <1>0, ConcatEmptySeq
  <2> QED
    BY <2>2, <2>3, FlattenEmpty
<1>2. ASSUME NEW n \in S PROVE n + 1 \in S
  <2>1. SUFFICES ASSUME NEW u \in Seq(Seq(A)), Len(u) = n + 1
                 PROVE  FlattenSeq(s \o u) = FlattenSeq(s) \o FlattenSeq(u)
    OBVIOUS
  <2>2. PICK v \in Seq(Seq(A)), x \in Seq(A) : u = Append(v, x)
    <3>1. u # <<>>
      BY <2>1
    <3> QED
      BY <3>1, SequenceEmptyOrAppend
  <2>3. Len(v) = n
    BY <2>1, <2>2
  <2>4. FlattenSeq(s \o v) = FlattenSeq(s) \o FlattenSeq(v)
    BY <2>3
  <2>5. PICK w \in Seq(Seq(A)) : w = s \o v
    BY ConcatProperties
  <2>6. s \o u = Append(w, x)
    BY <2>2, <2>5
  <2>7. FlattenSeq(Append(w, x)) = FlattenSeq(w) \o x /\ FlattenSeq(u) = FlattenSeq(v) \o x
    BY <2>2, FlattenAppend
  <2>8. (FlattenSeq(s) \o FlattenSeq(v)) \o x = FlattenSeq(s) \o (FlattenSeq(v) \o x)
    <3>1. PICK a \in Seq(A), b \in Seq(A) : a = FlattenSeq(s) /\ b = FlattenSeq(v)
      BY <1>0
    <3>2. (a \o b) \o x = a \o (b \o x)
      BY ConcatAssociative, SMTT(30)
    <3> QED
      BY <3>1, <3>2
  <2> QED
    BY <2>4, <2>5, <2>6, <2>7, <2>8
<1>3. S = Nat
  <2> HIDE DEF S
  <2>1. S \in SUBSET Nat
    BY DEF S
  <2> QED
    BY <1>1, <1>2, <2>1, SetInduction
<1>4. Len(t) \in S
  BY <1>3
<1> QED
  BY <1>0, <1>4

\* What g makes of each element: as a list, joined, and added up.
Map(g, s)    == [i \in DOMAIN s |-> g[s[i]]]
EachOf(g, s) == FlattenSeq(Map(g, s))
SumOf(g, s)  == Total(Map(g, s))

\* A list of one element.
LEMMA OneSeq ==
  ASSUME NEW A, NEW x \in A
  PROVE  <<x>> \in Seq(A) /\ Len(<<x>>) = 1 /\ <<x>>[1] = x /\ DOMAIN <<x>> = 1..1
<1>1. <<x>> = [i \in 1..1 |-> x]
  OBVIOUS
<1>2. <<x>> \in [1..1 -> A]
  BY <1>1
<1> QED
  BY <1>1, <1>2

\* Map, element by element.
LEMMA MapSound ==
  ASSUME NEW A, NEW B, NEW g, \A x \in A : g[x] \in B, NEW s \in Seq(A)
  PROVE  /\ Map(g, s) \in Seq(B) /\ Len(Map(g, s)) = Len(s)
         /\ \A i \in 1..Len(s) : Map(g, s)[i] = g[s[i]]
<1>1. \A i \in 1..Len(s) : g[s[i]] \in B
  OBVIOUS
<1>2. Map(g, s) = [i \in 1..Len(s) |-> g[s[i]]] /\ Len(s) \in Nat
  BY DEF Map
<1> QED
  BY <1>1, <1>2

\* Map of no element, and of one.
LEMMA MapOne ==
  ASSUME NEW g, NEW x
  PROVE  Map(g, <<>>) = <<>> /\ Map(g, <<x>>) = <<g[x]>>
<1>1. PICK y : y = g[x]
  OBVIOUS
<1>2. DOMAIN <<x>> = 1..1 /\ <<x>>[1] = x
  OBVIOUS
<1>3. Map(g, <<x>>) = [i \in 1..1 |-> y]
  BY <1>1, <1>2 DEF Map
<1>4. [i \in 1..1 |-> y] = <<y>>
  OBVIOUS
<1> QED
  BY <1>1, <1>3, <1>4 DEF Map

\* Map of one list after the other.
LEMMA MapConcat ==
  ASSUME NEW A, NEW g, NEW s \in Seq(A), NEW t \in Seq(A)
  PROVE  Map(g, s \o t) = Map(g, s) \o Map(g, t)
<1>1. PICK B : \A x \in A : g[x] \in B
  <2>1. \A x \in A : g[x] \in {g[y] : y \in A}
    OBVIOUS
  <2> QED
    BY <2>1
<1>2. PICK u \in Seq(A) : u = s \o t
  BY ConcatProperties
<1>3. /\ \E a \in Seq(B) : a = Map(g, s) /\ Len(a) = Len(s) /\ \A i \in 1..Len(s) : a[i] = g[s[i]]
      /\ \E b \in Seq(B) : b = Map(g, t) /\ Len(b) = Len(t) /\ \A i \in 1..Len(t) : b[i] = g[t[i]]
      /\ \E c \in Seq(B) : c = Map(g, u) /\ Len(c) = Len(u) /\ \A i \in 1..Len(u) : c[i] = g[u[i]]
  <2>1. ASSUME NEW v \in Seq(A)
        PROVE  \E a \in Seq(B) : a = Map(g, v) /\ Len(a) = Len(v) /\ \A i \in 1..Len(v) : a[i] = g[v[i]]
    <3>1. /\ Map(g, v) \in Seq(B) /\ Len(Map(g, v)) = Len(v)
          /\ \A i \in 1..Len(v) : Map(g, v)[i] = g[v[i]]
      <4>1. \A i \in 1..Len(v) : g[v[i]] \in B
        BY <1>1
      <4>2. Map(g, v) = [i \in 1..Len(v) |-> g[v[i]]] /\ Len(v) \in Nat
        BY DEF Map
      <4> QED
        BY <4>1, <4>2
    <3> QED
      BY <3>1
  <2> QED
    BY <2>1
<1>4. PICK a \in Seq(B) : a = Map(g, s) /\ Len(a) = Len(s) /\ \A i \in 1..Len(s) : a[i] = g[s[i]]
  BY <1>3
<1>5. PICK b \in Seq(B) : b = Map(g, t) /\ Len(b) = Len(t) /\ \A i \in 1..Len(t) : b[i] = g[t[i]]
  BY <1>3
<1>6. PICK c \in Seq(B) : c = Map(g, u) /\ Len(c) = Len(u) /\ \A i \in 1..Len(u) : c[i] = g[u[i]]
  BY <1>3
<1>7. PICK d \in Seq(B) : d = a \o b
  BY ConcatProperties
<1>8. /\ Len(s) \in Nat /\ Len(t) \in Nat /\ Len(u) = Len(s) + Len(t)
      /\ \A i \in 1..Len(s) : u[i] = s[i]
      /\ \A i \in 1..Len(t) : u[Len(s) + i] = t[i]
  BY <1>2, ConcatAt
<1>9. /\ Len(d) = Len(a) + Len(b)
      /\ \A i \in 1..Len(a) : d[i] = a[i]
      /\ \A i \in 1..Len(b) : d[Len(a) + i] = b[i]
  BY <1>7, ConcatAt
<1>10. ASSUME NEW i \in 1..Len(c) PROVE c[i] = d[i]
  <2>1. CASE i <= Len(s)
    <3>1. i \in 1..Len(s) /\ i \in 1..Len(u)
      BY <2>1, <1>6, <1>8
    <3> QED
      BY <3>1, <1>4, <1>6, <1>8, <1>9
  <2>2. CASE ~(i <= Len(s))
    <3>1. PICK j \in 1..Len(t) : i = Len(s) + j /\ i \in 1..Len(u)
      <4>1. i - Len(s) \in 1..Len(t) /\ i = Len(s) + (i - Len(s)) /\ i \in 1..Len(u)
        BY <2>2, <1>6, <1>8
      <4> QED
        BY <4>1
    <3>2. c[i] = g[t[j]]
      BY <3>1, <1>6, <1>8
    <3>3. d[i] = b[j]
      BY <3>1, <1>4, <1>5, <1>9
    <3> QED
      BY <3>2, <3>3, <1>5
  <2> QED
    BY <2>1, <2>2
<1>11. Len(c) = Len(d)
  BY <1>4, <1>5, <1>6, <1>8, <1>9
<1>12. c = d
  BY <1>10, <1>11, SeqEqual
<1> QED
  BY <1>2, <1>4, <1>5, <1>6, <1>7, <1>12

\* The same of EachOf.
LEMMA EachOfType ==
  ASSUME NEW A, NEW B, NEW g, \A x \in A : g[x] \in Seq(B), NEW s \in Seq(A)
  PROVE  EachOf(g, s) \in Seq(B)
<1>1. PICK a \in Seq(Seq(B)) : a = Map(g, s)
  BY MapSound
<1>2. FlattenSeq(a) \in Seq(B)
  BY FlattenConcat
<1> QED
  BY <1>1, <1>2 DEF EachOf

\* EachOf of one list after the other.
LEMMA EachOfConcat ==
  ASSUME NEW A, NEW B, NEW g, \A x \in A : g[x] \in Seq(B), NEW s \in Seq(A), NEW t \in Seq(A)
  PROVE  EachOf(g, s \o t) = EachOf(g, s) \o EachOf(g, t)
<1>1. PICK a \in Seq(Seq(B)), b \in Seq(Seq(B)) : a = Map(g, s) /\ b = Map(g, t)
  BY MapSound
<1>2. FlattenSeq(a) \in Seq(B) /\ FlattenSeq(a \o b) = FlattenSeq(a) \o FlattenSeq(b)
  BY FlattenConcat
<1>3. Map(g, s \o t) = a \o b
  <2>1. Map(g, s \o t) = Map(g, s) \o Map(g, t)
    BY MapConcat
  <2> QED
    BY <2>1, <1>1
<1> QED
  BY <1>1, <1>2, <1>3 DEF EachOf

\* EachOf of no element, and of one.
LEMMA EachOfOne ==
  ASSUME NEW B, NEW g, NEW x, g[x] \in Seq(B)
  PROVE  EachOf(g, <<>>) = <<>> /\ EachOf(g, <<x>>) = g[x]
<1>1. PICK y \in Seq(B) : y = g[x]
  OBVIOUS
<1>2. <<y>> = Append(<<>>, y) /\ <<>> \in Seq(Seq(B)) /\ <<>> \o y = y
  OBVIOUS
<1>3. FlattenSeq(Append(<<>>, y)) = y
  BY <1>2, FlattenAppend, FlattenEmpty
<1>4. Map(g, <<>>) = <<>> /\ Map(g, <<x>>) = <<y>>
  BY <1>1, MapOne
<1> QED
  BY <1>1, <1>2, <1>3, <1>4, FlattenEmpty DEF EachOf


\* f adds up, for every set of places of s, what is there: FoldLeft's function.
SumStep(f, s, n) == [t \in SUBSET (1..n) |->
                       IF t = {} THEN 0 ELSE f[t \ {Max(t)}] + s[Max(t)]]

SumsExistTo(s, n) == \E f \in [SUBSET (1..n) -> Nat] : f = SumStep(f, s, n)

\* There is such a function: the sets with the last place come from those without it.
LEMMA SumsExist ==
  ASSUME NEW s \in Seq(Nat)
  PROVE  SumsExistTo(s, Len(s))
<1> DEFINE S == {n \in Nat : n <= Len(s) => SumsExistTo(s, n)}
<1>1. 0 \in S
  <2> DEFINE f == [t \in SUBSET (1..0) |-> 0]
  <2>1. f \in [SUBSET (1..0) -> Nat]
    OBVIOUS
  <2>2. \A t \in SUBSET (1..0) : t = {}
    OBVIOUS
  <2>3. f = SumStep(f, s, 0)
    BY <2>2 DEF SumStep
  <2> QED
    BY <2>1, <2>3 DEF SumsExistTo
<1>2. ASSUME NEW n \in S PROVE n + 1 \in S
  <2>1. SUFFICES ASSUME n + 1 <= Len(s)
                 PROVE  SumsExistTo(s, n + 1)
    OBVIOUS
  <2>2. PICK m \in Nat, k \in Nat : m = n /\ k = n + 1
    OBVIOUS
  <2>3. PICK f \in [SUBSET (1..m) -> Nat] : f = SumStep(f, s, m)
    <3>1. SumsExistTo(s, m)
      BY <1>2, <2>1, <2>2
    <3> QED
      BY <3>1 DEF SumsExistTo
  <2>4. PICK x \in Nat : x = s[k]
    BY <2>1, <2>2
  <2>5. \A t \in SUBSET (1..k) : t \ {k} \in SUBSET (1..m) /\ (k \notin t => t \in SUBSET (1..m))
    <3> HIDE DEF S
    <3> QED
      BY <2>2
  <2>6. \A t \in SUBSET (1..m) : t \in SUBSET (1..k) /\ k \notin t
    <3> HIDE DEF S
    <3> QED
      BY <2>2
  <2>7. ASSUME NEW t \in SUBSET (1..k), k \in t PROVE Max(t) = k
    <3>1. \A y \in t : y \in Nat /\ k >= y
      OBVIOUS
    <3>2. Max(t) \in t /\ \A y \in t : Max(t) >= y
      <4>1. \E z \in t : \A y \in t : z >= y
        BY <2>7, <3>1
      <4> QED
        BY <4>1 DEF Max
    <3>3. PICK z \in t : z = Max(t) /\ \A y \in t : z >= y
      BY <3>2
    <3>4. z \in Nat /\ k >= z /\ z >= k
      BY <2>7, <3>1, <3>3
    <3>5. z = k
      BY <3>4
    <3> QED
      BY <3>3, <3>5
  <2> DEFINE g == [t \in SUBSET (1..k) |-> IF k \in t THEN f[t \ {k}] + x ELSE f[t]]
  <2>8. g \in [SUBSET (1..k) -> Nat]
    BY <2>5
  <2>9. ASSUME NEW t \in SUBSET (1..k)
        PROVE  g[t] = IF t = {} THEN 0 ELSE g[t \ {Max(t)}] + s[Max(t)]
    <3>1. CASE k \in t
      <4>1. g[t] = f[t \ {k}] + x /\ t # {}
        BY <3>1
      <4>2. g[t \ {k}] = f[t \ {k}]
        BY <2>5, <2>6
      <4> HIDE DEF g
      <4> QED
        BY <3>1, <4>1, <4>2, <2>4, <2>7
    <3>2. CASE k \notin t
      <4>1. g[t] = f[t] /\ t \in SUBSET (1..m)
        BY <3>2, <2>5
      <4>2. f[t] = IF t = {} THEN 0 ELSE f[t \ {Max(t)}] + s[Max(t)]
        BY <2>3, <4>1 DEF SumStep
      <4>3. PICK z : z = t \ {Max(t)}
        OBVIOUS
      <4>4. z \in SUBSET (1..m)
        BY <4>1, <4>3
      <4>5. g[z] = f[z]
        BY <4>4, <2>6
      <4> HIDE DEF g
      <4> QED
        BY <4>1, <4>2, <4>3, <4>5
    <3> QED
      BY <3>1, <3>2
  <2>10. g = SumStep(g, s, k)
    <3>1. g = [t \in SUBSET (1..k) |-> g[t]]
      OBVIOUS
    <3> HIDE DEF g
    <3> QED
      BY <2>9, <3>1 DEF SumStep
  <2> HIDE DEF g
  <2>11. SumsExistTo(s, k)
    BY <2>8, <2>10 DEF SumsExistTo
  <2> QED
    BY <2>2, <2>11
<1>3. S = Nat
  <2> HIDE DEF S
  <2>1. S \in SUBSET Nat
    BY DEF S
  <2> QED
    BY <1>1, <1>2, <2>1, SetInduction
<1>4. PICK n \in S : n = Len(s)
  <2>1. Len(s) \in Nat
    OBVIOUS
  <2> HIDE DEF S
  <2> QED
    BY <1>3, <2>1
<1> QED
  BY <1>4

\* Total, as the last of the sums of the beginnings.
Sums(p, s) == p[0] = 0 /\ \A k \in 1..Len(s) : p[k] = p[k - 1] + s[k]

\* Total is the last of any sums.
LEMMA TotalIsLast ==
  ASSUME NEW s \in Seq(Nat)
  PROVE  \E p : Sums(p, s) /\ Total(s) = p[Len(s)]
<1> DEFINE h == CHOOSE f : f = SumStep(f, s, Len(s))
           p == [k \in 0..Len(s) |-> h[1..k]]
<1>1. DOMAIN s = 1..Len(s) /\ Len(s) \in Nat
  OBVIOUS
<1>2. Total(s) = h[1..Len(s)]
  BY <1>1 DEF Total, FoldLeft, MapThenFoldSet, Plus, Max, Max, SumStep
<1>3. \E f : f = SumStep(f, s, Len(s))
  BY SumsExist DEF SumsExistTo
<1>4. h = SumStep(h, s, Len(s))
  BY <1>3
<1> HIDE DEF h
<1>5. h[1..0] = 0
  <2>1. 1..0 = {} /\ 1..0 \in SUBSET (1..Len(s))
    OBVIOUS
  <2> QED
    BY <1>4, <2>1 DEF SumStep
<1>6. ASSUME NEW k \in 1..Len(s) PROVE h[1..k] = h[1..(k - 1)] + s[k]
  <2>1. 1..k # {} /\ 1..k \in SUBSET (1..Len(s)) /\ (1..k) \ {k} = 1..(k - 1)
    <3>1. k \in Nat /\ k \in 1..k
      BY <1>1
    <3>2. \A i : i \in 1..k => i \in 1..Len(s)
      BY <1>1
    <3>3. \A i : i \in (1..k) \ {k} <=> i \in 1..(k - 1)
      BY <3>1
    <3> QED
      BY <3>1, <3>2, <3>3
  <2>2. Max(1..k) = k
    <3>1. k \in 1..k /\ \A y \in 1..k : k >= y
      BY <1>1
    <3>2. Max(1..k) \in 1..k /\ \A y \in 1..k : Max(1..k) >= y
      BY <3>1 DEF Max
    <3> QED
      BY <3>1, <3>2
  <2>3. PICK t \in SUBSET (1..Len(s)) : t = 1..k
    BY <2>1
  <2>4. h[t] = IF t = {} THEN 0 ELSE h[t \ {Max(t)}] + s[Max(t)]
    BY <1>4 DEF SumStep
  <2> QED
    BY <2>1, <2>2, <2>3, <2>4
<1>7. Sums(p, s)
  <2>1. p[0] = 0
    BY <1>1, <1>5
  <2>2. ASSUME NEW k \in 1..Len(s) PROVE p[k] = p[k - 1] + s[k]
    <3>1. k \in 0..Len(s) /\ k - 1 \in 0..Len(s)
      BY <1>1
    <3>2. p[k] = h[1..k] /\ p[k - 1] = h[1..(k - 1)]
      BY <3>1
    <3> QED
      BY <3>2, <1>6
  <2> QED
    BY <2>1, <2>2 DEF Sums
<1>8. p[Len(s)] = h[1..Len(s)]
  BY <1>1
<1> HIDE DEF p
<1> QED
  BY <1>2, <1>7, <1>8

\* Total of nothing, and of one number more.
LEMMA TotalAppend ==
  ASSUME NEW s \in Seq(Nat), NEW x \in Nat
  PROVE  Total(<<>>) = 0 /\ Total(Append(s, x)) = Total(s) + x
<1>1. Total(<<>>) = 0
  <2>1. <<>> \in Seq(Nat) /\ Len(<<>>) = 0
    OBVIOUS
  <2>2. PICK e \in Seq(Nat) : e = <<>> /\ Len(e) = 0
    BY <2>1
  <2>3. PICK p : Sums(p, e) /\ Total(e) = p[Len(e)]
    BY TotalIsLast
  <2> QED
    BY <2>2, <2>3 DEF Sums
<1>2. PICK p : Sums(p, s) /\ Total(s) = p[Len(s)]
  BY TotalIsLast
<1>3. PICK t \in Seq(Nat) : t = Append(s, x)
  BY AppendProperties
<1>4. Len(s) \in Nat /\ Len(t) = Len(s) + 1 /\ t[Len(s) + 1] = x /\ \A i \in 1..Len(s) : t[i] = s[i]
  BY <1>3, AppendProperties
<1>5. PICK q : Sums(q, t) /\ Total(t) = q[Len(t)]
  BY TotalIsLast
<1> DEFINE S == {n \in Nat : n <= Len(s) => p[n] = q[n]}
<1>6. 0 \in S
  BY <1>2, <1>5 DEF Sums
<1>7. ASSUME NEW n \in S PROVE n + 1 \in S
  <2>1. SUFFICES ASSUME n + 1 <= Len(s) PROVE p[n + 1] = q[n + 1]
    OBVIOUS
  <2>2. PICK k \in 1..Len(s) : k = n + 1 /\ k - 1 = n /\ k \in 1..Len(t)
    BY <2>1, <1>4
  <2>3. p[k] = p[k - 1] + s[k]
    BY <1>2 DEF Sums
  <2>4. q[k] = q[k - 1] + t[k]
    BY <2>2, <1>5 DEF Sums
  <2>5. p[n] = q[n]
    BY <2>1, <1>4
  <2> QED
    BY <2>2, <2>3, <2>4, <2>5, <1>4
<1>8. S = Nat
  <2> HIDE DEF S
  <2>1. S \in SUBSET Nat
    BY DEF S
  <2> QED
    BY <1>6, <1>7, <2>1, SetInduction
<1>9. p[Len(s)] = q[Len(s)]
  BY <1>4, <1>8
<1>10. q[Len(s) + 1] = q[Len(s)] + x
  <2>1. PICK k \in 1..Len(t) : k = Len(s) + 1 /\ k - 1 = Len(s)
    BY <1>4
  <2>2. q[k] = q[k - 1] + t[k]
    BY <1>5 DEF Sums
  <2> QED
    BY <2>1, <2>2, <1>4
<1> QED
  BY <1>1, <1>2, <1>3, <1>4, <1>5, <1>9, <1>10

\* Total of one list after the other.
LEMMA TotalConcat ==
  ASSUME NEW s \in Seq(Nat), NEW t \in Seq(Nat)
  PROVE  Total(s) \in Nat /\ Total(s \o t) = Total(s) + Total(t)
<1>0. ASSUME NEW u \in Seq(Nat) PROVE Total(u) \in Nat
  <2> DEFINE S == {n \in Nat : \A v \in Seq(Nat) : Len(v) = n => Total(v) \in Nat}
  <2>1. 0 \in S
    <3>1. SUFFICES ASSUME NEW v \in Seq(Nat), Len(v) = 0 PROVE Total(v) \in Nat
      OBVIOUS
    <3>2. v = <<>>
      BY <3>1
    <3>3. Total(<<>>) = 0
      BY TotalAppend
    <3> QED
      BY <3>2, <3>3
  <2>2. ASSUME NEW n \in S PROVE n + 1 \in S
    <3>1. SUFFICES ASSUME NEW v \in Seq(Nat), Len(v) = n + 1 PROVE Total(v) \in Nat
      OBVIOUS
    <3>2. v # <<>>
      BY <3>1
    <3>3. PICK w \in Seq(Nat), x \in Nat : v = Append(w, x)
      BY <3>2, SequenceEmptyOrAppend
    <3>4. Len(w) = n
      BY <3>1, <3>3
    <3>5. Total(w) \in Nat
      BY <3>4
    <3>6. Total(v) = Total(w) + x
      BY <3>3, TotalAppend
    <3> QED
      BY <3>5, <3>6
  <2>3. S = Nat
    <3> HIDE DEF S
    <3>1. S \in SUBSET Nat
      BY DEF S
    <3> QED
      BY <2>1, <2>2, <3>1, SetInduction
  <2>4. Len(u) \in S
    BY <2>3
  <2> QED
    BY <2>4
<1> DEFINE S == {n \in Nat : \A u \in Seq(Nat) : Len(u) = n =>
                    Total(s \o u) = Total(s) + Total(u)}
<1>1. 0 \in S
  <2>1. SUFFICES ASSUME NEW u \in Seq(Nat), Len(u) = 0
                 PROVE  Total(s \o u) = Total(s) + Total(u)
    OBVIOUS
  <2>2. u = <<>> /\ s \o <<>> = s
    BY <2>1
  <2>3. Total(<<>>) = 0
    BY TotalAppend
  <2>4. Total(s) \in Nat
    BY <1>0
  <2> QED
    BY <2>2, <2>3, <2>4
<1>2. ASSUME NEW n \in S PROVE n + 1 \in S
  <2>1. SUFFICES ASSUME NEW u \in Seq(Nat), Len(u) = n + 1
                 PROVE  Total(s \o u) = Total(s) + Total(u)
    OBVIOUS
  <2>2. u # <<>>
    BY <2>1
  <2>3. PICK v \in Seq(Nat), x \in Nat : u = Append(v, x)
    BY <2>2, SequenceEmptyOrAppend
  <2>4. Len(v) = n
    BY <2>1, <2>3
  <2>5. Total(s \o v) = Total(s) + Total(v)
    BY <2>4
  <2>6. PICK w \in Seq(Nat) : w = s \o v
    BY ConcatProperties
  <2>7. s \o u = Append(w, x)
    BY <2>3, <2>6
  <2>8. Total(Append(w, x)) = Total(w) + x /\ Total(u) = Total(v) + x
    BY <2>3, TotalAppend
  <2>9. Total(s) \in Nat /\ Total(v) \in Nat
    BY <1>0
  <2> HIDE DEF S
  <2> QED
    BY <2>5, <2>6, <2>7, <2>8, <2>9
<1>3. S = Nat
  <2> HIDE DEF S
  <2>1. S \in SUBSET Nat
    BY DEF S
  <2> QED
    BY <1>1, <1>2, <2>1, SetInduction
<1>4. Len(t) \in S
  BY <1>3
<1> QED
  BY <1>0, <1>4

\* SumOf of nothing, of one element, and of one list after the other.
LEMMA SumOfConcat ==
  ASSUME NEW A, NEW g, \A x \in A : g[x] \in Nat, NEW s \in Seq(A), NEW t \in Seq(A)
  PROVE  /\ SumOf(g, s) \in Nat
         /\ SumOf(g, s \o t) = SumOf(g, s) + SumOf(g, t)
<1>1. PICK a \in Seq(Nat), b \in Seq(Nat) : a = Map(g, s) /\ b = Map(g, t)
  BY MapSound
<1>2. Total(a) \in Nat /\ Total(a \o b) = Total(a) + Total(b)
  BY TotalConcat
<1>3. Map(g, s \o t) = a \o b
  <2>1. Map(g, s \o t) = Map(g, s) \o Map(g, t)
    BY MapConcat
  <2> QED
    BY <2>1, <1>1
<1> QED
  BY <1>1, <1>2, <1>3 DEF SumOf

\* SumOf of no element, and of one.
LEMMA SumOfOne ==
  ASSUME NEW g, NEW x, g[x] \in Nat
  PROVE  SumOf(g, <<>>) = 0 /\ SumOf(g, <<x>>) = g[x]
<1>1. PICK y \in Nat : y = g[x]
  OBVIOUS
<1>2. <<y>> = Append(<<>>, y) /\ <<>> \in Seq(Nat)
  OBVIOUS
<1>3. Total(<<>>) = 0 /\ Total(<<y>>) = y
  <2>1. Total(<<>>) = 0 /\ Total(Append(<<>>, y)) = Total(<<>>) + y
    BY <1>2, TotalAppend
  <2> QED
    BY <1>2, <2>1
<1>4. Map(g, <<>>) = <<>> /\ Map(g, <<x>>) = <<y>>
  BY <1>1, MapOne
<1> QED
  BY <1>1, <1>3, <1>4 DEF SumOf

\* An element with a size gives its list one.
LEMMA SumOfPositive ==
  ASSUME NEW A, NEW g, \A x \in A : g[x] \in Nat, NEW s \in Seq(A),
         NEW k \in 1..Len(s), g[s[k]] > 0
  PROVE  SumOf(g, s) > 0
<1>1. PICK m \in Nat : m = k - 1 /\ k = m + 1 /\ m + 1 \in 1..Len(s) /\ Len(s) \in Nat
  OBVIOUS
<1>2. SubSeq(s, 1, m) \in Seq(A) /\ SubSeq(s, k + 1, Len(s)) \in Seq(A)
  BY <1>1
<1>3. PICK a \in Seq(A), x \in A, b \in Seq(A) :
        a = SubSeq(s, 1, m) /\ x = s[k] /\ b = SubSeq(s, k + 1, Len(s))
  <2>1. s[k] \in A
    OBVIOUS
  <2> QED
    BY <1>2, <2>1
<1>4. <<x>> \in Seq(A) /\ <<x>> \o b \in Seq(A)
  OBVIOUS
<1>5. s = a \o (<<x>> \o b)
  <2>1. k \in 1..Len(s) /\ Len(s) \in k..Len(s)
    BY <1>1
  <2>2. SubSeq(s, k, Len(s)) = <<s[k]>> \o SubSeq(s, k + 1, Len(s))
    BY <2>1, SubSeqRecursiveFirst
  <2>3. 1 \in 1..(Len(s) + 1) /\ m \in (1 - 1)..Len(s) /\ Len(s) \in m..Len(s)
    BY <1>1
  <2>4. SubSeq(s, 1, m) \o SubSeq(s, m + 1, Len(s)) = SubSeq(s, 1, Len(s))
    BY <2>3, ConcatAdjacentSubSeq
  <2>5. SubSeq(s, 1, Len(s)) = s
    BY SubSeqFull
  <2> QED
    BY <1>1, <1>3, <2>2, <2>4, <2>5
<1>6. PICK c \in Seq(A) : c = <<x>> \o b
  BY <1>4
<1>7. SumOf(g, a \o c) = SumOf(g, a) + SumOf(g, c) /\ SumOf(g, a) \in Nat
  BY SumOfConcat
<1>8. SumOf(g, <<x>> \o b) = SumOf(g, <<x>>) + SumOf(g, b) /\ SumOf(g, b) \in Nat
  <2>1. SumOf(g, b) \in Nat
    BY SumOfConcat
  <2> QED
    BY <1>4, <2>1, SumOfConcat
<1>9. SumOf(g, <<x>>) = g[x] /\ g[x] \in Nat
  BY SumOfOne
<1>10. g[x] > 0
  BY <1>3
<1>11. SumOf(g, c) > 0 /\ SumOf(g, c) \in Nat
  BY <1>6, <1>8, <1>9, <1>10
<1> QED
  BY <1>5, <1>6, <1>7, <1>11


-----------------------------------------------------------------------------
(* Transcript: its parts, messages, rows and records                       *)

Parts    == [type: {"text", "reasoning", "tool_call", "tool_result"},
             id: Nat, text: Nat, input: Nat, output: Nat]
Messages == [role: {"system", "user", "assistant", "tool"}, parts: Seq(Parts)]
Rows     == [role: {"user", "assistant", "tool"}, content: Nat, reasoning: Nat,
             calls: Seq(Nat), result: Nat, output: Nat]
Lives    == [said: Nat, thought: Nat, called: Seq(Nat), valid: BOOLEAN, got: Seq(Nat \X Nat)]

\* Parts, messages and rows by their constructors.
LEMMA MakersSound ==
  /\ \A n \in Nat : Text(n) \in Parts /\ Reasoning(n) \in Parts
  /\ \A c, n \in Nat : ToolCall(c, n) \in Parts /\ Result(c, n) \in Parts
  /\ \A r \in {"system", "user", "assistant", "tool"}, p \in Seq(Parts) :
        Message(r, p) \in Messages /\ Message(r, p).role = r /\ Message(r, p).parts = p
<1>1. \A n \in Nat : Text(n) \in Parts /\ Reasoning(n) \in Parts
  BY DEF Text, Reasoning, Part, Parts
<1>2. \A c, n \in Nat : ToolCall(c, n) \in Parts /\ Result(c, n) \in Parts
  BY DEF ToolCall, Result, Part, Parts
<1>3. \A r \in {"system", "user", "assistant", "tool"}, p \in Seq(Parts) :
        Message(r, p) \in Messages /\ Message(r, p).role = r /\ Message(r, p).parts = p
  BY DEF Message, Messages
<1> QED
  BY <1>1, <1>2, <1>3

\* The elements of s that are in K, in order.
Kept(K, s) == FlattenSeq([i \in DOMAIN s |-> IF s[i] \in K THEN <<s[i]>> ELSE <<>>])

\* Kept keeps a list a list.
LEMMA KeptType ==
  ASSUME NEW A, NEW K, NEW s \in Seq(A)
  PROVE  Kept(K, s) \in Seq(A)
<1> DEFINE g == [x \in A |-> IF x \in K THEN <<x>> ELSE <<>>]
<1>1. ASSUME NEW x \in A PROVE g[x] \in Seq(A)
  BY <1>1, OneSeq
<1>2. ASSUME NEW u \in Seq(A) PROVE Kept(K, u) = EachOf(g, u)
  <2>1. \A i \in DOMAIN u : (IF u[i] \in K THEN <<u[i]>> ELSE <<>>) = g[u[i]]
    OBVIOUS
  <2>2. [i \in DOMAIN u |-> IF u[i] \in K THEN <<u[i]>> ELSE <<>>] = Map(g, u)
    BY <2>1 DEF Map
  <2> QED
    BY <2>2 DEF Kept, EachOf
<1> HIDE DEF g
<1>3. PICK h : h = g /\ \A x \in A : h[x] \in Seq(A)
  BY <1>1
<1>4. EachOf(h, s) \in Seq(A)
  BY <1>3, EachOfType
<1> QED
  BY <1>2, <1>3, <1>4

\* Kept of one list after the other.
LEMMA KeptConcat ==
  ASSUME NEW A, NEW K, NEW s \in Seq(A), NEW t \in Seq(A)
  PROVE  Kept(K, s \o t) = Kept(K, s) \o Kept(K, t)
<1> DEFINE g == [x \in A |-> IF x \in K THEN <<x>> ELSE <<>>]
<1>1. ASSUME NEW x \in A PROVE g[x] \in Seq(A)
  BY <1>1, OneSeq
<1>2. ASSUME NEW u \in Seq(A) PROVE Kept(K, u) = EachOf(g, u)
  <2>1. \A i \in DOMAIN u : (IF u[i] \in K THEN <<u[i]>> ELSE <<>>) = g[u[i]]
    OBVIOUS
  <2>2. [i \in DOMAIN u |-> IF u[i] \in K THEN <<u[i]>> ELSE <<>>] = Map(g, u)
    BY <2>1 DEF Map
  <2> QED
    BY <2>2 DEF Kept, EachOf
<1> HIDE DEF g
<1>3. s \o t \in Seq(A)
  OBVIOUS
<1>4. PICK h : h = g /\ \A x \in A : h[x] \in Seq(A)
  BY <1>1
<1>5. EachOf(h, s \o t) = EachOf(h, s) \o EachOf(h, t)
  BY <1>4, EachOfConcat
<1> QED
  BY <1>2, <1>3, <1>4, <1>5

\* Kept of no element, and of one.
LEMMA KeptOne ==
  ASSUME NEW K, NEW x
  PROVE  Kept(K, <<>>) = <<>> /\ Kept(K, <<x>>) = IF x \in K THEN <<x>> ELSE <<>>
<1>1. PICK A : x \in A
  <2>1. x \in {x}
    OBVIOUS
  <2> QED
    BY <2>1
<1>2. PICK y \in Seq(A) : y = IF x \in K THEN <<x>> ELSE <<>>
  <2>1. <<x>> \in Seq(A) /\ <<>> \in Seq(A)
    BY <1>1, OneSeq
  <2> QED
    BY <2>1
<1>3. FlattenSeq(<<y>>) = y
  <2>1. <<y>> = Append(<<>>, y) /\ <<>> \in Seq(Seq(A)) /\ <<>> \o y = y
    OBVIOUS
  <2> QED
    BY <2>1, FlattenAppend, FlattenEmpty
<1>4. [i \in DOMAIN <<>> |-> IF <<>>[i] \in K THEN <<<<>>[i]>> ELSE <<>>] = <<>>
  OBVIOUS
<1>5. DOMAIN <<x>> = 1..1 /\ <<x>>[1] = x
  OBVIOUS
<1>6. [i \in DOMAIN <<x>> |-> IF <<x>>[i] \in K THEN <<<<x>>[i]>> ELSE <<>>] = [i \in 1..1 |-> y]
  BY <1>2, <1>5
<1>7. [i \in 1..1 |-> y] = <<y>>
  OBVIOUS
<1> QED
  BY <1>2, <1>3, <1>4, <1>6, <1>7, FlattenEmpty DEF Kept

\* OfType keeps the parts of a type.
LEMMA OfTypeKeeps ==
  ASSUME NEW t, NEW s \in Seq(Parts)
  PROVE  OfType(s, t) = Kept({p \in Parts : p.type = t}, s)
<1>1. \A i \in DOMAIN s : s[i] \in {p \in Parts : p.type = t} <=> s[i].type = t
  OBVIOUS
<1>2. [i \in DOMAIN s |-> If(s[i].type = t, <<s[i]>>)]
      = [i \in DOMAIN s |-> IF s[i] \in {p \in Parts : p.type = t} THEN <<s[i]>> ELSE <<>>]
  BY <1>1 DEF If
<1> QED
  BY <1>2 DEF OfType, Kept

\* toLLMMessages keeps the messages that have content.
LEMMA ToLLMKeeps ==
  ASSUME NEW s \in Seq(Messages)
  PROVE  ToLLMMessages(s) = Kept({m \in Messages : HasContent(m)}, s)
<1>1. \A i \in DOMAIN s : s[i] \in {m \in Messages : HasContent(m)} <=> HasContent(s[i])
  OBVIOUS
<1>2. [i \in DOMAIN s |-> If(HasContent(s[i]), <<s[i]>>)]
      = [i \in DOMAIN s |-> IF s[i] \in {m \in Messages : HasContent(m)} THEN <<s[i]>> ELSE <<>>]
  BY <1>1 DEF If
<1> QED
  BY <1>2 DEF ToLLMMessages, Kept

\* OfRole keeps the messages of a role.
LEMMA OfRoleKeeps ==
  ASSUME NEW r, NEW s \in Seq(Messages)
  PROVE  OfRole(s, r) = Kept({m \in Messages : m.role = r}, s)
<1>1. \A i \in DOMAIN s : s[i] \in {m \in Messages : m.role = r} <=> s[i].role = r
  OBVIOUS
<1>2. [i \in DOMAIN s |-> If(s[i].role = r, <<s[i]>>)]
      = [i \in DOMAIN s |-> IF s[i] \in {m \in Messages : m.role = r} THEN <<s[i]>> ELSE <<>>]
  BY <1>1 DEF If
<1> QED
  BY <1>2 DEF OfRole, Kept

Speaks(l) == l.said + l.thought > 0 \/ Remembered(l) # <<>>

\* Spoken keeps the records of which anything comes back.
LEMMA SpokenKeeps ==
  ASSUME NEW s \in Seq(Lives)
  PROVE  Spoken(s) = Kept({l \in Lives : Speaks(l)}, s)
<1>1. \A i \in DOMAIN s : s[i] \in {l \in Lives : Speaks(l)} <=> Speaks(s[i])
  OBVIOUS
<1>2. [i \in DOMAIN s |-> If(Speaks(s[i]), <<s[i]>>)]
      = [i \in DOMAIN s |-> IF s[i] \in {l \in Lives : Speaks(l)} THEN <<s[i]>> ELSE <<>>]
  BY <1>1 DEF If
<1> QED
  BY <1>2 DEF Spoken, Kept, Speaks

\* OfType of a list is a list of the same kind.
LEMMA OfTypeType ==
  ASSUME NEW a \in Seq(Parts), NEW t
  PROVE  OfType(a, t) \in Seq(Parts)
<1>1. PICK K : K = {p \in Parts : p.type = t}
  OBVIOUS
<1>2. OfType(a, t) = Kept(K, a)
  BY <1>1, OfTypeKeeps
<1>3. Kept(K, a) \in Seq(Parts)
  BY KeptType
<1> QED
  BY <1>2, <1>3

\* OfType of one list after the other.
LEMMA OfTypeConcat ==
  ASSUME NEW a \in Seq(Parts), NEW b \in Seq(Parts), NEW t
  PROVE  OfType(a \o b, t) = OfType(a, t) \o OfType(b, t)
<1>1. PICK c \in Seq(Parts) : c = a \o b
  BY ConcatProperties
<1>2. OfType(c, t) = Kept({p \in Parts : p.type = t}, c)
      /\ OfType(a, t) = Kept({p \in Parts : p.type = t}, a)
      /\ OfType(b, t) = Kept({p \in Parts : p.type = t}, b)
  BY OfTypeKeeps
<1>3. PICK K : K = {p \in Parts : p.type = t}
  OBVIOUS
<1>4. Kept(K, a \o b) = Kept(K, a) \o Kept(K, b)
  BY KeptConcat
<1> QED
  BY <1>1, <1>2, <1>3, <1>4

\* OfType of no part, and of one.
LEMMA OfTypeOne ==
  ASSUME NEW p \in Parts, NEW t
  PROVE  OfType(<<>>, t) = <<>> /\ OfType(<<p>>, t) = IF p.type = t THEN <<p>> ELSE <<>>
<1>1. PICK K : K = {q \in Parts : q.type = t}
  OBVIOUS
<1>2. PICK u \in Seq(Parts), v \in Seq(Parts) : u = <<>> /\ v = <<p>>
  <2>1. <<>> \in Seq(Parts) /\ <<p>> \in Seq(Parts)
    BY OneSeq
  <2> QED
    BY <2>1
<1>3. OfType(u, t) = Kept(K, u) /\ OfType(v, t) = Kept(K, v)
  BY <1>1, OfTypeKeeps
<1>4. Kept(K, <<>>) = <<>> /\ Kept(K, <<p>>) = IF p \in K THEN <<p>> ELSE <<>>
  BY KeptOne
<1>5. p \in K <=> p.type = t
  BY <1>1
<1> QED
  BY <1>2, <1>3, <1>4, <1>5

\* ToLLMMessages of a list is a list of the same kind.
LEMMA ToLLMType ==
  ASSUME NEW a \in Seq(Messages)
  PROVE  ToLLMMessages(a) \in Seq(Messages)
<1>1. PICK K : K = {x \in Messages : HasContent(x)}
  OBVIOUS
<1>2. ToLLMMessages(a) = Kept(K, a)
  BY <1>1, ToLLMKeeps
<1>3. Kept(K, a) \in Seq(Messages)
  BY KeptType
<1> QED
  BY <1>2, <1>3

\* toLLMMessages of one list after the other.
LEMMA ToLLMConcat ==
  ASSUME NEW a \in Seq(Messages), NEW b \in Seq(Messages)
  PROVE  ToLLMMessages(a \o b) = ToLLMMessages(a) \o ToLLMMessages(b)
<1>1. PICK c \in Seq(Messages) : c = a \o b
  BY ConcatProperties
<1>2. PICK K : K = {x \in Messages : HasContent(x)}
  OBVIOUS
<1>3. /\ ToLLMMessages(a) = Kept(K, a)
      /\ ToLLMMessages(b) = Kept(K, b)
      /\ ToLLMMessages(c) = Kept(K, c)
  BY <1>2, ToLLMKeeps
<1>4. Kept(K, a \o b) = Kept(K, a) \o Kept(K, b)
  BY KeptConcat
<1> QED
  BY <1>1, <1>3, <1>4

\* toLLMMessages of no message, and of one.
LEMMA ToLLMOne ==
  ASSUME NEW x \in Messages
  PROVE  ToLLMMessages(<<>>) = <<>> /\ ToLLMMessages(<<x>>) = IF HasContent(x) THEN <<x>> ELSE <<>>
<1>1. PICK K : K = {y \in Messages : HasContent(y)}
  OBVIOUS
<1>2. PICK u \in Seq(Messages), v \in Seq(Messages) : u = <<>> /\ v = <<x>>
  <2>1. <<>> \in Seq(Messages) /\ <<x>> \in Seq(Messages)
    BY OneSeq
  <2> QED
    BY <2>1
<1>3. ToLLMMessages(u) = Kept(K, u) /\ ToLLMMessages(v) = Kept(K, v)
  BY <1>1, ToLLMKeeps
<1>4. Kept(K, <<>>) = <<>> /\ Kept(K, <<x>>) = IF x \in K THEN <<x>> ELSE <<>>
  BY KeptOne
<1>5. x \in K <=> HasContent(x)
  BY <1>1
<1> QED
  BY <1>2, <1>3, <1>4, <1>5

\* OfRole of a list is a list of the same kind.
LEMMA OfRoleType ==
  ASSUME NEW a \in Seq(Messages), NEW r
  PROVE  OfRole(a, r) \in Seq(Messages)
<1>1. PICK K : K = {x \in Messages : x.role = r}
  OBVIOUS
<1>2. OfRole(a, r) = Kept(K, a)
  BY <1>1, OfRoleKeeps
<1>3. Kept(K, a) \in Seq(Messages)
  BY KeptType
<1> QED
  BY <1>2, <1>3

\* OfRole of one list after the other.
LEMMA OfRoleConcat ==
  ASSUME NEW a \in Seq(Messages), NEW b \in Seq(Messages), NEW r
  PROVE  OfRole(a \o b, r) = OfRole(a, r) \o OfRole(b, r)
<1>1. PICK c \in Seq(Messages) : c = a \o b
  BY ConcatProperties
<1>2. PICK K : K = {x \in Messages : x.role = r}
  OBVIOUS
<1>3. /\ OfRole(a, r) = Kept(K, a)
      /\ OfRole(b, r) = Kept(K, b)
      /\ OfRole(c, r) = Kept(K, c)
  BY <1>2, OfRoleKeeps
<1>4. Kept(K, a \o b) = Kept(K, a) \o Kept(K, b)
  BY KeptConcat
<1> QED
  BY <1>1, <1>3, <1>4

\* OfRole of no message, and of one.
LEMMA OfRoleOne ==
  ASSUME NEW x \in Messages, NEW r
  PROVE  OfRole(<<>>, r) = <<>> /\ OfRole(<<x>>, r) = IF x.role = r THEN <<x>> ELSE <<>>
<1>1. PICK K : K = {y \in Messages : y.role = r}
  OBVIOUS
<1>2. PICK u \in Seq(Messages), v \in Seq(Messages) : u = <<>> /\ v = <<x>>
  <2>1. <<>> \in Seq(Messages) /\ <<x>> \in Seq(Messages)
    BY OneSeq
  <2> QED
    BY <2>1
<1>3. OfRole(u, r) = Kept(K, u) /\ OfRole(v, r) = Kept(K, v)
  BY <1>1, OfRoleKeeps
<1>4. Kept(K, <<>>) = <<>> /\ Kept(K, <<x>>) = IF x \in K THEN <<x>> ELSE <<>>
  BY KeptOne
<1>5. x \in K <=> x.role = r
  BY <1>1
<1> QED
  BY <1>2, <1>3, <1>4, <1>5

\* Spoken of a list is a list of the same kind.
LEMMA SpokenType ==
  ASSUME NEW a \in Seq(Lives)
  PROVE  Spoken(a) \in Seq(Lives)
<1>1. PICK K : K = {x \in Lives : Speaks(x)}
  OBVIOUS
<1>2. Spoken(a) = Kept(K, a)
  BY <1>1, SpokenKeeps
<1>3. Kept(K, a) \in Seq(Lives)
  BY KeptType
<1> QED
  BY <1>2, <1>3

\* Spoken of one list after the other.
LEMMA SpokenConcat ==
  ASSUME NEW a \in Seq(Lives), NEW b \in Seq(Lives)
  PROVE  Spoken(a \o b) = Spoken(a) \o Spoken(b)
<1>1. PICK c \in Seq(Lives) : c = a \o b
  BY ConcatProperties
<1>2. PICK K : K = {x \in Lives : Speaks(x)}
  OBVIOUS
<1>3. /\ Spoken(a) = Kept(K, a)
      /\ Spoken(b) = Kept(K, b)
      /\ Spoken(c) = Kept(K, c)
  BY <1>2, SpokenKeeps
<1>4. Kept(K, a \o b) = Kept(K, a) \o Kept(K, b)
  BY KeptConcat
<1> QED
  BY <1>1, <1>3, <1>4

\* Spoken of no record, and of one.
LEMMA SpokenOne ==
  ASSUME NEW x \in Lives
  PROVE  Spoken(<<>>) = <<>> /\ Spoken(<<x>>) = IF Speaks(x) THEN <<x>> ELSE <<>>
<1>1. PICK K : K = {y \in Lives : Speaks(y)}
  OBVIOUS
<1>2. PICK u \in Seq(Lives), v \in Seq(Lives) : u = <<>> /\ v = <<x>>
  <2>1. <<>> \in Seq(Lives) /\ <<x>> \in Seq(Lives)
    BY OneSeq
  <2> QED
    BY <2>1
<1>3. Spoken(u) = Kept(K, u) /\ Spoken(v) = Kept(K, v)
  BY <1>1, SpokenKeeps
<1>4. Kept(K, <<>>) = <<>> /\ Kept(K, <<x>>) = IF x \in K THEN <<x>> ELSE <<>>
  BY KeptOne
<1>5. x \in K <=> Speaks(x)
  BY <1>1
<1> QED
  BY <1>2, <1>3, <1>4, <1>5


\* What contentToParts makes of a row are parts.
LEMMA PartsOfRow ==
  ASSUME NEW r \in Rows
  PROVE  /\ ContentToParts(r) \in Seq(Parts)
         /\ r.role = "tool" => /\ ContentToParts(r) # <<>>
                               /\ Last(ContentToParts(r)) = Result(r.result, r.output)
<1>1. /\ r.content \in Nat /\ r.reasoning \in Nat /\ r.calls \in Seq(Nat)
      /\ r.result \in Nat /\ r.output \in Nat
  BY DEF Rows
<1>2. PICK a \in Seq(Parts) : a = If(r.content > 0, <<Text(r.content)>>)
  <2>1. <<Text(r.content)>> \in Seq(Parts) /\ <<>> \in Seq(Parts)
    BY <1>1, MakersSound, OneSeq
  <2> QED
    BY <2>1 DEF If
<1>3. PICK b \in Seq(Parts) : b = If(r.reasoning > 0, <<Reasoning(r.reasoning)>>)
  <2>1. <<Reasoning(r.reasoning)>> \in Seq(Parts) /\ <<>> \in Seq(Parts)
    BY <1>1, MakersSound, OneSeq
  <2> QED
    BY <2>1 DEF If
<1>4. PICK c \in Seq(Parts) : c = [i \in DOMAIN r.calls |-> ToolCall(r.calls[i], 0)]
  <2>1. PICK s \in Seq(Nat) : s = r.calls
    BY <1>1
  <2>2. \A i \in 1..Len(s) : ToolCall(s[i], 0) \in Parts
    BY MakersSound
  <2>3. [i \in DOMAIN s |-> ToolCall(s[i], 0)] \in [1..Len(s) -> Parts] /\ Len(s) \in Nat
    BY <2>2
  <2>4. [i \in DOMAIN s |-> ToolCall(s[i], 0)] \in Seq(Parts)
    BY <2>3
  <2> QED
    BY <2>1, <2>4
<1>5. PICK x \in Parts : x = Result(r.result, r.output)
  BY <1>1, MakersSound
<1>6. PICK d \in Seq(Parts) : d = If(r.role = "tool", <<x>>)
  <2>1. <<x>> \in Seq(Parts) /\ <<>> \in Seq(Parts)
    BY OneSeq
  <2> QED
    BY <2>1 DEF If
<1>7. ContentToParts(r) = a \o b \o c \o d
  BY <1>2, <1>3, <1>4, <1>5, <1>6 DEF ContentToParts
<1>8. PICK e \in Seq(Parts) : e = a \o b \o c
  <2>1. PICK f \in Seq(Parts) : f = a \o b
    BY ConcatProperties
  <2> QED
    BY <2>1, ConcatProperties
<1>9. ContentToParts(r) = e \o d
  BY <1>7, <1>8
<1>10. e \o d \in Seq(Parts)
  BY ConcatProperties
<1>11. ASSUME r.role = "tool"
       PROVE  ContentToParts(r) # <<>> /\ Last(ContentToParts(r)) = x
  <2>1. d = <<x>>
    BY <1>6, <1>11 DEF If
  <2>2. PICK v \in Seq(Parts) : v = e \o d
    BY ConcatProperties
  <2>3. v = Append(e, x)
    BY <2>1, <2>2, AppendIsConcat
  <2>4. v # <<>> /\ Len(v) = Len(e) + 1 /\ v[Len(e) + 1] = x
    BY <2>3, AppendProperties
  <2> QED
    BY <2>2, <2>4, <1>9 DEF Last
<1> QED
  BY <1>5, <1>9, <1>10, <1>11

\* The message a row is loaded as, if it is.
Loaded(r) == If(ContentToParts(r) # <<>>, <<Message(r.role, ContentToParts(r))>>)

\* It is a list of messages, of the row's role.
LEMMA LoadedSound ==
  ASSUME NEW r \in Rows
  PROVE  /\ Loaded(r) \in Seq(Messages)
         /\ ContentToParts(r) # <<>> => Message(r.role, ContentToParts(r)) \in Messages
<1>1. r.role \in {"system", "user", "assistant", "tool"} /\ ContentToParts(r) \in Seq(Parts)
  BY PartsOfRow DEF Rows
<1>2. Message(r.role, ContentToParts(r)) \in Messages
  BY <1>1, MakersSound
<1>3. <<Message(r.role, ContentToParts(r))>> \in Seq(Messages) /\ <<>> \in Seq(Messages)
  BY <1>2, OneSeq
<1> QED
  BY <1>2, <1>3 DEF Loaded, If

\* History, as EachOf.
LEMMA HistoryEach ==
  ASSUME NEW s \in Seq(Rows), NEW g, g = [r \in Rows |-> Loaded(r)]
  PROVE  History(s) = EachOf(g, s)
<1>1. \A i \in DOMAIN s : If(ContentToParts(s[i]) # <<>>,
                               <<Message(s[i].role, ContentToParts(s[i]))>>) = g[s[i]]
  BY DEF Loaded
<1>2. [i \in DOMAIN s |-> If(ContentToParts(s[i]) # <<>>,
                               <<Message(s[i].role, ContentToParts(s[i]))>>)] = Map(g, s)
  BY <1>1 DEF Map
<1> QED
  BY <1>2 DEF History, EachOf

\* History is a list of messages.
LEMMA HistoryType ==
  ASSUME NEW a \in Seq(Rows)
  PROVE  History(a) \in Seq(Messages)
<1>1. PICK g : g = [r \in Rows |-> Loaded(r)]
  OBVIOUS
<1>2. \A x \in Rows : g[x] \in Seq(Messages)
  BY <1>1, LoadedSound
<1>3. EachOf(g, a) \in Seq(Messages)
  BY <1>2, EachOfType
<1> QED
  BY <1>1, <1>3, HistoryEach

\* History of one list of rows after the other.
LEMMA HistoryConcat ==
  ASSUME NEW a \in Seq(Rows), NEW b \in Seq(Rows)
  PROVE  History(a \o b) = History(a) \o History(b)
<1>1. PICK g : g = [r \in Rows |-> Loaded(r)]
  OBVIOUS
<1>2. \A x \in Rows : g[x] \in Seq(Messages)
  BY <1>1, LoadedSound
<1>3. EachOf(g, a \o b) = EachOf(g, a) \o EachOf(g, b)
  <2>1. PICK u \in Seq(Seq(Messages)), v \in Seq(Seq(Messages)) : u = Map(g, a) /\ v = Map(g, b)
    BY <1>2, MapSound
  <2>2. Map(g, a \o b) = u \o v
    <3>1. Map(g, a \o b) = Map(g, a) \o Map(g, b)
      BY MapConcat
    <3> QED
      BY <3>1, <2>1
  <2>3. FlattenSeq(u \o v) = FlattenSeq(u) \o FlattenSeq(v)
    BY FlattenConcat
  <2> QED
    BY <2>1, <2>2, <2>3 DEF EachOf
<1>4. PICK c \in Seq(Rows) : c = a \o b
  BY ConcatProperties
<1>5. History(a) = EachOf(g, a) /\ History(b) = EachOf(g, b) /\ History(c) = EachOf(g, c)
  BY <1>1, HistoryEach
<1> QED
  BY <1>3, <1>4, <1>5

\* History of no row, and of one.
LEMMA HistoryOne ==
  ASSUME NEW r \in Rows
  PROVE  History(<<>>) = <<>> /\ History(<<r>>) = Loaded(r)
<1>1. PICK g : g = [x \in Rows |-> Loaded(x)]
  OBVIOUS
<1>2. g[r] = Loaded(r) /\ g[r] \in Seq(Messages)
  BY <1>1, LoadedSound
<1>3. EachOf(g, <<>>) = <<>> /\ EachOf(g, <<r>>) = g[r]
  BY <1>2, EachOfOne
<1>4. PICK u \in Seq(Rows), v \in Seq(Rows) : u = <<>> /\ v = <<r>>
  <2>1. <<>> \in Seq(Rows) /\ <<r>> \in Seq(Rows)
    BY OneSeq
  <2> QED
    BY <2>1
<1>5. History(u) = EachOf(g, u) /\ History(v) = EachOf(g, v)
  BY <1>1, HistoryEach
<1> QED
  BY <1>2, <1>3, <1>4, <1>5

-----------------------------------------------------------------------------
(* Transcript: lengths                                                     *)

PartSize(p) == p.text + p.input + p.output

\* Texts adds up the texts of the parts.
LEMMA TextsSums ==
  ASSUME NEW s \in Seq(Parts), NEW g, g = [p \in Parts |-> p.text]
  PROVE  Texts(s) = SumOf(g, s)
<1>1. \A i \in DOMAIN s : s[i].text = g[s[i]]
  OBVIOUS
<1>2. [i \in DOMAIN s |-> s[i].text] = Map(g, s)
  BY <1>1 DEF Map
<1> QED
  BY <1>2 DEF Texts, SumOf

\* Texts of no part, and of one.
LEMMA TextsOne ==
  ASSUME NEW p \in Parts
  PROVE  Texts(<<>>) = 0 /\ Texts(<<p>>) = p.text
<1>1. PICK g : g = [q \in Parts |-> q.text]
  OBVIOUS
<1>2. g[p] = p.text /\ g[p] \in Nat
  BY <1>1 DEF Parts
<1>3. SumOf(g, <<>>) = 0 /\ SumOf(g, <<p>>) = g[p]
  BY <1>2, SumOfOne
<1>4. PICK u \in Seq(Parts), v \in Seq(Parts) : u = <<>> /\ v = <<p>>
  <2>1. <<>> \in Seq(Parts) /\ <<p>> \in Seq(Parts)
    BY OneSeq
  <2> QED
    BY <2>1
<1>5. Texts(u) = SumOf(g, u) /\ Texts(v) = SumOf(g, v)
  BY <1>1, TextsSums
<1> QED
  BY <1>2, <1>3, <1>4, <1>5

\* Texts is a number.
LEMMA TextsType ==
  ASSUME NEW s \in Seq(Parts)
  PROVE  Texts(s) \in Nat
<1>1. PICK g : g = [q \in Parts |-> q.text]
  OBVIOUS
<1>2. \A x \in Parts : g[x] \in Nat
  BY <1>1 DEF Parts
<1>3. SumOf(g, s) \in Nat
  BY <1>2, SumOfConcat
<1> QED
  BY <1>1, <1>3, TextsSums

\* SizeOf adds up the sizes of the parts.
LEMMA SizeSums ==
  ASSUME NEW m \in Messages, NEW g, g = [p \in Parts |-> PartSize(p)]
  PROVE  SizeOf(m) = SumOf(g, m.parts)
<1>1. m.parts \in Seq(Parts)
  BY DEF Messages
<1>2. PICK s \in Seq(Parts) : s = m.parts
  BY <1>1
<1>3. \A i \in DOMAIN s : s[i].text + s[i].input + s[i].output = g[s[i]]
  BY DEF PartSize
<1>4. [i \in DOMAIN s |-> s[i].text + s[i].input + s[i].output] = Map(g, s)
  BY <1>3 DEF Map
<1> QED
  BY <1>2, <1>4 DEF SizeOf, SumOf

\* A message's size is a number, and positive if one of its parts' is.
LEMMA SizeSound ==
  ASSUME NEW m \in Messages
  PROVE  /\ SizeOf(m) \in Nat
         /\ \A k \in DOMAIN m.parts : PartSize(m.parts[k]) > 0 => HasContent(m)
<1>1. PICK g : g = [p \in Parts |-> PartSize(p)]
  OBVIOUS
<1>2. \A x \in Parts : g[x] \in Nat
  BY <1>1 DEF Parts, PartSize
<1>3. PICK s \in Seq(Parts) : s = m.parts
  BY DEF Messages
<1>4. SumOf(g, s) \in Nat
  BY <1>2, SumOfConcat
<1>5. SizeOf(m) = SumOf(g, s)
  BY <1>1, <1>3, SizeSums
<1>6. ASSUME NEW k \in 1..Len(s), PartSize(s[k]) > 0 PROVE SumOf(g, s) > 0
  <2>1. g[s[k]] > 0
    BY <1>1, <1>6
  <2> QED
    BY <1>2, <2>1, SumOfPositive
<1>7. DOMAIN s = 1..Len(s)
  OBVIOUS
<1> QED
  BY <1>3, <1>4, <1>5, <1>6, <1>7 DEF HasContent

\* estimateChars adds up the sizes of the messages.
LEMMA EstimateSums ==
  ASSUME NEW s \in Seq(Messages), NEW g, g = [m \in Messages |-> SizeOf(m)]
  PROVE  EstimateChars(s) = SumOf(g, s)
<1>1. \A i \in DOMAIN s : SizeOf(s[i]) = g[s[i]]
  OBVIOUS
<1>2. [i \in DOMAIN s |-> SizeOf(s[i])] = Map(g, s)
  BY <1>1 DEF Map
<1> QED
  BY <1>2 DEF EstimateChars, SumOf

\* The estimate of one list after the other.
LEMMA EstimateConcat ==
  ASSUME NEW a \in Seq(Messages), NEW b \in Seq(Messages)
  PROVE  /\ EstimateChars(a) \in Nat
         /\ EstimateChars(a \o b) = EstimateChars(a) + EstimateChars(b)
<1>1. PICK g : g = [m \in Messages |-> SizeOf(m)]
  OBVIOUS
<1>2. \A x \in Messages : g[x] \in Nat
  BY <1>1, SizeSound
<1>3. SumOf(g, a) \in Nat /\ SumOf(g, a \o b) = SumOf(g, a) + SumOf(g, b)
  BY <1>2, SumOfConcat
<1>4. PICK c \in Seq(Messages) : c = a \o b
  BY ConcatProperties
<1>5. /\ EstimateChars(a) = SumOf(g, a)
      /\ EstimateChars(b) = SumOf(g, b)
      /\ EstimateChars(c) = SumOf(g, c)
  BY <1>1, EstimateSums
<1> QED
  BY <1>3, <1>4, <1>5


-----------------------------------------------------------------------------
(* Transcript: truncate                                                    *)

\* A list that ends another one is its suffix.
LEMMA SuffixSound ==
  ASSUME NEW A, NEW s \in Seq(A), NEW t \in Seq(A), NEW d \in Nat,
         Len(t) = Len(s) + d, \A i \in 1..Len(s) : s[i] = t[d + i]
  PROVE  IsSuffix(s, t)
<1>1. Len(s) \in Nat /\ Len(t) \in Nat
  OBVIOUS
<1>2. PICK a : a = Reverse(s)
  OBVIOUS
<1>3. PICK b : b = Reverse(t)
  OBVIOUS
<1>4. a = [i \in 1..Len(s) |-> s[(Len(s) - i) + 1]] /\ b = [i \in 1..Len(t) |-> t[(Len(t) - i) + 1]]
  BY <1>2, <1>3 DEF Reverse
<1>5. a \in Seq(A) /\ Len(a) = Len(s) /\ \A i \in 1..Len(s) : a[i] = s[(Len(s) - i) + 1]
  <2>1. \A i \in 1..Len(s) : s[(Len(s) - i) + 1] \in A
    BY <1>1
  <2> QED
    BY <1>1, <1>4, <2>1
<1>6. b \in Seq(A) /\ Len(b) = Len(t) /\ \A i \in 1..Len(t) : b[i] = t[(Len(t) - i) + 1]
  <2>1. \A i \in 1..Len(t) : t[(Len(t) - i) + 1] \in A
    BY <1>1
  <2> QED
    BY <1>1, <1>4, <2>1
<1>7. ASSUME NEW i \in 1..Len(s) PROVE a[i] = b[i]
  <2>1. PICK j \in 1..Len(s) : j = (Len(s) - i) + 1 /\ d + j = (Len(t) - i) + 1 /\ i \in 1..Len(t)
    <3>1. (Len(s) - i) + 1 \in 1..Len(s) /\ d + ((Len(s) - i) + 1) = (Len(t) - i) + 1 /\ i \in 1..Len(t)
      BY <1>1
    <3> QED
      BY <3>1
  <2> QED
    BY <2>1, <1>5, <1>6
<1>8. PICK n \in Nat : n = Len(s) /\ n = Len(a) /\ n <= Len(b)
  BY <1>1, <1>5, <1>6
<1>9. SubSeq(a, 1, n) = SubSeq(b, 1, n)
  <2>1. PICK u, v : u = SubSeq(a, 1, n) /\ v = SubSeq(b, 1, n)
    OBVIOUS
  <2>2. /\ u \in Seq(A) /\ Len(u) = n /\ \A i \in 1..n : u[i] = a[i]
    BY <2>1, <1>5, <1>8
  <2>3. /\ v \in Seq(A) /\ Len(v) = n /\ \A i \in 1..n : v[i] = b[i]
    BY <2>1, <1>6, <1>8
  <2>4. u = v
    BY <2>2, <2>3, <1>7, <1>8, SeqEqual
  <2> QED
    BY <2>1, <2>4
<1> QED
  BY <1>2, <1>3, <1>8, <1>9 DEF IsSuffix, IsPrefix

\* s without its second to (d + 1)st element: what truncate has after dropping d.
After(s, d) == <<Head(s)>> \o SubSeq(s, d + 2, Len(s))

\* The messages that are left, and their estimate.
LEMMA AfterSound ==
  ASSUME NEW s \in Seq(Messages), NEW d \in Nat, d < Len(s), NEW t, t = After(s, d)
  PROVE  /\ t \in Seq(Messages) /\ Len(t) = Len(s) - d
         /\ Head(t) = Head(s) /\ t[1] = s[1]
         /\ \A i \in 2..(Len(s) - d) : t[i] = s[d + i]
         /\ EstimateChars(t) = EstimateChars(s) - EstimateChars(SubSeq(s, 2, d + 1))
<1>1. PICK n \in Nat, k \in Nat : n = Len(s) /\ k = d + 1 /\ 1 <= k /\ k <= n /\ n - k = (n - d) - 1
  OBVIOUS
<1>2. PICK h \in Messages : h = Head(s) /\ h = s[1]
  BY <1>1
<1>3. PICK x : x = SubSeq(s, k + 1, n)
  OBVIOUS
<1>4. x \in Seq(Messages) /\ Len(x) = n - k /\ n - k \in Nat /\ \A i \in 1..(n - k) : x[i] = s[k + i]
  BY <1>1, <1>3, SliceSound
<1>5. PICK y : y = SubSeq(s, 1 + 1, k)
  OBVIOUS
<1>6. y \in Seq(Messages)
  <2>1. 1 \in Nat /\ 1 <= k /\ k <= Len(s)
    BY <1>1
  <2> QED
    BY <1>5, <2>1, SliceSound
<1>7. PICK u \in Seq(Messages) : u = <<h>> /\ Len(u) = 1 /\ u[1] = h
  BY OneSeq
<1>8. t = u \o x
  BY <1>1, <1>2, <1>3, <1>7 DEF After
<1>9. /\ t \in Seq(Messages) /\ Len(t) = 1 + (n - k) /\ t[1] = h
      /\ \A i \in 1..(n - k) : t[1 + i] = x[i]
  BY <1>4, <1>7, <1>8, ConcatAt
<1>10. Len(t) = n - d /\ Head(t) = h
  <2>1. Len(t) = n - d /\ Len(t) >= 1
    BY <1>1, <1>4, <1>9
  <2> QED
    BY <1>9, <2>1
<1>11. ASSUME NEW i \in 2..(n - d) PROVE t[i] = s[d + i]
  <2>1. PICK j \in 1..(n - k) : i = 1 + j /\ k + j = d + i
    <3>1. i - 1 \in 1..(n - k) /\ i = 1 + (i - 1) /\ k + (i - 1) = d + i
      BY <1>1
    <3> QED
      BY <3>1
  <2> QED
    BY <2>1, <1>4, <1>9
<1>12. s = u \o (y \o x)
  <2>1. 1 \in 1..Len(s) /\ Len(s) \in 1..Len(s)
    BY <1>1
  <2>2. SubSeq(s, 1, Len(s)) = <<s[1]>> \o SubSeq(s, 1 + 1, Len(s))
    BY <2>1, SubSeqRecursiveFirst
  <2>3. SubSeq(s, 1 + 1, k) \o SubSeq(s, k + 1, n) = SubSeq(s, 1 + 1, n)
    <3>1. 1 \in Nat /\ 1 <= k /\ k <= n /\ n <= Len(s)
      BY <1>1
    <3> QED
      BY <3>1, SliceJoin
  <2>4. SubSeq(s, 1, Len(s)) = s
    BY SubSeqFull
  <2> QED
    BY <2>2, <2>3, <2>4, <1>1, <1>2, <1>3, <1>5, <1>7
<1>13. PICK z \in Seq(Messages) : z = y \o x
  BY <1>4, <1>6, ConcatProperties
<1>14. /\ EstimateChars(u \o z) = EstimateChars(u) + EstimateChars(z)
       /\ EstimateChars(u) \in Nat
  BY EstimateConcat
<1>15. /\ EstimateChars(y \o x) = EstimateChars(y) + EstimateChars(x)
       /\ EstimateChars(y) \in Nat /\ EstimateChars(x) \in Nat
  BY <1>4, <1>6, EstimateConcat
<1>16. EstimateChars(u \o x) = EstimateChars(u) + EstimateChars(x)
  BY <1>4, EstimateConcat
<1>17. \A a, b, c, e, f \in Nat : (e = a + (b + c) /\ f = a + c) => f = e - b
  OBVIOUS
<1>18. EstimateChars(t) = EstimateChars(s) - EstimateChars(y)
  <2>1. PICK a \in Nat, b \in Nat, c \in Nat :
          a = EstimateChars(u) /\ b = EstimateChars(y) /\ c = EstimateChars(x)
    BY <1>14, <1>15
  <2>2. EstimateChars(s) = a + (b + c) /\ EstimateChars(t) = a + c
    BY <2>1, <1>8, <1>12, <1>13, <1>14, <1>15, <1>16
  <2>3. a + (b + c) \in Nat /\ a + c \in Nat
    OBVIOUS
  <2> QED
    BY <2>1, <2>2, <2>3, <1>17
<1>19. SubSeq(s, 2, d + 1) = y
  BY <1>1, <1>5
<1> QED
  BY <1>1, <1>2, <1>9, <1>10, <1>11, <1>18, <1>19

\* truncate: what it keeps, and that it could not have kept more.
LEMMA TruncateSound ==
  ASSUME NEW s \in Seq(Messages), Len(s) >= 2, NEW t, t = Truncate(s)
  PROVE  /\ t \in Seq(Messages) /\ Len(t) >= 2
         /\ \E d \in Nat : /\ d < Len(s) /\ t = After(s, d)
                           /\ d = 0 \/ ~Fits(EstimateChars(After(s, d - 1)))
         /\ Fits(EstimateChars(t)) \/ Len(t) = 2
<1>0. After(s, 0) = s
  <2>1. PICK u : u = After(s, 0)
    OBVIOUS
  <2>2. 0 \in Nat /\ 0 < Len(s) /\ Len(s) \in Nat
    OBVIOUS
  <2>3. /\ u \in Seq(Messages) /\ Len(u) = Len(s) - 0
        /\ u[1] = s[1] /\ \A i \in 2..(Len(s) - 0) : u[i] = s[0 + i]
    BY <2>1, <2>2, AfterSound
  <2>4. Len(u) = Len(s) /\ \A i \in 1..Len(u) : u[i] = s[i]
    BY <2>2, <2>3
  <2>5. u = s
    BY <2>3, <2>4, SeqEqual
  <2> QED
    BY <2>1, <2>5
<1>1. CASE Fits(EstimateChars(s)) \/ Len(s) <= 2
  <2>1. t = s
    BY <1>1 DEF Truncate
  <2>2. Fits(EstimateChars(t)) \/ Len(t) = 2
    <3>1. PICK n \in Nat : n = Len(s) /\ n >= 2
      OBVIOUS
    <3>2. n <= 2 => n = 2
      BY <3>1
    <3>3. CASE Fits(EstimateChars(s))
      BY <3>3, <2>1
    <3>4. CASE Len(s) <= 2
      BY <3>1, <3>2, <3>4, <2>1
    <3> QED
      BY <3>3, <3>4, <1>1
  <2>3. 0 \in Nat /\ 0 < Len(s)
    OBVIOUS
  <2> QED
    BY <1>0, <2>1, <2>2, <2>3
<1>2. CASE ~(Fits(EstimateChars(s)) \/ Len(s) <= 2)
  <2> DEFINE over(d) == ~Fits(EstimateChars(s) - EstimateChars(SubSeq(s, 2, d + 1)))
             P(d) == (d = Len(s) - 2 \/ ~over(d)) /\ \A e \in 1..(d - 1) : over(e)
             drop == CHOOSE d \in 1..(Len(s) - 2) : P(d)
  <2>1. t = After(s, drop)
    BY <1>2 DEF Truncate, After
  <2>2. Len(s) \in Nat /\ Len(s) > 2 /\ ~Fits(EstimateChars(s))
    BY <1>2
  <2>3. \A d : over(d) <=> ~Fits(EstimateChars(s) - EstimateChars(SubSeq(s, 2, d + 1)))
    OBVIOUS
  <2> HIDE DEF over
  <2>4. \E d \in 1..(Len(s) - 2) : P(d)
    <3> DEFINE D == {d \in 1..(Len(s) - 2) : d = Len(s) - 2 \/ ~over(d)}
    <3>1. D \in SUBSET Nat /\ Len(s) - 2 \in D
      BY <2>2
    <3>2. PICK d \in D : \A e \in D : d <= e
      <4> HIDE DEF D
      <4> QED
        BY <3>1, LeastExists
    <3>3. d \in 1..(Len(s) - 2) /\ (d = Len(s) - 2 \/ ~over(d))
      BY <3>2
    <3>4. ASSUME NEW e \in 1..(d - 1) PROVE over(e)
      <4>1. e \in 1..(Len(s) - 2) /\ ~(d <= e)
        BY <2>2, <3>3
      <4>2. e \notin D
        BY <4>1, <3>2
      <4> QED
        BY <4>1, <4>2
    <3> QED
      BY <3>3, <3>4
  <2>5. drop \in 1..(Len(s) - 2) /\ P(drop)
    <3> HIDE DEF P
    <3> QED
      BY <2>4
  <2>6. PICK d \in Nat : d = drop /\ d \in 1..(Len(s) - 2) /\ P(d)
    <3> HIDE DEF P, drop
    <3> QED
      BY <2>2, <2>5
  <2> HIDE DEF drop
  <2>7. d < Len(s) /\ d >= 1 /\ d <= Len(s) - 2 /\ t = After(s, d)
    BY <2>1, <2>2, <2>6
  <2>8. /\ t \in Seq(Messages) /\ Len(t) = Len(s) - d
        /\ EstimateChars(t) = EstimateChars(s) - EstimateChars(SubSeq(s, 2, d + 1))
    BY <2>7, AfterSound
  <2>9. Len(t) >= 2
    BY <2>2, <2>7, <2>8
  <2>10. Fits(EstimateChars(t)) \/ Len(t) = 2
    <3>1. CASE d = Len(s) - 2
      BY <3>1, <2>2, <2>8
    <3>2. CASE ~over(d)
      BY <3>2, <2>3, <2>8
    <3> QED
      BY <3>1, <3>2, <2>6
  <2>11. ~Fits(EstimateChars(After(s, d - 1)))
    <3>1. CASE d = 1
      <4>1. d - 1 = 0
        BY <3>1
      <4> QED
        BY <4>1, <1>0, <2>2
    <3>2. CASE d # 1
      <4>1. PICK e \in Nat : e = d - 1 /\ e \in 1..(d - 1) /\ e < Len(s)
        <5>1. d - 1 \in Nat /\ d - 1 \in 1..(d - 1) /\ d - 1 < Len(s)
          BY <3>2, <2>2, <2>7
        <5> QED
          BY <5>1
      <4>2. over(e)
        BY <4>1, <2>6
      <4>3. PICK w : w = After(s, e)
        OBVIOUS
      <4>4. EstimateChars(w) = EstimateChars(s) - EstimateChars(SubSeq(s, 2, e + 1))
        BY <4>1, <4>3, AfterSound
      <4> QED
        BY <4>1, <4>2, <4>3, <4>4, <2>3
    <3> QED
      BY <3>1, <3>2
  <2> QED
    BY <2>7, <2>8, <2>9, <2>10, <2>11
<1> QED
  BY <1>1, <1>2

\* PromptIsLongestFit, of any transcript.
LEMMA LongestFit ==
  ASSUME msgs \in Seq(Messages), Len(msgs) >= 2
  PROVE  PromptIsLongestFit
<1>1. PICK t : t = Truncate(msgs)
  OBVIOUS
<1>2. /\ t \in Seq(Messages) /\ Len(t) >= 2
      /\ \E d \in Nat : /\ d < Len(msgs) /\ t = After(msgs, d)
                        /\ d = 0 \/ ~Fits(EstimateChars(After(msgs, d - 1)))
      /\ Fits(EstimateChars(t)) \/ Len(t) = 2
  BY <1>1, TruncateSound
<1>3. PICK d \in Nat : /\ d < Len(msgs) /\ t = After(msgs, d)
                       /\ d = 0 \/ ~Fits(EstimateChars(After(msgs, d - 1)))
  BY <1>2
<1>4. PICK n \in Nat : n = Len(msgs) /\ n >= 2 /\ d < n
  BY <1>3
<1>5. /\ Len(t) = n - d /\ Head(t) = Head(msgs) /\ t[1] = msgs[1]
      /\ \A i \in 2..(n - d) : t[i] = msgs[d + i]
  BY <1>3, <1>4, AfterSound
<1>6. Last(t) = Last(msgs)
  <2>1. n - d \in 2..(n - d) /\ d + (n - d) = n
    BY <1>2, <1>4, <1>5
  <2> QED
    BY <2>1, <1>4, <1>5 DEF Last
<1>7. IsSuffix(Tail(t), Tail(msgs))
  <2>1. PICK a, b : a = Tail(t) /\ b = Tail(msgs)
    OBVIOUS
  <2>2. t # <<>> /\ msgs # <<>>
    BY <1>2
  <2>3. a \in Seq(Messages) /\ Len(a) = Len(t) - 1 /\ \A i \in 1..Len(a) : a[i] = t[i + 1]
    BY <2>1, <2>2, <1>2, HeadTailProperties
  <2>4. b \in Seq(Messages) /\ Len(b) = n - 1 /\ \A i \in 1..Len(b) : b[i] = msgs[i + 1]
    BY <2>1, <2>2, <1>4, HeadTailProperties
  <2>5. Len(b) = Len(a) + d /\ Len(a) \in Nat
    BY <2>3, <2>4, <1>2, <1>4, <1>5
  <2>6. ASSUME NEW i \in 1..Len(a) PROVE a[i] = b[d + i]
    <3>1. i + 1 \in 2..(n - d) /\ d + (i + 1) = (d + i) + 1 /\ d + i \in 1..Len(b)
      BY <2>3, <2>4, <2>5, <1>4, <1>5
    <3>2. a[i] = t[i + 1] /\ t[i + 1] = msgs[d + (i + 1)]
      BY <3>1, <2>3, <1>5
    <3>3. b[d + i] = msgs[(d + i) + 1]
      BY <3>1, <2>4
    <3> QED
      BY <3>1, <3>2, <3>3
  <2>7. IsSuffix(a, b)
    BY <2>3, <2>4, <2>5, <2>6, SuffixSound
  <2> QED
    BY <2>1, <2>7
<1>8. ASSUME t # msgs
      PROVE  ~Fits(EstimateChars(<<Head(msgs)>> \o SubSeq(msgs, Len(msgs) - Len(t) + 1, Len(msgs))))
  <2>1. d # 0
    <3>1. SUFFICES ASSUME d = 0 PROVE FALSE
      OBVIOUS
    <3>2. Len(t) = Len(msgs) /\ \A i \in 1..Len(t) : t[i] = msgs[i]
      BY <3>1, <1>4, <1>5
    <3>3. t = msgs
      BY <3>2, <1>2, SeqEqual
    <3> QED
      BY <3>3, <1>8
  <2>2. Len(msgs) - Len(t) + 1 = (d - 1) + 2
    BY <1>4, <1>5
  <2>3. <<Head(msgs)>> \o SubSeq(msgs, Len(msgs) - Len(t) + 1, Len(msgs)) = After(msgs, d - 1)
    BY <2>2 DEF After
  <2> QED
    BY <2>1, <2>3, <1>3
<1> QED
  BY <1>1, <1>2, <1>5, <1>6, <1>7, <1>8 DEF PromptIsLongestFit


-----------------------------------------------------------------------------
(* Transcript: responses and rows                                          *)

Words == {p \in Parts : p.type \in {"text", "reasoning"}}

\* Which parts are calls and which are results.
LEMMA PartTypes ==
  /\ \A n \in Nat : Text(n) \in Words /\ Reasoning(n) \in Words
  /\ \A n \in Nat : Text(n).type = "text" /\ Text(n).text = n
  /\ \A n \in Nat : Reasoning(n).type = "reasoning" /\ Reasoning(n).text = n
  /\ \A c, n \in Nat : ToolCall(c, n).type = "tool_call" /\ ToolCall(c, n).id = c
                       /\ ToolCall(c, n).input = n
  /\ \A c, n \in Nat : Result(c, n).type = "tool_result" /\ Result(c, n).id = c
                       /\ Result(c, n).output = n
<1>1. \A n \in Nat : Text(n) \in Words /\ Reasoning(n) \in Words
  BY MakersSound DEF Text, Reasoning, Part, Words
<1>2. \A n \in Nat : Text(n).type = "text" /\ Text(n).text = n
  BY DEF Text, Part
<1>3. \A n \in Nat : Reasoning(n).type = "reasoning" /\ Reasoning(n).text = n
  BY DEF Reasoning, Part
<1>4. \A c, n \in Nat : ToolCall(c, n).type = "tool_call" /\ ToolCall(c, n).id = c
                        /\ ToolCall(c, n).input = n
  BY DEF ToolCall, Part
<1>5. \A c, n \in Nat : Result(c, n).type = "tool_result" /\ Result(c, n).id = c
                        /\ Result(c, n).output = n
  BY DEF Result, Part
<1> QED
  BY <1>1, <1>2, <1>3, <1>4, <1>5

\* The sizes of parts.
LEMMA PartSizes ==
  /\ \A n \in Nat : PartSize(Text(n)) = n /\ PartSize(Reasoning(n)) = n
  /\ \A c, n \in Nat : PartSize(ToolCall(c, n)) = n /\ PartSize(Result(c, n)) = n
<1>1. \A n \in Nat : PartSize(Text(n)) = n /\ PartSize(Reasoning(n)) = n
  BY DEF Text, Reasoning, Part, PartSize
<1>2. \A c, n \in Nat : PartSize(ToolCall(c, n)) = n /\ PartSize(Result(c, n)) = n
  BY DEF ToolCall, Result, Part, PartSize
<1> QED
  BY <1>1, <1>2

\* A list of words is a list of parts, and has no call among them.
LEMMA WordsOnly ==
  ASSUME NEW x \in Seq(Words)
  PROVE  x \in Seq(Parts) /\ OfType(x, "tool_call") = <<>>
<1> DEFINE S == {n \in Nat : \A u \in Seq(Words) : Len(u) = n => OfType(u, "tool_call") = <<>>}
<1>0. \A u \in Seq(Words) : u \in Seq(Parts)
  <2>1. Words \subseteq Parts
    BY DEF Words
  <2> QED
    BY <2>1, SeqMonotonic
<1>1. 0 \in S
  <2>1. SUFFICES ASSUME NEW u \in Seq(Words), Len(u) = 0 PROVE OfType(u, "tool_call") = <<>>
    OBVIOUS
  <2>2. u = <<>>
    BY <2>1
  <2>3. PICK p : p \in Parts
    BY MakersSound
  <2> QED
    BY <2>2, <2>3, OfTypeOne
<1>2. ASSUME NEW n \in S PROVE n + 1 \in S
  <2>1. SUFFICES ASSUME NEW u \in Seq(Words), Len(u) = n + 1 PROVE OfType(u, "tool_call") = <<>>
    OBVIOUS
  <2>2. u # <<>>
    BY <2>1
  <2>3. PICK v \in Seq(Words), p \in Words : u = Append(v, p)
    BY <2>2, SequenceEmptyOrAppend
  <2>4. Len(v) = n
    BY <2>1, <2>3
  <2>5. OfType(v, "tool_call") = <<>>
    BY <2>4
  <2>6. PICK w \in Seq(Parts) : w = v
    BY <1>0
  <2>7. p \in Parts /\ p.type # "tool_call"
    BY DEF Words
  <2>8. PICK o \in Seq(Parts) : o = <<p>>
    BY <2>7, OneSeq
  <2>9. u = w \o o
    BY <2>3, <2>6, <2>7, <2>8, AppendIsConcat
  <2>10. OfType(w \o o, "tool_call") = OfType(w, "tool_call") \o OfType(o, "tool_call")
    BY OfTypeConcat
  <2>11. OfType(o, "tool_call") = <<>>
    BY <2>7, <2>8, OfTypeOne
  <2>12. <<>> \o <<>> = <<>>
    OBVIOUS
  <2> QED
    BY <2>5, <2>6, <2>9, <2>10, <2>11, <2>12
<1>3. S = Nat
  <2> HIDE DEF S
  <2>1. S \in SUBSET Nat
    BY DEF S
  <2> QED
    BY <1>1, <1>2, <2>1, SetInduction
<1>4. Len(x) \in S
  BY <1>3
<1> QED
  BY <1>0, <1>4

\* Words and a call after them.
Calling(a, c, k) == /\ \E x \in Seq(Words) : a = x \o <<ToolCall(c, k)>>
                    /\ OfType(a, "tool_call") = <<ToolCall(c, k)>>

\* What the call adds is a call.
LEMMA CallingSound ==
  ASSUME NEW x \in Seq(Words), NEW c \in Nat, NEW k \in Nat, NEW a, a = x \o <<ToolCall(c, k)>>
  PROVE  a \in Seq(Parts) /\ Calling(a, c, k)
<1>1. PICK p \in Parts : p = ToolCall(c, k) /\ p.type = "tool_call"
  BY MakersSound, PartTypes
<1>2. PICK y \in Seq(Parts) : y = x /\ OfType(y, "tool_call") = <<>>
  BY WordsOnly
<1>3. PICK o \in Seq(Parts) : o = <<p>>
  BY OneSeq
<1>4. OfType(y \o o, "tool_call") = OfType(y, "tool_call") \o OfType(o, "tool_call")
  BY OfTypeConcat
<1>5. OfType(o, "tool_call") = o
  BY <1>1, <1>3, OfTypeOne
<1>6. <<>> \o o = o /\ y \o o \in Seq(Parts)
  OBVIOUS
<1> QED
  BY <1>1, <1>2, <1>3, <1>4, <1>5, <1>6 DEF Calling

\* What Y says, followed by one call of c.
ThenCall(Y, c, n) == {y \o <<ToolCall(c, k)>> : y \in Y, k \in {0, n}}

\* A response is words, with or without one call.
LEMMA ResponseSound ==
  ASSUME NEW c \in Nat, NEW n \in Nat, NEW a \in Responses(c, n)
  PROVE  /\ a \in Seq(Parts)
         /\ \/ a \in Seq(Words) /\ OfType(a, "tool_call") = <<>>
            \/ \E k \in Nat : Calling(a, c, k)
<1>1. PICK t \in Words, r \in Words : t = Text(n) /\ r = Reasoning(n)
  BY PartTypes
<1>2. <<>> \in Seq(Words) /\ <<t, r, t>> \in Seq(Words)
  OBVIOUS
<1>3. \/ a \in Seq(Words)
      \/ \E x \in Seq(Words), k \in Nat : a = x \o <<ToolCall(c, k)>>
  <2>1. PICK Y : Y = {<<>>, <<t, r, t>>}
    OBVIOUS
  <2>2. \A y \in Y : y \in Seq(Words)
    BY <1>2, <2>1
  <2>3. Responses(c, n) = Y \cup ThenCall(Y, c, n)
    BY <1>1, <2>1 DEF Responses, ThenCall
  <2>4. CASE a \in Y
    BY <2>2, <2>4
  <2>5. CASE a \in ThenCall(Y, c, n)
    <3>1. PICK y \in Y, k \in {0, n} : a = y \o <<ToolCall(c, k)>>
      BY <2>5 DEF ThenCall
    <3>2. k \in Nat
      <4>1. \A h \in {0, n} : h \in Nat
        OBVIOUS
      <4> QED
        BY <4>1
    <3>3. y \in Seq(Words)
      BY <2>2
    <3>4. \E x \in Seq(Words), h \in Nat : a = x \o <<ToolCall(c, h)>>
      BY <3>1, <3>2, <3>3, Zenon
    <3> QED
      BY <3>4
  <2> QED
    BY <2>3, <2>4, <2>5
<1>4. CASE a \in Seq(Words)
  BY <1>4, WordsOnly
<1>5. CASE \E x \in Seq(Words), k \in Nat : a = x \o <<ToolCall(c, k)>>
  BY <1>5, CallingSound
<1> QED
  BY <1>3, <1>4, <1>5

\* Ids of no part, and of one.
LEMMA IdsOne ==
  ASSUME NEW p
  PROVE  Ids(<<>>) = <<>> /\ Ids(<<p>>) = <<p.id>>
<1>1. PICK y : y = p.id
  OBVIOUS
<1>2. DOMAIN <<p>> = 1..1 /\ <<p>>[1] = p
  OBVIOUS
<1>3. Ids(<<p>>) = [i \in 1..1 |-> y]
  BY <1>1, <1>2 DEF Ids
<1>4. [i \in 1..1 |-> y] = <<y>>
  OBVIOUS
<1> QED
  BY <1>1, <1>3, <1>4 DEF Ids


\* A list of at most one element.
LEMMA UpToOne ==
  ASSUME NEW A, NEW p \in A, NEW x, x = <<>> \/ x = <<p>>
  PROVE  x \in Seq(A)
<1>1. <<>> \in Seq(A) /\ <<p>> \in Seq(A)
  BY OneSeq
<1> QED
  BY <1>1

\* At most one part, by its type.
LEMMA OfTypeUpToOne ==
  ASSUME NEW p \in Parts, NEW x, x = <<>> \/ x = <<p>>, NEW t
  PROVE  x \in Seq(Parts) /\ OfType(x, t) = IF p.type = t THEN x ELSE <<>>
<1>1. <<>> \in Seq(Parts) /\ <<p>> \in Seq(Parts)
  BY OneSeq
<1>2. OfType(<<>>, t) = <<>> /\ OfType(<<p>>, t) = IF p.type = t THEN <<p>> ELSE <<>>
  BY OfTypeOne
<1> QED
  BY <1>1, <1>2

\* Up to three parts, of three types, and what is found of each.
LEMMA ThreeTypes ==
  ASSUME NEW p \in Parts, NEW q \in Parts, NEW v \in Parts,
         p.type = "text", q.type = "reasoning", v.type = "tool_call",
         NEW x, NEW y, NEW z, x = <<>> \/ x = <<p>>, y = <<>> \/ y = <<q>>, z = <<>> \/ z = <<v>>
  PROVE  /\ (x \o y) \o z \in Seq(Parts)
         /\ OfType((x \o y) \o z, "text") = x
         /\ OfType((x \o y) \o z, "reasoning") = y
         /\ OfType((x \o y) \o z, "tool_call") = z
<1>0. PICK s : s = (x \o y) \o z
  OBVIOUS
<1>1. /\ x \in Seq(Parts) /\ OfType(x, "text") = x
      /\ OfType(x, "reasoning") = <<>> /\ OfType(x, "tool_call") = <<>>
  BY OfTypeUpToOne
<1>2. /\ y \in Seq(Parts) /\ OfType(y, "text") = <<>>
      /\ OfType(y, "reasoning") = y /\ OfType(y, "tool_call") = <<>>
  BY OfTypeUpToOne
<1>3. /\ z \in Seq(Parts) /\ OfType(z, "text") = <<>>
      /\ OfType(z, "reasoning") = <<>> /\ OfType(z, "tool_call") = z
  BY OfTypeUpToOne
<1>4. PICK u \in Seq(Parts) : u = x \o y
  BY <1>1, <1>2, ConcatProperties
<1>5. \A t : OfType(u, t) = OfType(x, t) \o OfType(y, t)
  <2>1. \A t : OfType(x \o y, t) = OfType(x, t) \o OfType(y, t)
    BY <1>1, <1>2, OfTypeConcat
  <2> QED
    BY <1>4, <2>1
<1>6. \A t : OfType(s, t) = OfType(u, t) \o OfType(z, t)
  <2>1. \A t : OfType(u \o z, t) = OfType(u, t) \o OfType(z, t)
    BY <1>3, OfTypeConcat
  <2> QED
    BY <1>0, <1>4, <2>1
<1>7. s \in Seq(Parts)
  <2>1. u \o z \in Seq(Parts)
    BY <1>3, ConcatProperties
  <2> QED
    BY <2>1, <1>0, <1>4
<1>8. /\ x \o <<>> = x /\ <<>> \o y = y /\ y \o <<>> = y /\ <<>> \o z = z /\ <<>> \o <<>> = <<>>
  BY <1>1, <1>2, <1>3, ConcatEmptySeq
<1> QED
  BY <1>0, <1>1, <1>2, <1>3, <1>5, <1>6, <1>7, <1>8

\* P gives back the row of a response that called c or nothing.
GivesBack(P, r, c) ==
    /\ P \in Seq(Parts)
    /\ Texts(OfType(P, "text")) = r.content
    /\ Texts(OfType(P, "reasoning")) = r.reasoning
    /\ Ids(OfType(P, "tool_call")) = r.calls
    /\ P = <<>> <=> (r.content = 0 /\ r.reasoning = 0 /\ r.calls = <<>>)
    /\ r.calls = <<>> => P \in Seq(Words)
    /\ r.calls = <<c>> => /\ P \in Seq(Words \cup {ToolCall(c, 0)})
                          /\ \E k \in DOMAIN P : P[k] = ToolCall(c, 0)
    /\ (r.content > 0 \/ r.reasoning > 0) => \E k \in DOMAIN P : PartSize(P[k]) > 0

\* contentToParts gives back a response's text, its thought and its calls.
LEMMA AnswerLoaded ==
  ASSUME NEW r \in Rows, r.role = "assistant", NEW c \in Nat, NEW ids, ids = r.calls,
         ids = <<>> \/ ids = <<c>>
  PROVE  GivesBack(ContentToParts(r), r, c)
<1>0. PICK P : P = ContentToParts(r)
  OBVIOUS
<1>1. r.content \in Nat /\ r.reasoning \in Nat
  BY DEF Rows
<1>2. PICK p \in Parts, q \in Parts, v \in Parts :
        p = Text(r.content) /\ q = Reasoning(r.reasoning) /\ v = ToolCall(c, 0)
  BY <1>1, MakersSound
<1>3. /\ p.type = "text" /\ p.text = r.content /\ p \in Words
      /\ q.type = "reasoning" /\ q.text = r.reasoning /\ q \in Words
      /\ v.type = "tool_call" /\ v.id = c
  BY <1>1, <1>2, PartTypes
<1>4. PICK x : x = IF r.content > 0 THEN <<p>> ELSE <<>>
  OBVIOUS
<1>5. PICK y : y = IF r.reasoning > 0 THEN <<q>> ELSE <<>>
  OBVIOUS
<1>6. PICK z : z = IF r.calls = <<c>> THEN <<v>> ELSE <<>>
  OBVIOUS
<1>7. (x = <<>> \/ x = <<p>>) /\ (y = <<>> \/ y = <<q>>) /\ (z = <<>> \/ z = <<v>>)
  BY <1>4, <1>5, <1>6
<1>8. x \in Seq(Parts) /\ y \in Seq(Parts) /\ z \in Seq(Parts)
  BY <1>7, UpToOne
<1>9. [i \in DOMAIN r.calls |-> ToolCall(r.calls[i], 0)] = z
  <2>1. CASE r.calls = <<>>
    <3>1. <<>> # <<c>>
      OBVIOUS
    <3>2. [i \in DOMAIN <<>> |-> ToolCall(<<>>[i], 0)] = <<>>
      OBVIOUS
    <3> QED
      BY <2>1, <3>1, <3>2, <1>6
  <2>2. CASE r.calls = <<c>>
    <3>1. DOMAIN <<c>> = 1..1 /\ <<c>>[1] = c
      OBVIOUS
    <3>2. [i \in DOMAIN <<c>> |-> ToolCall(<<c>>[i], 0)] = [i \in 1..1 |-> v]
      BY <3>1, <1>2
    <3>3. [i \in 1..1 |-> v] = <<v>>
      OBVIOUS
    <3> QED
      BY <2>2, <3>2, <3>3, <1>6
  <2> QED
    BY <2>1, <2>2
<1>10. P = (x \o y) \o z
  <2>1. P = ((x \o y) \o z) \o <<>>
    <3>1. "assistant" # "tool"
      OBVIOUS
    <3> QED
      BY <3>1, <1>0, <1>2, <1>4, <1>5, <1>9 DEF ContentToParts, If
  <2>2. (x \o y) \o z \in Seq(Parts)
    <3>1. PICK u \in Seq(Parts) : u = x \o y
      BY <1>8, ConcatProperties
    <3> QED
      BY <3>1, <1>8, ConcatProperties
  <2> QED
    BY <2>1, <2>2, ConcatEmptySeq
<1>11. /\ P \in Seq(Parts)
       /\ OfType(P, "text") = x
       /\ OfType(P, "reasoning") = y
       /\ OfType(P, "tool_call") = z
  <2>1. /\ (x \o y) \o z \in Seq(Parts)
        /\ OfType((x \o y) \o z, "text") = x
        /\ OfType((x \o y) \o z, "reasoning") = y
        /\ OfType((x \o y) \o z, "tool_call") = z
    BY <1>3, <1>7, ThreeTypes
  <2> QED
    BY <2>1, <1>10
<1>12. Texts(x) = r.content
  BY <1>1, <1>3, <1>4, TextsOne
<1>13. Texts(y) = r.reasoning
  BY <1>1, <1>3, <1>5, TextsOne
<1>14. Ids(z) = r.calls
  BY <1>3, <1>6, IdsOne
<1>15. PICK l \in Nat, m \in Nat, n \in Nat : l = Len(x) /\ m = Len(y) /\ n = Len(z)
  BY <1>8
<1>16. /\ Len(P) = (l + m) + n
       /\ \A i \in 1..l : P[i] = x[i]
       /\ \A i \in 1..m : P[l + i] = y[i]
       /\ \A i \in 1..n : P[(l + m) + i] = z[i]
  <2>1. PICK u : u = x \o y
    OBVIOUS
  <2>2. /\ u \in Seq(Parts) /\ Len(u) = l + m
        /\ \A i \in 1..l : u[i] = x[i]
        /\ \A i \in 1..m : u[l + i] = y[i]
    BY <2>1, <1>8, <1>15, ConcatAt
  <2>3. P = u \o z
    BY <2>1, <1>10
  <2>4. /\ Len(P) = (l + m) + n
        /\ \A i \in 1..(l + m) : P[i] = u[i]
        /\ \A i \in 1..n : P[(l + m) + i] = z[i]
    <3>1. /\ Len(P) = Len(u) + Len(z)
          /\ \A i \in 1..Len(u) : P[i] = u[i]
          /\ \A i \in 1..Len(z) : P[Len(u) + i] = z[i]
      <4>1. u \in Seq(Parts) /\ z \in Seq(Parts)
        BY <2>2, <1>8
      <4> QED
        BY <4>1, <2>3, ConcatAt
    <3> QED
      BY <3>1, <2>2, <1>15
  <2>5. \A i \in 1..l : i \in 1..(l + m)
    OBVIOUS
  <2>6. \A i \in 1..m : l + i \in 1..(l + m)
    OBVIOUS
  <2> QED
    BY <2>2, <2>4, <2>5, <2>6
<1>17. DOMAIN P = 1..((l + m) + n)
  BY <1>11, <1>16
<1>18. r.calls = <<>> => P \in Seq(Words)
  <2>1. SUFFICES ASSUME r.calls = <<>> PROVE P \in Seq(Words)
    OBVIOUS
  <2>2. z = <<>>
    BY <2>1, <1>6
  <2>3. x \in Seq(Words) /\ y \in Seq(Words) /\ z \in Seq(Words)
    <3>1. x \in Seq(Words)
      BY <1>3, <1>7, UpToOne
    <3>2. y \in Seq(Words)
      BY <1>3, <1>7, UpToOne
    <3>3. <<>> \in Seq(Words)
      OBVIOUS
    <3> QED
      BY <2>2, <3>1, <3>2, <3>3
  <2>4. PICK u \in Seq(Words) : u = x \o y
    BY <2>3, ConcatProperties
  <2> QED
    BY <2>3, <2>4, <1>10, ConcatProperties
<1>19. r.calls = <<c>> => /\ P \in Seq(Words \cup {v}) /\ \E k \in DOMAIN P : P[k] = v
  <2>1. SUFFICES ASSUME r.calls = <<c>>
                 PROVE  P \in Seq(Words \cup {v}) /\ \E k \in DOMAIN P : P[k] = v
    OBVIOUS
  <2>2. z = <<v>> /\ n = 1 /\ z[1] = v
    BY <2>1, <1>6, <1>15
  <2>3. PICK W : W = Words \cup {v}
    OBVIOUS
  <2>4. p \in W /\ q \in W /\ v \in W
    BY <2>3, <1>3
  <2>5. x \in Seq(W) /\ y \in Seq(W) /\ z \in Seq(W)
    <3>1. x \in Seq(W)
      BY <2>4, <1>7, UpToOne
    <3>2. y \in Seq(W)
      BY <2>4, <1>7, UpToOne
    <3>3. z \in Seq(W)
      BY <2>4, <1>7, UpToOne
    <3> QED
      BY <3>1, <3>2, <3>3
  <2>6. PICK u \in Seq(W) : u = x \o y
    BY <2>5, ConcatProperties
  <2>7. P \in Seq(W)
    BY <2>5, <2>6, <1>10, ConcatProperties
  <2>8. (l + m) + 1 \in DOMAIN P
    BY <2>2, <1>17
  <2>9. P[(l + m) + 1] = v
    BY <2>2, <1>16
  <2> QED
    BY <2>3, <2>7, <2>8, <2>9
<1>20. ASSUME r.content > 0 PROVE \E k \in DOMAIN P : PartSize(P[k]) > 0
  <2>1. x = <<p>> /\ l = 1 /\ x[1] = p
    BY <1>4, <1>15, <1>20
  <2>2. 1 \in DOMAIN P
    BY <2>1, <1>17
  <2>3. P[1] = p
    BY <2>1, <1>16
  <2>4. PartSize(p) = r.content
    BY <1>1, <1>2, PartSizes
  <2> QED
    BY <2>2, <2>3, <2>4, <1>20
<1>21. ASSUME r.reasoning > 0 PROVE \E k \in DOMAIN P : PartSize(P[k]) > 0
  <2>1. y = <<q>> /\ m = 1 /\ y[1] = q
    BY <1>5, <1>15, <1>21
  <2>2. l + 1 \in DOMAIN P
    BY <2>1, <1>17
  <2>3. P[l + 1] = q
    BY <2>1, <1>16
  <2>4. PartSize(q) = r.reasoning
    BY <1>1, <1>2, PartSizes
  <2> QED
    BY <2>2, <2>3, <2>4, <1>21
<1>22. P = <<>> <=> (r.content = 0 /\ r.reasoning = 0 /\ r.calls = <<>>)
  <2>1. P = <<>> <=> (l + m) + n = 0
    BY <1>11, <1>16
  <2>2. l = IF r.content > 0 THEN 1 ELSE 0
    BY <1>4, <1>15
  <2>3. m = IF r.reasoning > 0 THEN 1 ELSE 0
    BY <1>5, <1>15
  <2>4. n = IF r.calls = <<c>> THEN 1 ELSE 0
    BY <1>6, <1>15
  <2>5. <<c>> # <<>>
    OBVIOUS
  <2>6. r.calls = <<c>> <=> r.calls # <<>>
    BY <2>5
  <2> QED
    BY <2>1, <2>2, <2>3, <2>4, <2>6, <1>1
<1> QED
  BY <1>0, <1>2, <1>11, <1>12, <1>13, <1>14, <1>18, <1>19, <1>20, <1>21, <1>22 DEF GivesBack


\* A list of two elements.
LEMMA TwoSeq ==
  ASSUME NEW A, NEW x \in A, NEW y \in A
  PROVE  /\ <<x>> \o <<y>> = <<x, y>> /\ <<x, y>> \in Seq(A)
         /\ DOMAIN <<x, y>> = 1..2 /\ <<x, y>>[1] = x /\ <<x, y>>[2] = y
<1>1. <<x>> \in Seq(A) /\ Len(<<x>>) = 1 /\ <<x>>[1] = x
  BY OneSeq
<1>2. <<x>> \o <<y>> = Append(<<x>>, y)
  BY <1>1, AppendIsConcat
<1>3. Append(<<x>>, y) = <<x, y>>
  <2>1. PICK u : u = Append(<<x>>, y)
    OBVIOUS
  <2>2. u \in Seq(A) /\ Len(u) = 2 /\ u[1] = x /\ u[2] = y
    BY <1>1, <2>1, AppendProperties
  <2>3. u = <<x, y>>
    BY <2>2
  <2> QED
    BY <2>1, <2>3
<1>4. <<x, y>> \in Seq(A) /\ DOMAIN <<x, y>> = 1..2 /\ <<x, y>>[1] = x /\ <<x, y>>[2] = y
  OBVIOUS
<1> QED
  BY <1>2, <1>3, <1>4

\* The row of a tool's result gives its JSON as text and the result, and the
\* user's row the text.
LEMMA ResultLoaded ==
  ASSUME NEW r \in Rows, r.role = "tool", r.calls = <<>>, r.reasoning = 0, r.content > 0,
         NEW v, v = Result(r.result, r.output), NEW P, P = ContentToParts(r)
  PROVE  /\ P \in Seq(Words \cup {v})
         /\ \E k \in DOMAIN P : P[k] = v
         /\ \E k \in DOMAIN P : PartSize(P[k]) > 0
<1>1. r.content \in Nat /\ r.result \in Nat /\ r.output \in Nat
  BY DEF Rows
<1>2. PICK p \in Words : p = Text(r.content) /\ PartSize(p) = r.content
  BY <1>1, PartTypes, PartSizes
<1>3. PICK W : W = Words \cup {v}
  OBVIOUS
<1>4. p \in W /\ v \in W
  BY <1>3
<1>5. [i \in DOMAIN <<>> |-> ToolCall(<<>>[i], 0)] = <<>>
  OBVIOUS
<1>6. P = ((<<p>> \o <<>>) \o <<>>) \o <<v>>
  <2>1. ~(0 > 0)
    OBVIOUS
  <2> QED
    BY <2>1, <1>2, <1>5 DEF ContentToParts, If
<1>7. <<p>> \in Seq(W) /\ <<v>> \in Seq(W)
  BY <1>4, OneSeq
<1>8. <<p>> \o <<>> = <<p>>
  BY <1>7, ConcatEmptySeq
<1>9. P = <<p>> \o <<v>>
  BY <1>6, <1>8
<1>10. <<p>> \o <<v>> = <<p, v>>
  BY <1>4, TwoSeq
<1>11. <<p, v>> \in Seq(W) /\ DOMAIN <<p, v>> = 1..2 /\ <<p, v>>[1] = p /\ <<p, v>>[2] = v
  BY <1>4, TwoSeq
<1>12. 1 \in 1..2 /\ 2 \in 1..2
  OBVIOUS
<1>13. P \in Seq(W) /\ 1 \in DOMAIN P /\ 2 \in DOMAIN P /\ P[1] = p /\ P[2] = v
  BY <1>9, <1>10, <1>11, <1>12
<1>14. PartSize(p) > 0
  BY <1>2
<1> QED
  BY <1>3, <1>13, <1>14

\* The user's row is loaded as its text.
LEMMA UserLoaded ==
  ASSUME NEW n \in Nat, n > 0
  PROVE  /\ UserRow(n) \in Rows /\ UserRow(n).role = "user" /\ UserRow(n).calls = <<>>
         /\ ContentToParts(UserRow(n)) = <<Text(n)>>
         /\ <<Text(n)>> \in Seq(Words) /\ <<Text(n)>> \in Seq(Parts)
<1>1. PICK r : r = UserRow(n)
  OBVIOUS
<1>2. /\ r \in Rows /\ r.role = "user" /\ r.calls = <<>>
      /\ r.content = n /\ r.reasoning = 0
  BY <1>1 DEF UserRow, Stored, Rows
<1>3. PICK p \in Words : p = Text(n) /\ p \in Parts
  BY PartTypes, MakersSound
<1>4. [i \in DOMAIN <<>> |-> ToolCall(<<>>[i], 0)] = <<>>
  OBVIOUS
<1>5. ContentToParts(r) = ((<<p>> \o <<>>) \o <<>>) \o <<>>
  <2>1. ~(0 > 0) /\ "user" # "tool"
    OBVIOUS
  <2> QED
    BY <2>1, <1>2, <1>3, <1>4 DEF ContentToParts, If
<1>6. <<p>> \in Seq(Words) /\ <<p>> \in Seq(Parts)
  BY <1>3, OneSeq
<1>7. <<p>> \o <<>> = <<p>>
  BY <1>6, ConcatEmptySeq
<1> QED
  BY <1>1, <1>2, <1>3, <1>5, <1>6, <1>7

-----------------------------------------------------------------------------
(* Transcript: calls and their results                                     *)

HasCall(m, c)   == \E k \in DOMAIN m.parts : m.parts[k].type = "tool_call" /\ m.parts[k].id = c
HasResult(m, c) == \E k \in DOMAIN m.parts : m.parts[k].type = "tool_result" /\ m.parts[k].id = c

\* m neither calls a tool nor holds a result; it calls c; it holds c's result.
Mum(m)        == \A d \in Nat : ~HasCall(m, d) /\ ~HasResult(m, d)
Asks(m, c)    == \A d \in Nat : (HasCall(m, d) <=> d = c) /\ ~HasResult(m, d)
Answers(m, c) == \A d \in Nat : ~HasCall(m, d) /\ (HasResult(m, d) <=> d = c)

\* Every result follows its call unless that is in X, and every call has a
\* result after it.
Paired(s, X) ==
    /\ \A i \in DOMAIN s, c \in Nat :
         HasResult(s[i], c) => c \in X \/ \E j \in 1..(i - 1) : HasCall(s[j], c)
    /\ \A i \in DOMAIN s, c \in Nat :
         HasCall(s[i], c) => \E j \in DOMAIN s : j > i /\ HasResult(s[j], c)

\* What a message's parts make it.
LEMMA MessageKinds ==
  ASSUME NEW m, NEW c \in Nat, NEW n \in Nat
  PROVE  /\ m.parts \in Seq(Words) => Mum(m)
         /\ (/\ m.parts \in Seq(Words \cup {ToolCall(c, n)})
             /\ \E k \in DOMAIN m.parts : m.parts[k] = ToolCall(c, n)) => Asks(m, c)
         /\ (/\ m.parts \in Seq(Words \cup {Result(c, n)})
             /\ \E k \in DOMAIN m.parts : m.parts[k] = Result(c, n)) => Answers(m, c)
<1>1. PICK s : s = m.parts
  OBVIOUS
<1>2. ASSUME NEW p \in Words, NEW d \in Nat
      PROVE  p.type # "tool_call" /\ p.type # "tool_result"
  <2>1. p.type \in {"text", "reasoning"}
    BY DEF Words, Parts
  <2> QED
    BY <2>1
<1>3. ASSUME s \in Seq(Words) PROVE Mum(m)
  <2>1. \A k \in DOMAIN s : s[k] \in Words
    BY <1>3
  <2> QED
    BY <2>1, <1>1, <1>2 DEF Mum, HasCall, HasResult
<1>4. ASSUME s \in Seq(Words \cup {ToolCall(c, n)}), NEW k \in DOMAIN s, s[k] = ToolCall(c, n)
      PROVE  Asks(m, c)
  <2>1. \A i \in DOMAIN s : s[i] \in Words \/ s[i] = ToolCall(c, n)
    BY <1>4
  <2>2. PICK v : v = ToolCall(c, n)
    OBVIOUS
  <2>3. v.type = "tool_call" /\ v.id = c
    BY <2>2, PartTypes
  <2>5. ASSUME NEW d \in Nat PROVE HasCall(m, d) <=> d = c
    <3>1. HasCall(m, c)
      BY <1>1, <1>4, <2>2, <2>3 DEF HasCall
    <3>2. ASSUME HasCall(m, d) PROVE d = c
      <4>1. PICK i \in DOMAIN s : s[i].type = "tool_call" /\ s[i].id = d
        BY <3>2, <1>1 DEF HasCall
      <4>2. s[i] = v
        BY <4>1, <2>1, <2>2, <1>2
      <4> QED
        BY <4>1, <4>2, <2>3
    <3> QED
      BY <3>1, <3>2
  <2>6. ASSUME NEW d \in Nat PROVE ~HasResult(m, d)
    <3>1. \A i \in DOMAIN s : s[i].type # "tool_result"
      BY <2>1, <2>2, <2>3, <1>2
    <3> QED
      BY <3>1, <1>1 DEF HasResult
  <2> QED
    BY <2>5, <2>6 DEF Asks
<1>5. ASSUME s \in Seq(Words \cup {Result(c, n)}), NEW k \in DOMAIN s, s[k] = Result(c, n)
      PROVE  Answers(m, c)
  <2>1. \A i \in DOMAIN s : s[i] \in Words \/ s[i] = Result(c, n)
    BY <1>5
  <2>2. PICK v : v = Result(c, n)
    OBVIOUS
  <2>3. v.type = "tool_result" /\ v.id = c
    BY <2>2, PartTypes
  <2>4. ASSUME NEW d \in Nat PROVE HasResult(m, d) <=> d = c
    <3>1. HasResult(m, c)
      BY <1>1, <1>5, <2>2, <2>3 DEF HasResult
    <3>2. ASSUME HasResult(m, d) PROVE d = c
      <4>1. PICK i \in DOMAIN s : s[i].type = "tool_result" /\ s[i].id = d
        BY <3>2, <1>1 DEF HasResult
      <4>2. s[i] = v
        BY <4>1, <2>1, <2>2, <1>2
      <4> QED
        BY <4>1, <4>2, <2>3
    <3> QED
      BY <3>1, <3>2
  <2>5. ASSUME NEW d \in Nat PROVE ~HasCall(m, d)
    <3>1. \A i \in DOMAIN s : s[i].type # "tool_call"
      BY <2>1, <2>2, <2>3, <1>2
    <3> QED
      BY <3>1, <1>1 DEF HasCall
  <2> QED
    BY <2>4, <2>5 DEF Answers
<1> QED
  BY <1>1, <1>3, <1>4, <1>5

\* Lists whose calls and results are paired, and what follows of them.
LEMMA MumPaired ==
  ASSUME NEW m, Mum(m), NEW X
  PROVE  Paired(<<>>, X) /\ Paired(<<m>>, X)
<1>1. DOMAIN <<>> = {} /\ DOMAIN <<m>> = 1..1 /\ <<m>>[1] = m
  OBVIOUS
<1>2. \A i \in 1..1 : i = 1
  OBVIOUS
<1> QED
  BY <1>1, <1>2 DEF Paired, Mum

\* A result alone is, if its call is excused.
LEMMA AnswerPaired ==
  ASSUME NEW w, NEW c \in Nat, Answers(w, c), NEW X, c \in X
  PROVE  Paired(<<w>>, X)
<1>1. DOMAIN <<w>> = 1..1 /\ <<w>>[1] = w
  OBVIOUS
<1>2. \A i \in 1..1 : i = 1
  OBVIOUS
<1> QED
  BY <1>1, <1>2 DEF Paired, Answers

\* A call and its result are paired.
LEMMA AskedPaired ==
  ASSUME NEW m, NEW w, NEW c \in Nat, Asks(m, c), Answers(w, c), NEW X
  PROVE  Paired(<<m, w>>, X)
<1>1. PICK s : s = <<m, w>>
  OBVIOUS
<1>2. DOMAIN s = 1..2 /\ s[1] = m /\ s[2] = w
  BY <1>1
<1>3. \A i \in DOMAIN s : i = 1 \/ i = 2
  BY <1>2
<1>4. 1 \in 1..(2 - 1) /\ 1 \in DOMAIN s /\ 2 \in DOMAIN s
  BY <1>2
<1>5. ASSUME NEW i \in DOMAIN s, NEW d \in Nat, HasResult(s[i], d)
      PROVE  \E j \in 1..(i - 1) : HasCall(s[j], d)
  <2>1. i = 2 /\ d = c
    BY <1>2, <1>3, <1>5 DEF Asks, Answers
  <2>2. HasCall(s[1], d)
    BY <2>1, <1>2 DEF Asks
  <2> QED
    BY <2>1, <2>2, <1>4
<1>6. ASSUME NEW i \in DOMAIN s, NEW d \in Nat, HasCall(s[i], d)
      PROVE  \E j \in DOMAIN s : j > i /\ HasResult(s[j], d)
  <2>1. i = 1 /\ d = c
    BY <1>2, <1>3, <1>6 DEF Asks, Answers
  <2>2. HasResult(s[2], d)
    BY <2>1, <1>2 DEF Answers
  <2>3. 2 > i
    BY <2>1
  <2> QED
    BY <2>2, <2>3, <1>4
<1> QED
  BY <1>1, <1>5, <1>6 DEF Paired

\* A paired list after a paired one is paired.
LEMMA PairedConcat ==
  ASSUME NEW A, NEW s \in Seq(A), NEW t \in Seq(A), NEW X, Paired(s, X), Paired(t, X)
  PROVE  Paired(s \o t, X)
<1>1. PICK u : u = s \o t
  OBVIOUS
<1>2. /\ u \in Seq(A)
      /\ Len(s) \in Nat /\ Len(t) \in Nat /\ Len(u) = Len(s) + Len(t)
      /\ \A i \in 1..Len(s) : u[i] = s[i]
      /\ \A i \in 1..Len(t) : u[Len(s) + i] = t[i]
  BY <1>1, ConcatAt
<1>3. DOMAIN u = 1..(Len(s) + Len(t)) /\ DOMAIN s = 1..Len(s) /\ DOMAIN t = 1..Len(t)
  BY <1>2
<1>4. PICK l \in Nat, k \in Nat : l = Len(s) /\ k = Len(t)
  BY <1>2
<1>5. /\ DOMAIN u = 1..(l + k) /\ DOMAIN s = 1..l /\ DOMAIN t = 1..k
      /\ \A i \in 1..l : u[i] = s[i]
      /\ \A i \in 1..k : u[l + i] = t[i]
  BY <1>2, <1>3, <1>4
<1>6. ASSUME NEW i \in 1..(l + k)
      PROVE  i \in 1..l \/ \E j \in 1..k : i = l + j
  <2>1. i \in 1..l \/ (i - l \in 1..k /\ i = l + (i - l))
    OBVIOUS
  <2> QED
    BY <2>1
<1>7. ASSUME NEW i \in 1..(l + k), NEW c \in Nat, HasResult(u[i], c), c \notin X
      PROVE  \E j \in 1..(i - 1) : HasCall(u[j], c)
  <2>1. CASE i \in 1..l
    <3>1. PICK j \in 1..(i - 1) : HasCall(s[j], c)
      BY <2>1, <1>5, <1>7 DEF Paired
    <3>2. j \in 1..l
      BY <2>1
    <3> QED
      BY <3>1, <3>2, <1>5
  <2>2. CASE \E j \in 1..k : i = l + j
    <3>1. PICK j \in 1..k : i = l + j
      BY <2>2
    <3>2. PICK h \in 1..(j - 1) : HasCall(t[h], c)
      BY <3>1, <1>5, <1>7 DEF Paired
    <3>3. h \in 1..k /\ l + h \in 1..(i - 1)
      BY <3>1
    <3> QED
      BY <3>2, <3>3, <1>5
  <2> QED
    BY <2>1, <2>2, <1>6
<1>8. ASSUME NEW i \in 1..(l + k), NEW c \in Nat, HasCall(u[i], c)
      PROVE  \E j \in 1..(l + k) : j > i /\ HasResult(u[j], c)
  <2>1. CASE i \in 1..l
    <3>1. PICK j \in 1..l : j > i /\ HasResult(s[j], c)
      BY <2>1, <1>5, <1>8 DEF Paired
    <3>2. j \in 1..(l + k)
      OBVIOUS
    <3> QED
      BY <3>1, <3>2, <1>5
  <2>2. CASE \E j \in 1..k : i = l + j
    <3>1. PICK j \in 1..k : i = l + j
      BY <2>2
    <3>2. PICK h \in 1..k : h > j /\ HasResult(t[h], c)
      BY <3>1, <1>5, <1>8 DEF Paired
    <3>3. l + h \in 1..(l + k) /\ l + h > i
      BY <3>1, <3>2
    <3> QED
      BY <3>2, <3>3, <1>5
  <2> QED
    BY <2>1, <2>2, <1>6
<1> QED
  BY <1>1, <1>5, <1>7, <1>8 DEF Paired

\* More may be excused.
LEMMA PairedMore ==
  ASSUME NEW s, NEW X, NEW Y, X \subseteq Y, Paired(s, X)
  PROVE  Paired(s, Y)
  BY DEF Paired

\* With every call excused, what follows something that is paired is paired.
LEMMA PairedRest ==
  ASSUME NEW A, NEW s \in Seq(A), NEW t \in Seq(A), Paired(s \o t, Nat)
  PROVE  Paired(t, Nat)
<1>1. PICK u : u = s \o t
  OBVIOUS
<1>2. /\ u \in Seq(A)
      /\ Len(s) \in Nat /\ Len(t) \in Nat /\ Len(u) = Len(s) + Len(t)
      /\ \A i \in 1..Len(t) : u[Len(s) + i] = t[i]
  BY <1>1, ConcatAt
<1>3. PICK l \in Nat, k \in Nat : l = Len(s) /\ k = Len(t)
  BY <1>2
<1>4. /\ DOMAIN u = 1..(l + k) /\ DOMAIN t = 1..k
      /\ \A i \in 1..k : u[l + i] = t[i]
  BY <1>2, <1>3
<1>5. Paired(u, Nat)
  BY <1>1
<1>6. ASSUME NEW i \in 1..k, NEW c \in Nat, HasCall(t[i], c)
      PROVE  \E j \in 1..k : j > i /\ HasResult(t[j], c)
  <2>1. l + i \in 1..(l + k)
    OBVIOUS
  <2>2. HasCall(u[l + i], c)
    BY <1>4, <1>6
  <2>3. PICK h \in 1..(l + k) : h > l + i /\ HasResult(u[h], c)
    BY <2>1, <2>2, <1>4, <1>5 DEF Paired
  <2>4. PICK j \in 1..k : h = l + j
    <3>1. h - l \in 1..k /\ h = l + (h - l)
      BY <2>3
    <3> QED
      BY <3>1
  <2>5. j > i
    BY <2>3, <2>4
  <2>6. u[h] = t[j]
    BY <2>4, <1>4
  <2> QED
    BY <2>3, <2>5, <2>6
<1>7. \A c \in Nat : c \in Nat
  OBVIOUS
<1> QED
  BY <1>4, <1>6, <1>7 DEF Paired

\* Paired is what the property asks of a prompt.
LEMMA PairedMeans ==
  ASSUME NEW s \in Seq(Messages), calls \in Nat, NEW X, Paired(s, X)
  PROVE  CallsAnswered(s) /\ ResultsCalled(s, X)
<1>1. CallsIn(s) = {r \in (DOMAIN s) \X (1..calls) : HasCall(s[r[1]], r[2])}
  BY DEF CallsIn, Holds, HasCall
<1>2. ResultsIn(s) = {r \in (DOMAIN s) \X (1..calls) : HasResult(s[r[1]], r[2])}
  BY DEF ResultsIn, Holds, HasResult
<1>3. \A c \in 1..calls : c \in Nat
  OBVIOUS
<1>4. DOMAIN s = 1..Len(s) /\ Len(s) \in Nat
  OBVIOUS
<1>5. ASSUME NEW q \in CallsIn(s) PROVE \E r \in ResultsIn(s) : r[2] = q[2] /\ r[1] > q[1]
  <2>1. q[1] \in DOMAIN s /\ q[2] \in 1..calls /\ HasCall(s[q[1]], q[2])
    BY <1>1, <1>5
  <2>2. PICK i \in DOMAIN s, c \in 1..calls : i = q[1] /\ c = q[2] /\ HasCall(s[i], c)
    BY <2>1
  <2>3. PICK j \in DOMAIN s : j > i /\ HasResult(s[j], c)
    BY <2>2, <1>3 DEF Paired
  <2>4. PICK r : r = <<j, c>>
    OBVIOUS
  <2>5. r \in ResultsIn(s) /\ r[2] = c /\ r[1] = j
    BY <2>2, <2>3, <2>4, <1>2
  <2> QED
    BY <2>2, <2>3, <2>5
<1>6. ASSUME NEW r \in ResultsIn(s), r[2] \notin X
      PROVE  \E q \in CallsIn(s) : q[2] = r[2] /\ q[1] < r[1]
  <2>1. r[1] \in DOMAIN s /\ r[2] \in 1..calls /\ HasResult(s[r[1]], r[2])
    BY <1>2, <1>6
  <2>2. PICK i \in DOMAIN s, c \in 1..calls :
          i = r[1] /\ c = r[2] /\ HasResult(s[i], c) /\ c \notin X
    BY <2>1, <1>6
  <2>3. PICK j \in 1..(i - 1) : HasCall(s[j], c)
    BY <2>2, <1>3 DEF Paired
  <2>4. j \in DOMAIN s /\ j < i
    BY <1>4, <2>2
  <2>5. PICK q : q = <<j, c>>
    OBVIOUS
  <2>6. q \in CallsIn(s) /\ q[2] = c /\ q[1] = j
    BY <2>2, <2>3, <2>4, <2>5, <1>1
  <2> QED
    BY <2>2, <2>4, <2>6
<1> QED
  BY <1>5, <1>6 DEF CallsAnswered, ResultsCalled


-----------------------------------------------------------------------------
(* Transcript: what a turn stores                                          *)

\* What a loaded message tells of a response, list by list.
Tells(a, ls) ==
    /\ Len(a) = Len(ls)
    /\ \A i \in DOMAIN a :
         /\ Texts(OfType(a[i].parts, "text")) = ls[i].said
         /\ Texts(OfType(a[i].parts, "reasoning")) = ls[i].thought
         /\ Ids(OfType(a[i].parts, "tool_call")) = Remembered(ls[i])
Gots(ls) == FlattenSeq([i \in DOMAIN ls |-> ls[i].got])
Seen(s)  == [i \in DOMAIN s |-> <<Last(s[i].parts).id, Last(s[i].parts).output>>]

\* h, loaded from the table, tells what ls records.
Tale(h, ls) ==
    /\ Tells(OfRole(h, "assistant"), Spoken(ls))
    /\ Gots(ls) = Seen(OfRole(h, "tool"))

\* Tells, Gots and Seen of one list after the other.
LEMMA TellsConcat ==
  ASSUME NEW a \in Seq(Messages), NEW b \in Seq(Messages), NEW ks \in Seq(Lives), NEW ls \in Seq(Lives),
         Tells(a, ks), Tells(b, ls)
  PROVE  Tells(a \o b, ks \o ls)
<1>1. PICK u, v : u = a \o b /\ v = ks \o ls
  OBVIOUS
<1>2. /\ u \in Seq(Messages)
      /\ Len(a) \in Nat /\ Len(b) \in Nat /\ Len(u) = Len(a) + Len(b)
      /\ \A i \in 1..Len(a) : u[i] = a[i]
      /\ \A i \in 1..Len(b) : u[Len(a) + i] = b[i]
  BY <1>1, ConcatAt
<1>3. /\ v \in Seq(Lives)
      /\ Len(v) = Len(ks) + Len(ls)
      /\ \A i \in 1..Len(ks) : v[i] = ks[i]
      /\ \A i \in 1..Len(ls) : v[Len(ks) + i] = ls[i]
  BY <1>1, ConcatAt
<1>4. Len(a) = Len(ks) /\ Len(b) = Len(ls) /\ DOMAIN a = 1..Len(a) /\ DOMAIN b = 1..Len(b)
  BY DEF Tells
<1>5. PICK k \in Nat, n \in Nat : k = Len(a) /\ n = Len(b)
  BY <1>2
<1>6. /\ Len(u) = k + n /\ Len(v) = k + n /\ DOMAIN u = 1..(k + n)
      /\ \A i \in 1..k : u[i] = a[i] /\ v[i] = ks[i]
      /\ \A i \in 1..n : u[k + i] = b[i] /\ v[k + i] = ls[i]
  BY <1>2, <1>3, <1>4, <1>5
<1>7. ASSUME NEW i \in 1..(k + n)
      PROVE  /\ Texts(OfType(u[i].parts, "text")) = v[i].said
             /\ Texts(OfType(u[i].parts, "reasoning")) = v[i].thought
             /\ Ids(OfType(u[i].parts, "tool_call")) = Remembered(v[i])
  <2>1. CASE i \in 1..k
    BY <2>1, <1>4, <1>5, <1>6 DEF Tells
  <2>2. CASE i \notin 1..k
    <3>1. PICK j \in 1..n : i = k + j
      <4>1. i - k \in 1..n /\ i = k + (i - k)
        BY <2>2
      <4> QED
        BY <4>1
    <3>2. u[i] = b[j] /\ v[i] = ls[j]
      BY <3>1, <1>6
    <3>3. j \in DOMAIN b
      BY <1>4, <1>5
    <3>4. /\ Texts(OfType(b[j].parts, "text")) = ls[j].said
          /\ Texts(OfType(b[j].parts, "reasoning")) = ls[j].thought
          /\ Ids(OfType(b[j].parts, "tool_call")) = Remembered(ls[j])
      BY <3>3 DEF Tells
    <3> QED
      BY <3>2, <3>4
  <2> QED
    BY <2>1, <2>2
<1> QED
  BY <1>1, <1>6, <1>7 DEF Tells

\* Gots of one list after the other.
LEMMA GotsConcat ==
  ASSUME NEW ks \in Seq(Lives), NEW ls \in Seq(Lives)
  PROVE  Gots(ks \o ls) = Gots(ks) \o Gots(ls)
<1>1. PICK g : g = [l \in Lives |-> l.got]
  OBVIOUS
<1>2. \A l \in Lives : g[l] \in Seq(Nat \X Nat)
  BY <1>1 DEF Lives
<1>3. ASSUME NEW s \in Seq(Lives) PROVE Gots(s) = FlattenSeq(Map(g, s))
  <2>1. \A i \in DOMAIN s : s[i].got = g[s[i]]
    BY <1>1
  <2>2. [i \in DOMAIN s |-> s[i].got] = Map(g, s)
    BY <2>1 DEF Map
  <2> QED
    BY <2>2 DEF Gots
<1>4. PICK u \in Seq(Seq(Nat \X Nat)), v \in Seq(Seq(Nat \X Nat)) : u = Map(g, ks) /\ v = Map(g, ls)
  BY <1>2, MapSound
<1>5. Map(g, ks \o ls) = u \o v
  <2>1. Map(g, ks \o ls) = Map(g, ks) \o Map(g, ls)
    BY MapConcat
  <2> QED
    BY <2>1, <1>4
<1>6. FlattenSeq(u \o v) = FlattenSeq(u) \o FlattenSeq(v)
  BY FlattenConcat
<1>7. ks \o ls \in Seq(Lives)
  BY ConcatProperties
<1> QED
  BY <1>3, <1>4, <1>5, <1>6, <1>7

\* Gots of no record, and of one.
LEMMA GotsOne ==
  ASSUME NEW l \in Lives
  PROVE  Gots(<<>>) = <<>> /\ Gots(<<l>>) = l.got
<1>1. PICK y \in Seq(Nat \X Nat) : y = l.got
  BY DEF Lives
<1>2. DOMAIN <<l>> = 1..1 /\ <<l>>[1] = l
  OBVIOUS
<1>3. [i \in DOMAIN <<l>> |-> <<l>>[i].got] = [i \in 1..1 |-> y]
  BY <1>1, <1>2
<1>4. [i \in 1..1 |-> y] = <<y>> /\ [i \in DOMAIN <<>> |-> <<>>[i].got] = <<>>
  OBVIOUS
<1>5. <<y>> = Append(<<>>, y) /\ <<>> \in Seq(Seq(Nat \X Nat)) /\ <<>> \o y = y
  OBVIOUS
<1>6. FlattenSeq(Append(<<>>, y)) = y
  BY <1>5, FlattenAppend, FlattenEmpty
<1> QED
  BY <1>1, <1>3, <1>4, <1>5, <1>6, FlattenEmpty DEF Gots

\* Seen of one list after the other.
LEMMA SeenConcat ==
  ASSUME NEW a \in Seq(Messages), NEW b \in Seq(Messages)
  PROVE  Seen(a \o b) = Seen(a) \o Seen(b)
<1>1. PICK g : g = [m \in Messages |-> <<Last(m.parts).id, Last(m.parts).output>>]
  OBVIOUS
<1>2. ASSUME NEW s \in Seq(Messages) PROVE Seen(s) = Map(g, s)
  <2>1. \A i \in DOMAIN s : <<Last(s[i].parts).id, Last(s[i].parts).output>> = g[s[i]]
    BY <1>1
  <2> QED
    BY <2>1 DEF Map, Seen
<1>3. Map(g, a \o b) = Map(g, a) \o Map(g, b)
  BY MapConcat
<1>4. a \o b \in Seq(Messages)
  BY ConcatProperties
<1> QED
  BY <1>2, <1>3, <1>4

\* Seen of no message, and of one.
LEMMA SeenOne ==
  ASSUME NEW m
  PROVE  Seen(<<>>) = <<>> /\ Seen(<<m>>) = <<<<Last(m.parts).id, Last(m.parts).output>>>>
<1>1. PICK y : y = <<Last(m.parts).id, Last(m.parts).output>>
  OBVIOUS
<1>2. DOMAIN <<m>> = 1..1 /\ <<m>>[1] = m
  OBVIOUS
<1>3. Seen(<<m>>) = [i \in 1..1 |-> y]
  BY <1>1, <1>2 DEF Seen
<1>4. [i \in 1..1 |-> y] = <<y>>
  OBVIOUS
<1> QED
  BY <1>1, <1>3, <1>4 DEF Seen

\* A tale of one list after the other.
LEMMA TaleConcat ==
  ASSUME NEW g \in Seq(Messages), NEW h \in Seq(Messages), NEW ks \in Seq(Lives), NEW ls \in Seq(Lives),
         Tale(g, ks), Tale(h, ls)
  PROVE  Tale(g \o h, ks \o ls)
<1>0. \A r : OfRole(g \o h, r) = OfRole(g, r) \o OfRole(h, r)
  BY OfRoleConcat
<1>1. PICK a \in Seq(Messages), b \in Seq(Messages) :
        a = OfRole(g, "assistant") /\ b = OfRole(h, "assistant")
  BY OfRoleType
<1>2. PICK c \in Seq(Messages), d \in Seq(Messages) :
        c = OfRole(g, "tool") /\ d = OfRole(h, "tool")
  BY OfRoleType
<1>3. PICK k \in Seq(Lives), l \in Seq(Lives) : k = Spoken(ks) /\ l = Spoken(ls)
  BY SpokenType
<1>4. OfRole(g \o h, "assistant") = a \o b
  BY <1>0, <1>1
<1>5. OfRole(g \o h, "tool") = c \o d
  BY <1>0, <1>2
<1>6. Spoken(ks \o ls) = k \o l
  BY <1>3, SpokenConcat
<1>7. Tells(a, k) /\ Tells(b, l) /\ Gots(ks) = Seen(c) /\ Gots(ls) = Seen(d)
  BY <1>1, <1>2, <1>3 DEF Tale
<1>8. Tells(a \o b, k \o l)
  BY <1>7, TellsConcat
<1>9. Gots(ks \o ls) = Gots(ks) \o Gots(ls)
  BY GotsConcat
<1>10. Seen(c \o d) = Seen(c) \o Seen(d)
  BY SeenConcat
<1> QED
  BY <1>4, <1>5, <1>6, <1>7, <1>8, <1>9, <1>10 DEF Tale


\* ra is the row of a response, l its record; rt is the row of c's result.
Records(ra, l) ==
    /\ ra \in Rows /\ l \in Lives
    /\ ra.role = "assistant"
    /\ ra.content = l.said /\ ra.reasoning = l.thought /\ ra.calls = Remembered(l)
Recounts(rt, c, m) ==
    /\ rt \in Rows
    /\ rt.role = "tool" /\ rt.content > 0 /\ rt.reasoning = 0 /\ rt.calls = <<>>
    /\ rt.result = c /\ rt.output = m

\* The row persistTurn makes of a response, and its record.
RowOf(a, ids) == Stored("assistant", Texts(OfType(a, "text")),
                          Texts(OfType(a, "reasoning")), ids, 0, 0)
LifeOf(a, ids, v, got) == [said |-> Texts(OfType(a, "text")),
                           thought |-> Texts(OfType(a, "reasoning")),
                           called |-> ids, valid |-> v, got |-> got]

\* The record says what the row holds.
LEMMA ResponseRow ==
  ASSUME NEW a \in Seq(Parts), NEW ids \in Seq(Nat), NEW v \in BOOLEAN,
         NEW got \in Seq(Nat \X Nat), NEW kept \in Seq(Nat), kept = If(v, ids)
  PROVE  /\ Records(RowOf(a, kept), LifeOf(a, ids, v, got))
         /\ RowOf(a, kept).calls = kept
         /\ LifeOf(a, ids, v, got).got = got /\ LifeOf(a, ids, v, got).called = ids
         /\ LifeOf(a, ids, v, got).valid = v
<1>1. PICK x \in Seq(Parts), y \in Seq(Parts) : x = OfType(a, "text") /\ y = OfType(a, "reasoning")
  BY OfTypeType
<1>2. PICK n \in Nat, k \in Nat : n = Texts(x) /\ k = Texts(y)
  BY TextsType
<1>3. PICK ra, l : ra = RowOf(a, kept) /\ l = LifeOf(a, ids, v, got)
  OBVIOUS
<1>4. ra = Stored("assistant", n, k, kept, 0, 0)
  BY <1>1, <1>2, <1>3 DEF RowOf
<1>5. l = [said |-> n, thought |-> k, called |-> ids, valid |-> v, got |-> got]
  BY <1>1, <1>2, <1>3 DEF LifeOf
<1>6. /\ ra \in Rows /\ ra.role = "assistant" /\ ra.content = n /\ ra.reasoning = k
      /\ ra.calls = kept
  BY <1>4 DEF Stored, Rows
<1>7. l \in Lives /\ l.said = n /\ l.thought = k /\ l.called = ids /\ l.got = got
  BY <1>5 DEF Lives
<1>8. l.valid = v
  BY <1>5
<1>9. Remembered(l) = kept
  BY <1>7, <1>8 DEF Remembered
<1>10. Records(ra, l)
  BY <1>6, <1>7, <1>9 DEF Records
<1> QED
  BY <1>3, <1>6, <1>7, <1>8, <1>10

\* The row of a tool's result.
LEMMA ResultRow ==
  ASSUME NEW c \in Nat, NEW m \in Nat, Wrap \in Nat, Wrap > 0
  PROVE  Recounts(Stored("tool", m + Wrap, 0, <<>>, c, m), c, m)
  BY DEF Recounts, Stored, Rows

\* What persistTurn stores of a response without a call.
LEMMA SaidShape ==
  ASSUME NEW a \in Seq(Parts), OfType(a, "tool_call") = <<>>
  PROVE  \E ra \in Rows, l \in Lives :
            /\ Records(ra, l) /\ ra.calls = <<>> /\ l.got = <<>>
            /\ PersistTurn(a, <<>>, TRUE) = <<ra>> /\ Lived(a, <<>>, TRUE) = <<l>>
<1>1. Ids(OfType(a, "tool_call")) = <<>> /\ StoredCalls(a, TRUE) = <<>>
  <2>1. PICK p : p \in Parts
    BY MakersSound
  <2>2. Ids(OfType(a, "tool_call")) = <<>>
    BY <2>1, IdsOne
  <2> QED
    BY <2>2 DEF StoredCalls, If
<1>2. <<>> \in Seq(Nat) /\ <<>> \in Seq(Nat \X Nat) /\ TRUE \in BOOLEAN
  OBVIOUS
<1>3. PICK ra : ra = RowOf(a, <<>>)
  OBVIOUS
<1>4. PICK l : l = LifeOf(a, <<>>, TRUE, <<>>)
  OBVIOUS
<1>5. Records(ra, l) /\ ra.calls = <<>> /\ l.got = <<>>
  <2>1. PICK ids \in Seq(Nat), got \in Seq(Nat \X Nat), v \in BOOLEAN :
          ids = <<>> /\ got = <<>> /\ v = TRUE
    BY <1>2
  <2>2. ids = If(v, ids)
    BY <2>1 DEF If
  <2>3. /\ Records(RowOf(a, ids), LifeOf(a, ids, v, got))
        /\ RowOf(a, ids).calls = ids /\ LifeOf(a, ids, v, got).got = got
    BY <2>2, ResponseRow
  <2> QED
    BY <2>1, <2>3, <1>3, <1>4
<1>6. ra \in Rows /\ l \in Lives
  BY <1>5 DEF Records
<1>7. Lived(a, <<>>, TRUE) = <<l>>
  <2>1. [i \in DOMAIN <<>> |-> <<<<>>[i].id, <<>>[i].output>>] = <<>>
    OBVIOUS
  <2> QED
    BY <2>1, <1>1, <1>4 DEF Lived, LifeOf
<1>8. PersistTurn(a, <<>>, TRUE) = <<ra>>
  <2>1. [i \in DOMAIN <<>> |->
          Stored("tool", <<>>[i].output + Wrap, 0, <<>>, <<>>[i].id, <<>>[i].output)] = <<>>
    OBVIOUS
  <2>2. PersistTurn(a, <<>>, TRUE) = <<ra>> \o <<>>
    BY <2>1, <1>1, <1>3 DEF PersistTurn, RowOf
  <2>3. <<ra>> \in Seq(Rows)
    BY <1>6, OneSeq
  <2> QED
    BY <2>2, <2>3, ConcatEmptySeq
<1> QED
  BY <1>5, <1>6, <1>7, <1>8

\* The rows of a response that called c, whose result was m, and its record; v
\* says whether the call's input was JSON.
CallStored(a, c, m, v) ==
    \E ra \in Rows, l \in Lives, rt \in Rows :
        /\ Records(ra, l) /\ ra.calls = If(v, <<c>>)
        /\ l.got = <<<<c, m>>>> /\ l.called = <<c>> /\ l.valid = v
        /\ Recounts(rt, c, m)
        /\ PersistTurn(a, <<Result(c, m)>>, v) = <<ra, rt>>
        /\ Lived(a, <<Result(c, m)>>, v) = <<l>>

\* What persistTurn stores of a response with a call and its result.
LEMMA CalledShape ==
  ASSUME Wrap \in Nat, Wrap > 0, NEW c \in Nat, NEW n \in Nat, NEW m \in Nat, NEW v \in BOOLEAN,
         NEW a \in Seq(Parts), OfType(a, "tool_call") = <<ToolCall(c, n)>>
  PROVE  CallStored(a, c, m, v)
<1>1. Ids(OfType(a, "tool_call")) = <<c>> /\ StoredCalls(a, v) = If(v, <<c>>)
  <2>1. Ids(OfType(a, "tool_call")) = <<c>>
    BY IdsOne, PartTypes
  <2> QED
    BY <2>1 DEF StoredCalls
<1>2. <<c>> \in Seq(Nat) /\ <<<<c, m>>>> \in Seq(Nat \X Nat)
  OBVIOUS
<1>3. PICK w : w = Result(c, m) /\ w.id = c /\ w.output = m
  BY PartTypes
<1>4. PICK ra : ra = RowOf(a, If(v, <<c>>))
  OBVIOUS
<1>5. PICK l : l = LifeOf(a, <<c>>, v, <<<<c, m>>>>)
  OBVIOUS
<1>6. PICK rt : rt = Stored("tool", m + Wrap, 0, <<>>, c, m)
  OBVIOUS
<1>7. /\ Records(ra, l) /\ ra.calls = If(v, <<c>>)
      /\ l.got = <<<<c, m>>>> /\ l.called = <<c>> /\ l.valid = v
  <2>1. PICK ids \in Seq(Nat), got \in Seq(Nat \X Nat) : ids = <<c>> /\ got = <<<<c, m>>>>
    BY <1>2
  <2>2. PICK kept \in Seq(Nat) : kept = If(v, ids)
    <3>1. <<>> \in Seq(Nat)
      OBVIOUS
    <3> QED
      BY <3>1 DEF If
  <2>3. /\ Records(RowOf(a, kept), LifeOf(a, ids, v, got))
        /\ RowOf(a, kept).calls = kept
        /\ LifeOf(a, ids, v, got).got = got /\ LifeOf(a, ids, v, got).called = ids
        /\ LifeOf(a, ids, v, got).valid = v
    BY <2>2, ResponseRow
  <2> QED
    BY <2>1, <2>2, <2>3, <1>4, <1>5
<1>8. Recounts(rt, c, m)
  BY <1>6, ResultRow
<1>9. ra \in Rows /\ l \in Lives /\ rt \in Rows
  BY <1>7, <1>8 DEF Records, Recounts
<1>10. DOMAIN <<w>> = 1..1 /\ <<w>>[1] = w
  OBVIOUS
<1>11. Lived(a, <<w>>, v) = <<l>>
  <2>1. [i \in DOMAIN <<w>> |-> <<<<w>>[i].id, <<w>>[i].output>>] = [i \in 1..1 |-> <<c, m>>]
    BY <1>3, <1>10
  <2>2. [i \in 1..1 |-> <<c, m>>] = <<<<c, m>>>>
    OBVIOUS
  <2> QED
    BY <2>1, <2>2, <1>1, <1>5 DEF Lived, LifeOf
<1>12. PersistTurn(a, <<w>>, v) = <<ra, rt>>
  <2>1. [i \in DOMAIN <<w>> |->
          Stored("tool", <<w>>[i].output + Wrap, 0, <<>>, <<w>>[i].id, <<w>>[i].output)]
        = [i \in 1..1 |-> rt]
    BY <1>3, <1>6, <1>10
  <2>2. [i \in 1..1 |-> rt] = <<rt>>
    OBVIOUS
  <2>3. PersistTurn(a, <<w>>, v) = <<ra>> \o <<rt>>
    BY <2>1, <2>2, <1>1, <1>4 DEF PersistTurn, RowOf
  <2>4. <<ra>> \o <<rt>> = <<ra, rt>>
    BY <1>9, TwoSeq
  <2> QED
    BY <2>3, <2>4
<1> QED
  BY <1>3, <1>7, <1>8, <1>9, <1>11, <1>12 DEF CallStored


\* History of one row and of two.
LEMMA HistoryTwo ==
  ASSUME NEW r \in Rows, NEW q \in Rows
  PROVE  History(<<r, q>>) = Loaded(r) \o Loaded(q)
<1>1. PICK u \in Seq(Rows), v \in Seq(Rows) : u = <<r>> /\ v = <<q>>
  <2>1. <<r>> \in Seq(Rows) /\ <<q>> \in Seq(Rows)
    BY OneSeq
  <2> QED
    BY <2>1
<1>2. History(u \o v) = History(u) \o History(v)
  BY HistoryConcat
<1>3. <<r>> \o <<q>> = <<r, q>>
  BY TwoSeq
<1>4. History(<<r>>) = Loaded(r)
  BY HistoryOne
<1>5. History(<<q>>) = Loaded(q)
  BY HistoryOne
<1> QED
  BY <1>1, <1>2, <1>3, <1>4, <1>5

\* What a response's row is loaded as tells its record; there is no result in it.
LEMMA AnswerTells ==
  ASSUME NEW ra \in Rows, NEW l \in Lives, Records(ra, l), NEW c \in Nat,
         ra.calls = <<>> \/ ra.calls = <<c>>
  PROVE  /\ Tells(OfRole(Loaded(ra), "assistant"), Spoken(<<l>>))
         /\ OfRole(Loaded(ra), "tool") = <<>>
         /\ Spoken(<<l>>) = IF Speaks(l) THEN <<l>> ELSE <<>>
<1>1. PICK P : P = ContentToParts(ra)
  OBVIOUS
<1>2. /\ ra.role = "assistant" /\ ra.content = l.said /\ ra.reasoning = l.thought
      /\ ra.calls = Remembered(l)
  BY DEF Records
<1>3. GivesBack(P, ra, c)
  BY <1>1, <1>2, AnswerLoaded
<1>4. ra.content \in Nat /\ ra.reasoning \in Nat
  BY DEF Rows
<1>5. P = <<>> <=> ~Speaks(l)
  BY <1>2, <1>3, <1>4 DEF GivesBack, Speaks
<1>6. Spoken(<<>>) = <<>> /\ Spoken(<<l>>) = IF Speaks(l) THEN <<l>> ELSE <<>>
  BY SpokenOne
<1>7. PICK M : M = Message("assistant", P)
  OBVIOUS
<1>8. M \in Messages /\ M.role = "assistant" /\ M.parts = P
  BY <1>3, <1>7, MakersSound DEF GivesBack
<1>9. /\ OfRole(<<>>, "assistant") = <<>> /\ OfRole(<<M>>, "assistant") = <<M>>
      /\ OfRole(<<>>, "tool") = <<>> /\ OfRole(<<M>>, "tool") = <<>>
  <2>1. "assistant" # "tool"
    OBVIOUS
  <2> QED
    BY <2>1, <1>8, OfRoleOne
<1>10. Loaded(ra) = IF P # <<>> THEN <<M>> ELSE <<>>
  BY <1>1, <1>2, <1>7 DEF Loaded, If
<1>11. Tells(<<>>, <<>>)
  BY DEF Tells
<1>12. Tells(<<M>>, <<l>>)
  <2>1. Len(<<M>>) = 1 /\ Len(<<l>>) = 1 /\ DOMAIN <<M>> = 1..1 /\ <<M>>[1] = M /\ <<l>>[1] = l
    OBVIOUS
  <2>2. \A i \in 1..1 : i = 1
    OBVIOUS
  <2> QED
    BY <2>1, <2>2, <1>2, <1>3, <1>8 DEF Tells, GivesBack
<1> QED
  BY <1>5, <1>6, <1>9, <1>10, <1>11, <1>12

\* The row of a tool's result is loaded as one message, which holds it.
LEMMA ResultTells ==
  ASSUME NEW rt \in Rows, NEW c \in Nat, NEW m \in Nat, Recounts(rt, c, m)
  PROVE  \E M \in Messages :
            /\ Loaded(rt) = <<M>> /\ M.role = "tool"
            /\ Last(M.parts).id = c /\ Last(M.parts).output = m
            /\ Answers(M, c) /\ HasContent(M)
<1>1. PICK P : P = ContentToParts(rt)
  OBVIOUS
<1>2. /\ rt.role = "tool" /\ rt.content > 0 /\ rt.reasoning = 0 /\ rt.calls = <<>>
      /\ rt.result = c /\ rt.output = m
  BY DEF Recounts
<1>3. P # <<>> /\ P \in Seq(Parts) /\ Last(P) = Result(c, m)
  BY <1>1, <1>2, PartsOfRow
<1>4. /\ P \in Seq(Words \cup {Result(c, m)})
      /\ \E k \in DOMAIN P : P[k] = Result(c, m)
      /\ \E k \in DOMAIN P : PartSize(P[k]) > 0
  BY <1>1, <1>2, ResultLoaded
<1>5. PICK M : M = Message("tool", P)
  OBVIOUS
<1>6. M \in Messages /\ M.role = "tool" /\ M.parts = P
  BY <1>3, <1>5, MakersSound
<1>7. Loaded(rt) = <<M>>
  BY <1>1, <1>2, <1>3, <1>5 DEF Loaded, If
<1>8. Last(M.parts).id = c /\ Last(M.parts).output = m
  BY <1>3, <1>6, PartTypes
<1>9. Answers(M, c)
  BY <1>4, <1>6, MessageKinds
<1>10. HasContent(M)
  BY <1>4, <1>6, SizeSound
<1> QED
  BY <1>6, <1>7, <1>8, <1>9, <1>10

\* The tale of a response without a call.
LEMMA SaidTale ==
  ASSUME NEW ra \in Rows, NEW l \in Lives, Records(ra, l), ra.calls = <<>>, l.got = <<>>
  PROVE  Tale(History(<<ra>>), <<l>>)
<1>1. PICK c \in Nat : c = 0
  OBVIOUS
<1>2. /\ Tells(OfRole(Loaded(ra), "assistant"), Spoken(<<l>>))
      /\ OfRole(Loaded(ra), "tool") = <<>>
      /\ Spoken(<<l>>) = IF Speaks(l) THEN <<l>> ELSE <<>>
  BY <1>1, AnswerTells
<1>3. History(<<ra>>) = Loaded(ra)
  BY HistoryOne
<1>4. Gots(<<l>>) = <<>>
  BY GotsOne
<1>5. Seen(<<>>) = <<>>
  BY SeenOne
<1> QED
  BY <1>2, <1>3, <1>4, <1>5 DEF Tale

\* The tale of a response with one.
LEMMA CalledTale ==
  ASSUME NEW ra \in Rows, NEW l \in Lives, NEW rt \in Rows, NEW c \in Nat, NEW m \in Nat,
         Records(ra, l), Recounts(rt, c, m), ra.calls = <<>> \/ ra.calls = <<c>>,
         l.got = <<<<c, m>>>>
  PROVE  Tale(History(<<ra, rt>>), <<l>>)
<1>1. /\ Tells(OfRole(Loaded(ra), "assistant"), Spoken(<<l>>))
      /\ OfRole(Loaded(ra), "tool") = <<>>
  BY AnswerTells
<1>3. PICK M \in Messages : /\ Loaded(rt) = <<M>> /\ M.role = "tool"
                            /\ Last(M.parts).id = c /\ Last(M.parts).output = m
  BY ResultTells
<1>4. PICK u \in Seq(Messages), v \in Seq(Messages) : u = Loaded(ra) /\ v = Loaded(rt)
  BY LoadedSound
<1>5. \A r : OfRole(u \o v, r) = OfRole(u, r) \o OfRole(v, r)
  BY OfRoleConcat
<1>6. OfRole(v, "assistant") = <<>> /\ OfRole(v, "tool") = <<M>>
  <2>1. "assistant" # "tool"
    OBVIOUS
  <2> QED
    BY <2>1, <1>3, <1>4, OfRoleOne
<1>7. History(<<ra, rt>>) = u \o v
  BY <1>4, HistoryTwo
<1>8. OfRole(u, "assistant") \in Seq(Messages)
  BY OfRoleType
<1>9. OfRole(u \o v, "assistant") = OfRole(u, "assistant")
  BY <1>5, <1>6, <1>8, ConcatEmptySeq
<1>10. OfRole(u \o v, "tool") = <<M>>
  <2>1. <<M>> \in Seq(Messages)
    BY OneSeq
  <2>2. OfRole(u, "tool") = <<>>
    BY <1>1, <1>4
  <2> QED
    BY <2>1, <2>2, <1>5, <1>6, ConcatEmptySeq
<1>11. Seen(<<M>>) = <<<<c, m>>>>
  BY <1>3, SeenOne
<1>12. Gots(<<l>>) = <<<<c, m>>>>
  BY GotsOne
<1>13. Tells(OfRole(u, "assistant"), Spoken(<<l>>))
  BY <1>1, <1>4
<1> QED
  BY <1>7, <1>9, <1>10, <1>11, <1>12, <1>13 DEF Tale

\* The user's message tells nothing of a response, and neither do no rows.
LEMMA UserTale ==
  ASSUME NEW n \in Nat, n > 0
  PROVE  /\ Tale(<<>>, <<>>)
         /\ \E M \in Messages : /\ History(<<UserRow(n)>>) = <<M>>
                                /\ M = Message("user", <<Text(n)>>)
                                /\ Mum(M) /\ Tale(<<M>>, <<>>)
<1>1. PICK r \in Rows : /\ r = UserRow(n) /\ r.role = "user"
                        /\ ContentToParts(r) = <<Text(n)>>
  BY UserLoaded
<1>2. PICK P : P = <<Text(n)>> /\ P \in Seq(Words) /\ P \in Seq(Parts) /\ P # <<>>
  BY UserLoaded
<1>3. PICK M : M = Message("user", P)
  OBVIOUS
<1>4. M \in Messages /\ M.role = "user" /\ M.parts = P
  BY <1>2, <1>3, MakersSound
<1>5. History(<<r>>) = <<M>>
  <2>1. Loaded(r) = <<M>>
    BY <1>1, <1>2, <1>3 DEF Loaded, If
  <2> QED
    BY <2>1, HistoryOne
<1>6. Mum(M)
  <2>1. 0 \in Nat
    OBVIOUS
  <2> QED
    BY <2>1, <1>2, <1>4, MessageKinds
<1>7. /\ OfRole(<<M>>, "assistant") = <<>> /\ OfRole(<<M>>, "tool") = <<>>
      /\ OfRole(<<>>, "assistant") = <<>> /\ OfRole(<<>>, "tool") = <<>>
  <2>1. "assistant" # "user" /\ "tool" # "user"
    OBVIOUS
  <2> QED
    BY <2>1, <1>4, OfRoleOne
<1>8. PICK l : l \in Lives
  <2>1. [said |-> 0, thought |-> 0, called |-> <<>>, valid |-> TRUE, got |-> <<>>] \in Lives
    BY DEF Lives
  <2> QED
    BY <2>1
<1>9. Spoken(<<>>) = <<>> /\ Gots(<<>>) = <<>> /\ Seen(<<>>) = <<>>
  BY <1>8, SpokenOne, GotsOne, SeenOne
<1>10. Tells(<<>>, <<>>)
  BY DEF Tells
<1> QED
  BY <1>1, <1>2, <1>3, <1>4, <1>5, <1>6, <1>7, <1>9, <1>10 DEF Tale


\* What toLLMMessages leaves of a message without calls and results, and of a
\* call and its result, is paired.
LEMMA MumShown ==
  ASSUME NEW M \in Messages, Mum(M), NEW X
  PROVE  Paired(ToLLMMessages(<<>>), X) /\ Paired(ToLLMMessages(<<M>>), X)
<1>1. ToLLMMessages(<<>>) = <<>> /\ ToLLMMessages(<<M>>) = IF HasContent(M) THEN <<M>> ELSE <<>>
  BY ToLLMOne
<1>2. Paired(<<>>, X) /\ Paired(<<M>>, X)
  BY MumPaired
<1> QED
  BY <1>1, <1>2

\* The same of a result whose call is excused.
LEMMA AnswerShown ==
  ASSUME NEW W \in Messages, NEW c \in Nat, Answers(W, c), HasContent(W), NEW X, c \in X
  PROVE  Paired(ToLLMMessages(<<W>>), X)
<1>1. ToLLMMessages(<<W>>) = <<W>>
  BY ToLLMOne
<1> QED
  BY <1>1, AnswerPaired

\* The same of a call and its result: the call is left out if it has no content.
LEMMA AskedShown ==
  ASSUME NEW M \in Messages, NEW W \in Messages, NEW c \in Nat, NEW X,
         Asks(M, c), Answers(W, c), HasContent(M) \/ c \in X, HasContent(W)
  PROVE  Paired(ToLLMMessages(<<M, W>>), X)
<1>1. ToLLMMessages(<<M>>) = IF HasContent(M) THEN <<M>> ELSE <<>>
  BY ToLLMOne
<1>2. ToLLMMessages(<<W>>) = <<W>>
  BY ToLLMOne
<1>3. PICK u \in Seq(Messages), v \in Seq(Messages) : u = <<M>> /\ v = <<W>>
  <2>1. <<M>> \in Seq(Messages) /\ <<W>> \in Seq(Messages)
    BY OneSeq
  <2> QED
    BY <2>1
<1>4. ToLLMMessages(u \o v) = ToLLMMessages(u) \o ToLLMMessages(v)
  BY ToLLMConcat
<1>5. <<M>> \o <<W>> = <<M, W>>
  BY TwoSeq
<1>6. ToLLMMessages(<<M, W>>) = ToLLMMessages(<<M>>) \o <<W>>
  BY <1>2, <1>3, <1>4, <1>5
<1>7. CASE HasContent(M)
  <2>1. Paired(<<M, W>>, X)
    BY AskedPaired
  <2> QED
    BY <2>1, <1>1, <1>5, <1>6, <1>7
<1>8. CASE ~HasContent(M)
  <2>1. Paired(<<W>>, X)
    BY <1>8, AnswerPaired
  <2>2. <<>> \o <<W>> = <<W>>
    BY <1>3, ConcatEmptySeq
  <2> QED
    BY <2>1, <2>2, <1>1, <1>6, <1>8
<1> QED
  BY <1>7, <1>8

\* The rows of a response without a call, reloaded.
LEMMA SaidPaired ==
  ASSUME NEW ra \in Rows, ra.role = "assistant", ra.calls = <<>>, NEW X
  PROVE  Paired(ToLLMMessages(History(<<ra>>)), X)
<1>1. PICK P : P = ContentToParts(ra)
  OBVIOUS
<1>2. PICK c \in Nat : c = 0
  OBVIOUS
<1>3. GivesBack(P, ra, c)
  BY <1>1, AnswerLoaded
<1>4. P \in Seq(Words) /\ P \in Seq(Parts)
  BY <1>3 DEF GivesBack
<1>5. PICK M : M = Message("assistant", P)
  OBVIOUS
<1>6. M \in Messages /\ M.parts = P
  BY <1>4, <1>5, MakersSound
<1>7. Mum(M)
  BY <1>2, <1>4, <1>6, MessageKinds
<1>8. Loaded(ra) = <<M>> \/ Loaded(ra) = <<>>
  BY <1>1, <1>5 DEF Loaded, If
<1>9. History(<<ra>>) = Loaded(ra)
  BY HistoryOne
<1>10. Paired(ToLLMMessages(<<>>), X) /\ Paired(ToLLMMessages(<<M>>), X)
  BY <1>6, <1>7, MumShown
<1> QED
  BY <1>8, <1>9, <1>10

\* The rows of a response with one, reloaded; the call is excused if the response
\* said nothing, or if the call was not stored.
LEMMA CalledPaired ==
  ASSUME NEW ra \in Rows, NEW rt \in Rows, NEW c \in Nat, NEW m \in Nat, NEW X,
         ra.role = "assistant", ra.calls = <<c>>, Recounts(rt, c, m),
         ra.content # 0 \/ ra.reasoning # 0 \/ c \in X
  PROVE  Paired(ToLLMMessages(History(<<ra, rt>>)), X)
<1>1. PICK P : P = ContentToParts(ra)
  OBVIOUS
<1>2. GivesBack(P, ra, c)
  BY <1>1, AnswerLoaded
<1>3. ra.content > 0 \/ ra.reasoning > 0 \/ c \in X
  BY DEF Rows
<1>4. P \in Seq(Parts) /\ P # <<>>
  <2>1. <<c>> # <<>>
    OBVIOUS
  <2> QED
    BY <2>1, <1>2 DEF GivesBack
<1>5. PICK M : M = Message("assistant", P)
  OBVIOUS
<1>6. M \in Messages /\ M.parts = P
  BY <1>4, <1>5, MakersSound
<1>7. Asks(M, c)
  <2>1. /\ P \in Seq(Words \cup {ToolCall(c, 0)})
        /\ \E k \in DOMAIN P : P[k] = ToolCall(c, 0)
    BY <1>2 DEF GivesBack
  <2>2. 0 \in Nat
    OBVIOUS
  <2> QED
    BY <2>1, <2>2, <1>6, MessageKinds
<1>8. HasContent(M) \/ c \in X
  <2>1. SUFFICES ASSUME ra.content > 0 \/ ra.reasoning > 0 PROVE HasContent(M)
    BY <1>3
  <2>2. \E k \in DOMAIN P : PartSize(P[k]) > 0
    BY <2>1, <1>2 DEF GivesBack
  <2> QED
    BY <2>2, <1>6, SizeSound
<1>9. PICK W \in Messages : Loaded(rt) = <<W>> /\ Answers(W, c) /\ HasContent(W)
  BY ResultTells
<1>10. Loaded(ra) = <<M>>
  BY <1>1, <1>4, <1>5 DEF Loaded, If
<1>11. History(<<ra, rt>>) = <<M>> \o <<W>>
  BY <1>9, <1>10, HistoryTwo
<1>12. <<M>> \o <<W>> = <<M, W>>
  BY <1>6, TwoSeq
<1>13. Paired(ToLLMMessages(<<M, W>>), X)
  BY <1>6, <1>7, <1>8, <1>9, AskedShown
<1> QED
  BY <1>11, <1>12, <1>13

\* The same when the call was not stored.
LEMMA UnreadablePaired ==
  ASSUME NEW ra \in Rows, NEW rt \in Rows, NEW c \in Nat, NEW m \in Nat, NEW X,
         ra.role = "assistant", ra.calls = <<>>, Recounts(rt, c, m), c \in X
  PROVE  Paired(ToLLMMessages(History(<<ra, rt>>)), X)
<1>1. PICK W \in Messages : Loaded(rt) = <<W>> /\ Answers(W, c) /\ HasContent(W)
  BY ResultTells
<1>2. PICK g \in Seq(Messages), h \in Seq(Messages) : g = Loaded(ra) /\ h = Loaded(rt)
  BY LoadedSound
<1>3. History(<<ra>>) = g
  BY <1>2, HistoryOne
<1>4. Paired(ToLLMMessages(g), X)
  BY <1>3, SaidPaired
<1>5. Paired(ToLLMMessages(h), X)
  BY <1>1, <1>2, AnswerShown
<1>6. History(<<ra, rt>>) = g \o h
  BY <1>2, HistoryTwo
<1>7. PICK u \in Seq(Messages), v \in Seq(Messages) : u = ToLLMMessages(g) /\ v = ToLLMMessages(h)
  BY ToLLMType
<1>8. ToLLMMessages(g \o h) = ToLLMMessages(g) \o ToLLMMessages(h)
  BY ToLLMConcat
<1>9. Paired(u \o v, X)
  BY <1>4, <1>5, <1>7, PairedConcat
<1> QED
  BY <1>6, <1>7, <1>8, <1>9

\* The response as Run appends it, without a call.
LEMMA SaidAppended ==
  ASSUME NEW a \in Seq(Words), NEW X
  PROVE  /\ If(a # <<>>, <<Message("assistant", a)>>) \in Seq(Messages)
         /\ Paired(ToLLMMessages(If(a # <<>>, <<Message("assistant", a)>>)), X)
<1>1. a \in Seq(Parts)
  BY WordsOnly
<1>2. PICK M : M = Message("assistant", a)
  OBVIOUS
<1>3. M \in Messages /\ M.parts = a
  BY <1>1, <1>2, MakersSound
<1>4. Mum(M)
  <2>1. 0 \in Nat
    OBVIOUS
  <2> QED
    BY <2>1, <1>3, MessageKinds
<1>5. Paired(ToLLMMessages(<<>>), X) /\ Paired(ToLLMMessages(<<M>>), X)
  BY <1>3, <1>4, MumShown
<1>6. <<>> \in Seq(Messages) /\ <<M>> \in Seq(Messages)
  BY <1>3, OneSeq
<1> QED
  BY <1>2, <1>5, <1>6 DEF If

\* With one, and with its result.
LEMMA CalledAppended ==
  ASSUME NEW c \in Nat, NEW n \in Nat, NEW m \in Nat, m > 0, NEW X, n > 0 \/ c \in X,
         NEW x \in Seq(Words), NEW a \in Seq(Parts), a = x \o <<ToolCall(c, n)>>
  PROVE  /\ a # <<>>
         /\ <<Message("assistant", a), Message("tool", <<Result(c, m)>>)>> \in Seq(Messages)
         /\ Paired(ToLLMMessages(<<Message("assistant", a), Message("tool", <<Result(c, m)>>)>>), X)
<1>1. PICK v \in Parts : v = ToolCall(c, n) /\ PartSize(v) = n
  BY MakersSound, PartSizes
<1>2. PICK w \in Parts : w = Result(c, m) /\ PartSize(w) = m
  BY MakersSound, PartSizes
<1>3. PICK A : A = Words \cup {v}
  OBVIOUS
<1>4. x \in Seq(A) /\ v \in A
  <2>1. Words \subseteq A
    BY <1>3
  <2> QED
    BY <2>1, <1>3, SeqMonotonic
<1>5. PICK b : b = Append(x, v)
  OBVIOUS
<1>6. b \in Seq(A) /\ b # <<>> /\ Len(b) = Len(x) + 1 /\ b[Len(x) + 1] = v
  BY <1>4, <1>5, AppendProperties
<1>7. a = b
  BY <1>1, <1>5, AppendIsConcat
<1>8. PICK k \in DOMAIN b : b[k] = v
  <2>1. Len(x) + 1 \in DOMAIN b
    BY <1>6
  <2> QED
    BY <2>1, <1>6
<1>9. PICK M, W : M = Message("assistant", a) /\ W = Message("tool", <<w>>)
  OBVIOUS
<1>10. M \in Messages /\ M.parts = a
  BY <1>9, MakersSound
<1>11. <<w>> \in Seq(Parts) /\ <<w>> \in Seq(Words \cup {w}) /\ DOMAIN <<w>> = 1..1 /\ <<w>>[1] = w
  BY OneSeq
<1>12. W \in Messages /\ W.parts = <<w>>
  BY <1>9, <1>11, MakersSound
<1>13. Asks(M, c)
  BY <1>1, <1>3, <1>6, <1>7, <1>8, <1>10, MessageKinds
<1>14. Answers(W, c)
  <2>1. 1 \in DOMAIN W.parts /\ W.parts[1] = Result(c, m)
    BY <1>2, <1>11, <1>12
  <2>2. W.parts \in Seq(Words \cup {Result(c, m)})
    BY <1>2, <1>11, <1>12
  <2> QED
    BY <2>1, <2>2, MessageKinds
<1>15. HasContent(M) \/ c \in X
  <2>1. SUFFICES ASSUME n > 0 PROVE HasContent(M)
    OBVIOUS
  <2> QED
    BY <2>1, <1>1, <1>7, <1>8, <1>10, SizeSound
<1>16. HasContent(W)
  <2>1. 1 \in DOMAIN W.parts /\ PartSize(W.parts[1]) > 0
    BY <1>2, <1>11, <1>12
  <2> QED
    BY <2>1, <1>12, SizeSound
<1>17. Paired(ToLLMMessages(<<M, W>>), X)
  BY <1>10, <1>12, <1>13, <1>14, <1>15, <1>16, AskedShown
<1>18. <<M, W>> \in Seq(Messages)
  BY <1>10, <1>12
<1>19. a # <<>>
  BY <1>6, <1>7
<1> QED
  BY <1>2, <1>9, <1>17, <1>18, <1>19


\* The calls of L that are lost, in the table or on the way to the model.
LostIn(L) == {c \in Nat : \E i \in DOMAIN L : /\ L[i].said + L[i].thought = 0 \/ ~L[i].valid
                                              /\ \E k \in DOMAIN L[i].called : L[i].called[k] = c}

\* What Run appends to the transcript after a response.
Added(a, R) == If(a # <<>>, <<Message("assistant", a)>>)
               \o [i \in DOMAIN R |-> Message("tool", <<R[i]>>)]

\* The rows N store what L records, and what they are reloaded as is paired but
\* for the calls that are lost.
Keeps(N, L) ==
    /\ N \in Seq(Rows) /\ L \in Seq(Lives)
    /\ Tale(History(N), L)
    /\ Paired(ToLLMMessages(History(N)), LostIn(L))

\* A response without a call, stored and appended.
LEMMA SaidKept ==
  ASSUME NEW a \in Seq(Words), OfType(a, "tool_call") = <<>>, NEW X
  PROVE  /\ Keeps(PersistTurn(a, <<>>, TRUE), Lived(a, <<>>, TRUE))
         /\ Added(a, <<>>) \in Seq(Messages) /\ Paired(ToLLMMessages(Added(a, <<>>)), X)
<1>1. a \in Seq(Parts)
  BY WordsOnly
<1>2. PICK ra \in Rows, l \in Lives :
        /\ Records(ra, l) /\ ra.calls = <<>> /\ l.got = <<>>
        /\ PersistTurn(a, <<>>, TRUE) = <<ra>> /\ Lived(a, <<>>, TRUE) = <<l>>
  BY <1>1, SaidShape
<1>3. ra.role = "assistant"
  BY <1>2 DEF Records
<1>4. Tale(History(<<ra>>), <<l>>)
  BY <1>2, SaidTale
<1>5. Paired(ToLLMMessages(History(<<ra>>)), LostIn(<<l>>))
  BY <1>2, <1>3, SaidPaired
<1>6. <<ra>> \in Seq(Rows) /\ <<l>> \in Seq(Lives)
  BY OneSeq
<1>7. PICK D : D = If(a # <<>>, <<Message("assistant", a)>>)
  OBVIOUS
<1>8. D \in Seq(Messages) /\ Paired(ToLLMMessages(D), X)
  BY <1>7, SaidAppended
<1>9. Added(a, <<>>) = D
  <2>1. [i \in DOMAIN <<>> |-> Message("tool", <<<<>>[i]>>)] = <<>>
    OBVIOUS
  <2>2. Added(a, <<>>) = D \o <<>>
    BY <2>1, <1>7 DEF Added
  <2> QED
    BY <2>2, <1>8, ConcatEmptySeq
<1> QED
  BY <1>2, <1>4, <1>5, <1>6, <1>8, <1>9 DEF Keeps

\* A response with one, and its result.
LEMMA CalledKept ==
  ASSUME Wrap \in Nat, Wrap > 0, NEW c \in Nat, NEW n \in Nat, NEW m \in Nat, m > 0,
         NEW a \in Seq(Parts), Calling(a, c, n), NEW valid \in BOOLEAN, valid => n > 0
  PROVE  /\ Keeps(PersistTurn(a, <<Result(c, m)>>, valid), Lived(a, <<Result(c, m)>>, valid))
         /\ Added(a, <<Result(c, m)>>) \in Seq(Messages)
         /\ Paired(ToLLMMessages(Added(a, <<Result(c, m)>>)), LostIn(Lived(a, <<Result(c, m)>>, valid)))
<1>1. PICK v : v = Result(c, m)
  OBVIOUS
<1>2. PICK ra \in Rows, l \in Lives, rt \in Rows :
        /\ Records(ra, l) /\ ra.calls = If(valid, <<c>>)
        /\ l.got = <<<<c, m>>>> /\ l.called = <<c>> /\ l.valid = valid
        /\ Recounts(rt, c, m)
        /\ PersistTurn(a, <<v>>, valid) = <<ra, rt>>
        /\ Lived(a, <<v>>, valid) = <<l>>
  <2>1. OfType(a, "tool_call") = <<ToolCall(c, n)>>
    BY DEF Calling
  <2>2. CallStored(a, c, m, valid)
    BY <2>1, CalledShape
  <2> QED
    BY <2>2, <1>1 DEF CallStored
<1>3. ra.role = "assistant" /\ ra.content = l.said /\ ra.reasoning = l.thought
  BY <1>2 DEF Records
<1>4. Tale(History(<<ra, rt>>), <<l>>)
  <2>1. ra.calls = <<>> \/ ra.calls = <<c>>
    BY <1>2 DEF If
  <2> QED
    BY <2>1, <1>2, CalledTale
<1>5. <<ra, rt>> \in Seq(Rows) /\ <<l>> \in Seq(Lives)
  BY OneSeq, TwoSeq
<1>6. (l.said + l.thought = 0 \/ ~valid) => c \in LostIn(<<l>>)
  <2>1. DOMAIN <<l>> = 1..1 /\ <<l>>[1] = l /\ DOMAIN <<c>> = 1..1 /\ <<c>>[1] = c /\ 1 \in 1..1
    OBVIOUS
  <2> QED
    BY <2>1, <1>2 DEF LostIn
<1>7. Paired(ToLLMMessages(History(<<ra, rt>>)), LostIn(<<l>>))
  <2>1. CASE valid
    <3>1. ra.calls = <<c>>
      BY <2>1, <1>2 DEF If
    <3>2. ra.content # 0 \/ ra.reasoning # 0 \/ c \in LostIn(<<l>>)
      <4>1. l.said \in Nat /\ l.thought \in Nat
        BY DEF Lives
      <4>2. l.said = 0 /\ l.thought = 0 => l.said + l.thought = 0
        BY <4>1
      <4> QED
        BY <4>2, <1>3, <1>6
    <3> QED
      BY <3>1, <3>2, <1>2, <1>3, CalledPaired
  <2>2. CASE ~valid
    <3>1. ra.calls = <<>>
      BY <2>2, <1>2 DEF If
    <3>2. c \in LostIn(<<l>>)
      BY <2>2, <1>6
    <3> QED
      BY <3>1, <3>2, <1>2, <1>3, UnreadablePaired
  <2> QED
    BY <2>1, <2>2
<1>8. PICK M, W : M = Message("assistant", a) /\ W = Message("tool", <<v>>)
  OBVIOUS
<1>9. a # <<>> /\ <<M, W>> \in Seq(Messages) /\ Paired(ToLLMMessages(<<M, W>>), LostIn(<<l>>))
  <2>1. PICK x \in Seq(Words) : a = x \o <<ToolCall(c, n)>>
    BY DEF Calling
  <2>2. n > 0 \/ c \in LostIn(<<l>>)
    BY <1>6
  <2> QED
    BY <2>1, <2>2, <1>1, <1>8, CalledAppended
<1>10. Added(a, <<v>>) = <<M, W>>
  <2>1. DOMAIN <<v>> = 1..1 /\ <<v>>[1] = v
    OBVIOUS
  <2>2. [i \in DOMAIN <<v>> |-> Message("tool", <<<<v>>[i]>>)] = [i \in 1..1 |-> W]
    BY <2>1, <1>8
  <2>3. [i \in 1..1 |-> W] = <<W>>
    OBVIOUS
  <2>4. Added(a, <<v>>) = <<M>> \o <<W>>
    BY <2>2, <2>3, <1>8, <1>9 DEF Added, If
  <2>5. M \in {M, W} /\ W \in {M, W}
    OBVIOUS
  <2>6. <<M>> \o <<W>> = <<M, W>>
    BY <2>5, TwoSeq
  <2> QED
    BY <2>4, <2>6
<1> QED
  BY <1>1, <1>2, <1>4, <1>5, <1>7, <1>9, <1>10 DEF Keeps

\* The user's message, stored.
LEMMA UserKept ==
  ASSUME NEW n \in Nat, n > 0
  PROVE  /\ Keeps(<<>>, <<>>)
         /\ Keeps(<<UserRow(n)>>, <<>>)
<1>1. PICK M \in Messages : /\ History(<<UserRow(n)>>) = <<M>>
                            /\ Mum(M) /\ Tale(<<M>>, <<>>)
  BY UserTale
<1>2. Tale(<<>>, <<>>)
  BY UserTale
<1>3. PICK r \in Rows : r = UserRow(n)
  BY UserLoaded
<1>4. History(<<>>) = <<>>
  BY HistoryOne
<1>5. Paired(ToLLMMessages(<<>>), LostIn(<<>>)) /\ Paired(ToLLMMessages(<<M>>), LostIn(<<>>))
  BY <1>1, MumShown
<1>6. <<r>> \in Seq(Rows) /\ <<>> \in Seq(Rows) /\ <<>> \in Seq(Lives)
  BY OneSeq
<1> QED
  BY <1>1, <1>2, <1>3, <1>4, <1>5, <1>6 DEF Keeps

\* Rows after rows that keep their records.
LEMMA KeepsConcat ==
  ASSUME NEW rs, NEW ks, NEW N, NEW L, Keeps(rs, ks), Keeps(N, L)
  PROVE  Keeps(rs \o N, ks \o L) /\ LostIn(ks) \subseteq LostIn(ks \o L) /\ LostIn(L) \subseteq LostIn(ks \o L)
<1>1. rs \in Seq(Rows) /\ N \in Seq(Rows) /\ ks \in Seq(Lives) /\ L \in Seq(Lives)
  BY DEF Keeps
<1>2. rs \o N \in Seq(Rows)
  BY <1>1, ConcatProperties
<1>3. ks \o L \in Seq(Lives)
  BY <1>1, ConcatProperties
<1>4. PICK g \in Seq(Messages), h \in Seq(Messages) : g = History(rs) /\ h = History(N)
  BY <1>1, HistoryType
<1>5. History(rs \o N) = g \o h
  BY <1>1, <1>4, HistoryConcat
<1>6. Tale(g \o h, ks \o L)
  <2>1. Tale(g, ks) /\ Tale(h, L)
    BY <1>4 DEF Keeps
  <2> QED
    BY <2>1, <1>1, TaleConcat
<1>7. ASSUME NEW i \in DOMAIN ks PROVE i \in DOMAIN (ks \o L) /\ (ks \o L)[i] = ks[i]
  BY <1>1, ConcatAt
<1>8. ASSUME NEW i \in DOMAIN L
      PROVE  Len(ks) + i \in DOMAIN (ks \o L) /\ (ks \o L)[Len(ks) + i] = L[i]
  BY <1>1, ConcatAt
<1>9. LostIn(ks) \subseteq LostIn(ks \o L)
  BY <1>7 DEF LostIn
<1>10. LostIn(L) \subseteq LostIn(ks \o L)
  BY <1>8 DEF LostIn
<1>11. Paired(ToLLMMessages(g \o h), LostIn(ks \o L))
  <2>1. PICK X : X = LostIn(ks \o L)
    OBVIOUS
  <2>2. PICK u \in Seq(Messages), v \in Seq(Messages) : u = ToLLMMessages(g) /\ v = ToLLMMessages(h)
    BY ToLLMType
  <2>3. Paired(u, LostIn(ks)) /\ Paired(v, LostIn(L))
    BY <2>2, <1>4 DEF Keeps
  <2>4. Paired(u, X) /\ Paired(v, X)
    BY <2>1, <2>3, <1>9, <1>10, PairedMore
  <2>5. ToLLMMessages(g \o h) = ToLLMMessages(g) \o ToLLMMessages(h)
    BY ToLLMConcat
  <2>6. Paired(u \o v, X)
    BY <2>4, PairedConcat
  <2> QED
    BY <2>1, <2>2, <2>5, <2>6
<1> QED
  BY <1>2, <1>3, <1>5, <1>6, <1>9, <1>10, <1>11 DEF Keeps

\* A transcript and what is added to it.
LEMMA ShownConcat ==
  ASSUME NEW g \in Seq(Messages), NEW h \in Seq(Messages), NEW X
  PROVE  /\ g \o h \in Seq(Messages) /\ Len(g \o h) = Len(g) + Len(h)
         /\ (Paired(ToLLMMessages(g), X) /\ Paired(ToLLMMessages(h), X)) => Paired(ToLLMMessages(g \o h), X)
<1>1. g \o h \in Seq(Messages) /\ Len(g \o h) = Len(g) + Len(h)
  BY ConcatProperties
<1>2. ASSUME Paired(ToLLMMessages(g), X), Paired(ToLLMMessages(h), X)
      PROVE  Paired(ToLLMMessages(g \o h), X)
  <2>1. PICK u \in Seq(Messages), v \in Seq(Messages) : u = ToLLMMessages(g) /\ v = ToLLMMessages(h)
    BY ToLLMType
  <2>2. ToLLMMessages(g \o h) = ToLLMMessages(g) \o ToLLMMessages(h)
    BY ToLLMConcat
  <2>3. Paired(u \o v, X)
    BY <1>2, <2>1, PairedConcat
  <2> QED
    BY <2>1, <2>2, <2>3
<1> QED
  BY <1>1, <1>2

\* The transcript a turn begins with.
LEMMA Opening ==
  ASSUME NEW h \in Seq(Messages), NEW S \in Messages, NEW U \in Messages, Mum(S), Mum(U),
         NEW X
  PROVE  /\ (<<S>> \o h) \o <<U>> \in Seq(Messages) /\ Len((<<S>> \o h) \o <<U>>) >= 2
         /\ Paired(ToLLMMessages(h), X) => Paired(ToLLMMessages((<<S>> \o h) \o <<U>>), X)
<1>1. PICK u \in Seq(Messages), v \in Seq(Messages) : u = <<S>> /\ v = <<U>>
  <2>1. <<S>> \in Seq(Messages) /\ <<U>> \in Seq(Messages)
    BY OneSeq
  <2> QED
    BY <2>1
<1>2. Paired(ToLLMMessages(<<S>>), X)
  BY MumShown
<1>3. Paired(ToLLMMessages(<<U>>), X)
  BY MumShown
<1>4. PICK w \in Seq(Messages) : w = u \o h
  BY ShownConcat
<1>5. Len(w) = Len(u) + Len(h) /\ (Paired(ToLLMMessages(h), X) => Paired(ToLLMMessages(w), X))
  BY <1>1, <1>2, <1>4, ShownConcat
<1>6. /\ w \o v \in Seq(Messages) /\ Len(w \o v) = Len(w) + Len(v)
      /\ Paired(ToLLMMessages(w), X) => Paired(ToLLMMessages(w \o v), X)
  BY <1>1, <1>3, ShownConcat
<1>7. Len(u) = 1 /\ Len(v) = 1 /\ Len(h) \in Nat
  BY <1>1
<1>8. Len(w \o v) >= 2
  BY <1>5, <1>6, <1>7
<1> QED
  BY <1>1, <1>4, <1>5, <1>6, <1>8


\* The first message stays the first.
LEMMA FirstStays ==
  ASSUME NEW g \in Seq(Messages), NEW h \in Seq(Messages), Len(g) >= 1
  PROVE  (g \o h)[1] = g[1]
  BY ConcatProperties

\* What is left of a transcript when its second message and those after it go.
LEMMA AfterPaired ==
  ASSUME NEW s \in Seq(Messages), Len(s) >= 1, NEW d \in Nat, d < Len(s), Mum(s[1]),
         Paired(ToLLMMessages(s), Nat)
  PROVE  Paired(ToLLMMessages(After(s, d)), Nat)
<1>1. PICK n \in Nat, k \in Nat, z \in Nat :
        n = Len(s) /\ k = d + 1 /\ z = 0 /\ z <= k /\ k <= n /\ n <= Len(s)
  OBVIOUS
<1>2. PICK x \in Seq(Messages), y \in Seq(Messages) :
        x = SubSeq(s, z + 1, k) /\ y = SubSeq(s, k + 1, n)
  <2>1. SubSeq(s, z + 1, k) \in Seq(Messages)
    BY <1>1, SliceSound
  <2>2. SubSeq(s, k + 1, n) \in Seq(Messages)
    BY <1>1, SliceSound
  <2> QED
    BY <2>1, <2>2
<1>3. s = x \o y
  <2>1. SubSeq(s, z + 1, k) \o SubSeq(s, k + 1, n) = SubSeq(s, z + 1, n)
    <3>1. z \in Nat /\ z <= k /\ k <= n /\ n <= Len(s)
      BY <1>1
    <3> QED
      BY <3>1, SliceJoin
  <2>2. SubSeq(s, 1, Len(s)) = s
    BY SubSeqFull
  <2>3. z + 1 = 1
    BY <1>1
  <2> QED
    BY <2>1, <2>2, <2>3, <1>1, <1>2
<1>4. PICK u \in Seq(Messages), v \in Seq(Messages) : u = ToLLMMessages(x) /\ v = ToLLMMessages(y)
  BY ToLLMType
<1>5. ToLLMMessages(x \o y) = ToLLMMessages(x) \o ToLLMMessages(y)
  BY ToLLMConcat
<1>6. Paired(u \o v, Nat)
  BY <1>4, <1>5, <1>3
<1>7. Paired(v, Nat)
  BY <1>6, PairedRest
<1>8. PICK S \in Messages : S = s[1] /\ Mum(S) /\ Head(s) = S
  OBVIOUS
<1>9. Paired(ToLLMMessages(<<S>>), Nat)
  BY <1>8, MumShown
<1>10. PICK w \in Seq(Messages) : w = <<S>>
  BY OneSeq
<1>11. Paired(ToLLMMessages(w \o y), Nat)
  BY <1>4, <1>7, <1>9, <1>10, ShownConcat
<1>12. k + 1 = d + 2
  BY <1>1
<1> QED
  BY <1>1, <1>2, <1>8, <1>10, <1>11, <1>12 DEF After


-----------------------------------------------------------------------------
(* Transcript: the invariant                                               *)

Shape ==
    /\ phase \in {"idle", "call", "reply"}
    /\ turn \in Nat /\ turn <= MaxTurns
    /\ step \in Nat /\ step <= MaxSteps
    /\ calls \in Nat
    /\ msgs \in Seq(Messages)
    /\ phase # "idle" => turn > 0 /\ step < MaxSteps /\ Len(msgs) >= 2

\* A step makes at most one call.
CallsCounted == calls <= IF phase = "idle" THEN turn * MaxSteps ELSE (turn - 1) * MaxSteps + step

\* What the model was shown is the transcript as it stands.
Shown == phase = "reply" => prompt = ToLLMMessages(msgs)

\* The transcript is paired but for the calls that are lost, and but for those of
\* which something may have been cut.
Excused == IF cut THEN Nat ELSE LostIn(lived)
PairedSoFar == phase # "idle" => Paired(ToLLMMessages(msgs), Excused) /\ Mum(msgs[1])

TranscriptInv ==
    /\ Shape /\ cut \in BOOLEAN /\ CallsCounted
    /\ Shown /\ PairedSoFar
    /\ Keeps(rows, lived)

\* Multiples of a number.
LEMMA TimesNext ==
  ASSUME NEW t \in Nat, NEW k \in Nat
  PROVE  t * k \in Nat /\ (t + 1) * k = t * k + k
  OBVIOUS

\* Init establishes it.
LEMMA TranscriptStarts ==
  ASSUME TranscriptInit
  PROVE  TranscriptInv
<1>1. /\ rows = <<>> /\ msgs = <<>> /\ phase = "idle" /\ turn = 0 /\ step = 0 /\ calls = 0
      /\ lived = <<>> /\ cut = FALSE
  BY DEF TranscriptInit
<1>2. MaxTurns \in Nat /\ MaxSteps \in Nat
  BY TranscriptConstants
<1>3. Shape
  <2>1. <<>> \in Seq(Messages)
    OBVIOUS
  <2> QED
    BY <2>1, <1>1, <1>2 DEF Shape
<1>4. 0 * MaxSteps = 0
  BY <1>2
<1>5. CallsCounted
  BY <1>1, <1>4 DEF CallsCounted
<1>6. Shown /\ PairedSoFar
  BY <1>1 DEF Shown, PairedSoFar
<1>7. 1 \in Nat /\ 1 > 0
  OBVIOUS
<1>8. Keeps(<<>>, <<>>)
  BY <1>7, UserKept
<1> QED
  BY <1>1, <1>3, <1>5, <1>6, <1>8 DEF TranscriptInv

\* A turn begins with the stored history, or none, between two messages.
LEMMA BeginTurnKeeps ==
  ASSUME TranscriptInv, BeginTurn
  PROVE  TranscriptInv'
<1>1. MaxTurns \in Nat /\ MaxSteps \in Nat /\ MaxSteps > 0 /\ SystemSize \in Nat
  BY TranscriptConstants
<1>2. /\ phase = "idle" /\ turn < MaxTurns /\ turn' = turn + 1 /\ step' = 0 /\ cut' = FALSE
      /\ phase' = "call" /\ calls' = calls /\ lived' = lived
  BY DEF BeginTurn
<1>3. PICK n \in Sizes :
        /\ rows' = Append(rows, UserRow(n))
        /\ \E history \in {History(rows'), <<>>} :
             msgs' = <<Message("system", <<Text(SystemSize)>>)>> \o history
                     \o <<Message("user", <<Text(n)>>)>>
  BY DEF BeginTurn
<1>4. n \in Nat /\ n > 0
  BY TranscriptConstants
<1>5. /\ turn \in Nat /\ calls \in Nat /\ calls <= turn * MaxSteps
      /\ Keeps(rows, lived)
  BY <1>2 DEF TranscriptInv, Shape, CallsCounted
<1>6. rows \in Seq(Rows) /\ lived \in Seq(Lives)
  BY <1>5 DEF Keeps
<1>7. PICK r \in Rows : r = UserRow(n)
  BY <1>4, UserLoaded
<1>8. rows' = rows \o <<r>>
  BY <1>3, <1>6, <1>7, AppendIsConcat
<1>9. Keeps(<<r>>, <<>>)
  BY <1>4, <1>7, UserKept
<1>10. Keeps(rows \o <<r>>, lived \o <<>>)
  BY <1>5, <1>9, KeepsConcat
<1>11. lived \o <<>> = lived
  BY <1>6, ConcatEmptySeq
<1>12. Keeps(rows', lived')
  BY <1>2, <1>8, <1>10, <1>11
<1>13. PICK S \in Messages : S = Message("system", <<Text(SystemSize)>>) /\ Mum(S)
  <2>1. PICK p \in Words : p = Text(SystemSize) /\ p \in Parts
    BY <1>1, PartTypes, MakersSound
  <2>2. <<p>> \in Seq(Words) /\ <<p>> \in Seq(Parts)
    BY <2>1, OneSeq
  <2>3. PICK x : x = Message("system", <<p>>)
    OBVIOUS
  <2>4. x \in Messages /\ x.parts = <<p>>
    BY <2>2, <2>3, MakersSound
  <2>5. 0 \in Nat
    OBVIOUS
  <2>6. Mum(x)
    BY <2>2, <2>4, <2>5, MessageKinds
  <2> QED
    BY <2>1, <2>3, <2>4, <2>6
<1>14. PICK U \in Messages : U = Message("user", <<Text(n)>>) /\ Mum(U)
  BY <1>4, UserTale
<1>15. PICK h : h \in {History(rows'), <<>>} /\ msgs' = (<<S>> \o h) \o <<U>>
  BY <1>3, <1>13, <1>14
<1>16. h \in Seq(Messages) /\ Paired(ToLLMMessages(h), LostIn(lived'))
  <2>1. CASE h = <<>>
    <3>1. Paired(ToLLMMessages(<<>>), LostIn(lived'))
      BY <1>13, MumShown
    <3>2. <<>> \in Seq(Messages)
      OBVIOUS
    <3> QED
      BY <2>1, <3>1, <3>2
  <2>2. CASE h = History(rows')
    <3>1. rows' \in Seq(Rows) /\ Paired(ToLLMMessages(History(rows')), LostIn(lived'))
      BY <1>12 DEF Keeps
    <3> QED
      BY <2>2, <3>1, HistoryType
  <2> QED
    BY <2>1, <2>2, <1>15
<1>17. /\ msgs' \in Seq(Messages) /\ Len(msgs') >= 2
       /\ Paired(ToLLMMessages(msgs'), LostIn(lived'))
  BY <1>13, <1>14, <1>15, <1>16, Opening
<1>18. msgs'[1] = S
  <2>1. PICK w : w = <<S>> \o h
    OBVIOUS
  <2>2. <<S>> \in Seq(Messages) /\ Len(<<S>>) = 1 /\ <<S>>[1] = S /\ <<U>> \in Seq(Messages)
    BY OneSeq
  <2>3. w \in Seq(Messages) /\ Len(w) >= 1 /\ w[1] = S
    BY <2>1, <2>2, <1>16, ConcatProperties
  <2> QED
    BY <2>1, <2>2, <2>3, <1>15, FirstStays
<1>19. Shape'
  BY <1>1, <1>2, <1>5, <1>17 DEF Shape
<1>20. CallsCounted'
  <2>1. PICK q \in Nat : q = turn * MaxSteps
    BY <1>1, <1>5, TimesNext
  <2>2. ((turn + 1) - 1) * MaxSteps = q
    <3>1. (turn + 1) - 1 = turn
      BY <1>5
    <3> QED
      BY <2>1, <3>1
  <2>3. calls <= q + 0
    BY <1>5, <2>1
  <2> QED
    BY <1>2, <2>2, <2>3 DEF CallsCounted
<1>21. Shown' /\ PairedSoFar'
  <2>1. Excused' = LostIn(lived')
    BY <1>2 DEF Excused
  <2> QED
    BY <2>1, <1>2, <1>13, <1>17, <1>18 DEF Shown, PairedSoFar
<1> QED
  BY <1>2, <1>12, <1>19, <1>20, <1>21 DEF TranscriptInv


\* truncate leaves a transcript, the same one unless something was cut.
LEMMA CallModelKeeps ==
  ASSUME TranscriptInv, CallModel
  PROVE  TranscriptInv'
<1>1. /\ phase = "call" /\ msgs' = Truncate(msgs) /\ prompt' = ToLLMMessages(msgs')
      /\ phase' = "reply" /\ rows' = rows /\ turn' = turn /\ step' = step /\ calls' = calls
      /\ lived' = lived
  BY DEF CallModel
<1>2. cut' = (cut \/ msgs' # msgs)
  BY DEF CallModel
<1>3. msgs \in Seq(Messages) /\ Len(msgs) >= 2
  BY <1>1 DEF TranscriptInv, Shape
<1>4. msgs' \in Seq(Messages) /\ Len(msgs') >= 2
  <2>1. PICK t : t = Truncate(msgs)
    OBVIOUS
  <2>2. t \in Seq(Messages) /\ Len(t) >= 2
    BY <2>1, <1>3, TruncateSound
  <2> QED
    BY <2>1, <2>2, <1>1
<1>5. Shape'
  BY <1>1, <1>4 DEF TranscriptInv, Shape
<1>6. cut' \in BOOLEAN
  BY <1>2
<1>7. CallsCounted'
  BY <1>1 DEF TranscriptInv, CallsCounted
<1>8. Shown'
  BY <1>1 DEF Shown
<1>9. ~cut' => (~cut /\ msgs' = msgs)
  BY <1>2
<1>10. PairedSoFar'
  <2>1. Paired(ToLLMMessages(msgs), Excused) /\ Mum(msgs[1])
    BY <1>1 DEF TranscriptInv, PairedSoFar
  <2>2. CASE ~cut'
    <3>1. Excused' = Excused /\ msgs' = msgs
      BY <2>2, <1>1, <1>9 DEF Excused
    <3> QED
      BY <2>1, <3>1 DEF PairedSoFar
  <2>3. CASE cut'
    <3>1. Excused' = Nat
      BY <2>3 DEF Excused
    <3>2. Excused \subseteq Nat
      BY DEF Excused, LostIn
    <3>3. Paired(ToLLMMessages(msgs), Nat)
      BY <2>1, <3>2, PairedMore
    <3>4. PICK s \in Seq(Messages) :
            s = msgs /\ Len(s) >= 2 /\ Paired(ToLLMMessages(s), Nat) /\ Mum(s[1])
      BY <1>3, <2>1, <3>3
    <3>5. PICK t : t = Truncate(s)
      OBVIOUS
    <3>6. PICK d \in Nat : d < Len(s) /\ t = After(s, d)
      BY <3>4, <3>5, TruncateSound
    <3>7. Paired(ToLLMMessages(t), Nat)
      BY <3>4, <3>6, AfterPaired
    <3>8. t[1] = s[1]
      BY <3>6, AfterSound
    <3>9. msgs' = t
      BY <3>4, <3>5, <1>1
    <3> QED
      BY <3>1, <3>4, <3>7, <3>8, <3>9 DEF PairedSoFar
  <2> QED
    BY <2>2, <2>3
<1>11. Keeps(rows', lived')
  BY <1>1 DEF TranscriptInv
<1> QED
  BY <1>5, <1>6, <1>7, <1>8, <1>10, <1>11 DEF TranscriptInv

\* What a response adds to the table, to the record and to the transcript.
LEMMA ReplyAdds ==
  ASSUME NEW c \in Nat, NEW n \in Sizes, NEW m \in Sizes,
         NEW a \in Responses(c, n), NEW v \in Validities(a), NEW R,
         R = IF OfType(a, "tool_call") = <<>> THEN <<>> ELSE <<Result(c, m)>>
  PROVE  /\ Keeps(PersistTurn(a, R, v), Lived(a, R, v))
         /\ Added(a, R) \in Seq(Messages)
         /\ Paired(ToLLMMessages(Added(a, R)), LostIn(Lived(a, R, v)))
         /\ Len(R) \in Nat /\ Len(R) <= 1
<1>1. n \in Nat /\ n > 0 /\ m \in Nat /\ m > 0 /\ Wrap \in Nat /\ Wrap > 0
  BY TranscriptConstants
<1>2. /\ a \in Seq(Parts)
      /\ \/ a \in Seq(Words) /\ OfType(a, "tool_call") = <<>>
         \/ \E k \in Nat : Calling(a, c, k)
  BY <1>1, ResponseSound
<1>3. CASE a \in Seq(Words) /\ OfType(a, "tool_call") = <<>>
  <2>1. R = <<>> /\ Len(<<>>) = 0
    BY <1>3
  <2>2. v = TRUE
    BY <1>3 DEF Validities
  <2>3. Len(R) \in Nat /\ Len(R) <= 1
    BY <2>1
  <2>4. /\ Keeps(PersistTurn(a, <<>>, TRUE), Lived(a, <<>>, TRUE))
        /\ Added(a, <<>>) \in Seq(Messages)
        /\ Paired(ToLLMMessages(Added(a, <<>>)), LostIn(Lived(a, <<>>, TRUE)))
    BY <1>3, SaidKept
  <2>5. /\ Keeps(PersistTurn(a, R, v), Lived(a, R, v))
        /\ Added(a, R) \in Seq(Messages)
        /\ Paired(ToLLMMessages(Added(a, R)), LostIn(Lived(a, R, v)))
    BY <2>1, <2>2, <2>4, Zenon
  <2> QED
    BY <2>3, <2>5
<1>4. ASSUME NEW k \in Nat, Calling(a, c, k)
      PROVE  /\ Keeps(PersistTurn(a, R, v), Lived(a, R, v))
             /\ Added(a, R) \in Seq(Messages)
             /\ Paired(ToLLMMessages(Added(a, R)), LostIn(Lived(a, R, v)))
             /\ Len(R) \in Nat /\ Len(R) <= 1
  <2>1. PICK q : q = ToolCall(c, k) /\ q.input = k
    BY PartTypes
  <2>2. OfType(a, "tool_call") = <<q>> /\ <<q>> # <<>> /\ DOMAIN <<q>> = 1..1 /\ <<q>>[1] = q
    BY <2>1, <1>4 DEF Calling
  <2>3. R = <<Result(c, m)>> /\ Len(<<Result(c, m)>>) = 1
    BY <2>2
  <2>4. v \in BOOLEAN /\ (k = 0 => v = FALSE)
    <3>1. 1 \in 1..1
      OBVIOUS
    <3>2. k = 0 => \E i \in DOMAIN <<q>> : <<q>>[i].input = 0
      BY <2>1, <2>2, <3>1
    <3>3. v \in IF \E i \in DOMAIN <<q>> : <<q>>[i].input = 0 THEN {FALSE} ELSE BOOLEAN
      BY <2>2 DEF Validities
    <3> QED
      BY <3>2, <3>3
  <2>5. v => k > 0
    BY <2>4
  <2>6. /\ Keeps(PersistTurn(a, <<Result(c, m)>>, v), Lived(a, <<Result(c, m)>>, v))
        /\ Added(a, <<Result(c, m)>>) \in Seq(Messages)
        /\ Paired(ToLLMMessages(Added(a, <<Result(c, m)>>)), LostIn(Lived(a, <<Result(c, m)>>, v)))
    BY <1>1, <1>2, <1>4, <2>4, <2>5, CalledKept
  <2> QED
    BY <2>3, <2>6
<1> QED
  BY <1>2, <1>3, <1>4

\* Run appends the response and the results one after the other.
Appended(g, a, R) == (g \o If(a # <<>>, <<Message("assistant", a)>>))
                     \o [i \in DOMAIN R |-> Message("tool", <<R[i]>>)]

\* It might as well append them together.
LEMMA AddedTogether ==
  ASSUME NEW g \in Seq(Messages), NEW a, NEW R, NEW v, R = <<>> \/ R = <<v>>
  PROVE  Appended(g, a, R) = g \o Added(a, R)
<1>1. PICK M, W : M = Message("assistant", a) /\ W = Message("tool", <<v>>)
  OBVIOUS
<1>2. PICK A : A = Messages \cup {M, W}
  OBVIOUS
<1>3. g \in Seq(A) /\ M \in A /\ W \in A
  BY <1>2, SeqMonotonic
<1>4. PICK X : X = If(a # <<>>, <<Message("assistant", a)>>)
  OBVIOUS
<1>5. X = <<>> \/ X = <<M>>
  BY <1>1, <1>4 DEF If
<1>6. PICK Y : Y = [i \in DOMAIN R |-> Message("tool", <<R[i]>>)]
  OBVIOUS
<1>7. Y = <<>> \/ Y = <<W>>
  <2>1. CASE R = <<>>
    BY <2>1, <1>6
  <2>2. CASE R = <<v>>
    <3>1. DOMAIN <<v>> = 1..1 /\ <<v>>[1] = v
      OBVIOUS
    <3>2. [i \in DOMAIN <<v>> |-> Message("tool", <<<<v>>[i]>>)] = [i \in 1..1 |-> W]
      BY <3>1, <1>1
    <3>3. [i \in 1..1 |-> W] = <<W>>
      OBVIOUS
    <3> QED
      BY <2>2, <3>2, <3>3, <1>6
  <2> QED
    BY <2>1, <2>2
<1>8. X \in Seq(A)
  BY <1>3, <1>5, UpToOne
<1>9. Y \in Seq(A)
  BY <1>3, <1>7, UpToOne
<1>10. PICK x \in Seq(A), y \in Seq(A), z \in Seq(A) : x = g /\ y = X /\ z = Y
  BY <1>3, <1>8, <1>9
<1>11. (x \o y) \o z = x \o (y \o z)
  BY ConcatAssociative
<1> QED
  BY <1>4, <1>6, <1>10, <1>11 DEF Added, Appended

\* A response is stored and appended whole: call and result together.
LEMMA ReplyKeeps ==
  ASSUME TranscriptInv, Reply
  PROVE  TranscriptInv'
<1>1. phase = "reply" /\ step' = step + 1 /\ turn' = turn /\ prompt' = prompt /\ cut' = cut
  BY DEF Reply
<1>2. PICK n \in Sizes, m \in Sizes : \E a \in Responses(calls + 1, n) :
        \E v \in Validities(a) :
        LET R == IF OfType(a, "tool_call") = <<>> THEN <<>> ELSE <<Result(calls + 1, m)>>
        IN /\ msgs' = msgs \o If(a # <<>>, <<Message("assistant", a)>>)
                      \o [i \in DOMAIN R |-> Message("tool", <<R[i]>>)]
           /\ rows' = rows \o PersistTurn(a, R, v)
           /\ lived' = lived \o Lived(a, R, v)
           /\ calls' = calls + Len(R)
           /\ phase' = IF R # <<>> /\ step + 1 < MaxSteps THEN "call" ELSE "idle"
  BY DEF Reply
<1>3. PICK a \in Responses(calls + 1, n) : \E v \in Validities(a) :
        LET R == IF OfType(a, "tool_call") = <<>> THEN <<>> ELSE <<Result(calls + 1, m)>>
        IN /\ msgs' = msgs \o If(a # <<>>, <<Message("assistant", a)>>)
                      \o [i \in DOMAIN R |-> Message("tool", <<R[i]>>)]
           /\ rows' = rows \o PersistTurn(a, R, v)
           /\ lived' = lived \o Lived(a, R, v)
           /\ calls' = calls + Len(R)
           /\ phase' = IF R # <<>> /\ step + 1 < MaxSteps THEN "call" ELSE "idle"
  BY <1>2
<1>4. PICK v \in Validities(a) :
        LET R == IF OfType(a, "tool_call") = <<>> THEN <<>> ELSE <<Result(calls + 1, m)>>
        IN /\ msgs' = msgs \o If(a # <<>>, <<Message("assistant", a)>>)
                      \o [i \in DOMAIN R |-> Message("tool", <<R[i]>>)]
           /\ rows' = rows \o PersistTurn(a, R, v)
           /\ lived' = lived \o Lived(a, R, v)
           /\ calls' = calls + Len(R)
           /\ phase' = IF R # <<>> /\ step + 1 < MaxSteps THEN "call" ELSE "idle"
  BY <1>3
<1>5. PICK R : R = IF OfType(a, "tool_call") = <<>> THEN <<>> ELSE <<Result(calls + 1, m)>>
  OBVIOUS
<1>6. /\ msgs' = (msgs \o If(a # <<>>, <<Message("assistant", a)>>))
                 \o [i \in DOMAIN R |-> Message("tool", <<R[i]>>)]
      /\ rows' = rows \o PersistTurn(a, R, v)
      /\ lived' = lived \o Lived(a, R, v)
      /\ calls' = calls + Len(R)
      /\ phase' = IF R # <<>> /\ step + 1 < MaxSteps THEN "call" ELSE "idle"
  BY <1>4, <1>5
<1>7. /\ turn \in Nat /\ turn <= MaxTurns /\ turn > 0 /\ step \in Nat /\ step < MaxSteps
      /\ calls \in Nat /\ msgs \in Seq(Messages) /\ Len(msgs) >= 2
      /\ MaxTurns \in Nat /\ MaxSteps \in Nat
      /\ calls <= (turn - 1) * MaxSteps + step
  BY <1>1, TranscriptConstants DEF TranscriptInv, Shape, CallsCounted
<1>8. /\ Keeps(PersistTurn(a, R, v), Lived(a, R, v))
      /\ Added(a, R) \in Seq(Messages)
      /\ Paired(ToLLMMessages(Added(a, R)), LostIn(Lived(a, R, v)))
      /\ Len(R) \in Nat /\ Len(R) <= 1
  <2>1. calls + 1 \in Nat
    BY <1>7
  <2> QED
    BY <2>1, <1>5, ReplyAdds
<1>9. /\ Keeps(rows', lived')
      /\ LostIn(lived) \subseteq LostIn(lived') /\ LostIn(Lived(a, R, v)) \subseteq LostIn(lived')
  <2>1. PICK N, L : N = PersistTurn(a, R, v) /\ L = Lived(a, R, v) /\ Keeps(N, L)
    BY <1>8
  <2>2. /\ Keeps(rows \o N, lived \o L)
        /\ LostIn(lived) \subseteq LostIn(lived \o L) /\ LostIn(L) \subseteq LostIn(lived \o L)
    BY <2>1, KeepsConcat DEF TranscriptInv
  <2> QED
    BY <2>1, <2>2, <1>6
<1>10. PICK D \in Seq(Messages) :
        D = Added(a, R) /\ Paired(ToLLMMessages(D), LostIn(Lived(a, R, v)))
  BY <1>8
<1>11. msgs' = msgs \o D
  <2>1. PICK w : R = <<>> \/ R = <<w>>
    BY <1>5
  <2>2. Appended(msgs, a, R) = msgs \o Added(a, R)
    BY <2>1, <1>7, AddedTogether
  <2> QED
    BY <2>2, <1>6, <1>10 DEF Appended
<1>12. /\ msgs' \in Seq(Messages) /\ Len(msgs') = Len(msgs) + Len(D)
  BY <1>7, <1>10, <1>11, ShownConcat
<1>13. Len(msgs') >= 2
  <2>1. Len(D) \in Nat /\ Len(msgs) \in Nat
    BY <1>7
  <2> QED
    BY <2>1, <1>7, <1>12
<1>14. phase' = "call" => step + 1 < MaxSteps
  BY <1>6
<1>15. phase' \in {"idle", "call", "reply"} /\ phase' # "reply"
  BY <1>6
<1>16. Shape'
  BY <1>1, <1>6, <1>7, <1>8, <1>12, <1>13, <1>14, <1>15 DEF Shape
<1>17. CallsCounted'
  <2>1. PICK q \in Nat, t \in Nat : t = turn - 1 /\ q = t * MaxSteps
    <3>1. turn - 1 \in Nat
      BY <1>7
    <3> QED
      BY <3>1, <1>7, TimesNext
  <2>2. turn * MaxSteps = q + MaxSteps
    <3>1. (t + 1) * MaxSteps = t * MaxSteps + MaxSteps
      BY <1>7, TimesNext
    <3>2. t + 1 = turn
      BY <2>1, <1>7
    <3> QED
      BY <2>1, <3>1, <3>2
  <2>3. calls <= q + step
    BY <2>1, <1>7
  <2>4. calls' <= q + (step + 1) /\ calls' <= q + MaxSteps
    <3>1. PICK k \in Nat, e \in Nat, o \in Nat, z \in Nat :
            k = calls /\ e = step /\ o = Len(R) /\ z = MaxSteps
      BY <1>7, <1>8
    <3>2. o <= 1 /\ e < z /\ k <= q + e /\ calls' = k + o
      BY <3>1, <2>3, <1>6, <1>7, <1>8
    <3>3. k + o <= q + (e + 1) /\ k + o <= q + z
      BY <3>2
    <3> QED
      BY <3>1, <3>2, <3>3
  <2>5. (turn - 1) * MaxSteps = q
    BY <2>1
  <2> QED
    BY <2>2, <2>4, <2>5, <1>1 DEF CallsCounted
<1>18. Shown'
  BY <1>15 DEF Shown
<1>19. PairedSoFar'
  <2>1. Paired(ToLLMMessages(msgs), Excused) /\ Mum(msgs[1])
    BY <1>1 DEF TranscriptInv, PairedSoFar
  <2>2. PICK X : X = Excused'
    OBVIOUS
  <2>3. Excused \subseteq X /\ LostIn(Lived(a, R, v)) \subseteq X
    <3>1. LostIn(lived) \subseteq Nat /\ LostIn(Lived(a, R, v)) \subseteq Nat
      BY DEF LostIn
    <3> QED
      BY <2>2, <3>1, <1>1, <1>9 DEF Excused
  <2>4. Paired(ToLLMMessages(msgs), X)
    BY <2>1, <2>3, PairedMore
  <2>5. Paired(ToLLMMessages(D), X)
    BY <1>10, <2>3, PairedMore
  <2>6. PICK g \in Seq(Messages) : g = msgs /\ Len(g) >= 2
    BY <1>7
  <2>7. Paired(ToLLMMessages(g \o D), X)
    BY <2>4, <2>5, <2>6, ShownConcat
  <2>8. (g \o D)[1] = g[1]
    BY <2>6, FirstStays
  <2> QED
    BY <2>1, <2>2, <2>6, <2>7, <2>8, <1>11 DEF PairedSoFar
<1>20. cut' \in BOOLEAN
  BY <1>1 DEF TranscriptInv
<1> QED
  BY <1>9, <1>16, <1>17, <1>18, <1>19, <1>20 DEF TranscriptInv


\* A turn that fails leaves everything as it was, and so does a stutter.
LEMMA ReplyFailsKeeps ==
  ASSUME TranscriptInv, ReplyFails
  PROVE  TranscriptInv'
<1>1. /\ phase = "reply" /\ phase' = "idle" /\ rows' = rows /\ msgs' = msgs /\ prompt' = prompt
      /\ turn' = turn /\ step' = step /\ calls' = calls /\ lived' = lived /\ cut' = cut
  BY DEF ReplyFails
<1>2. /\ turn \in Nat /\ turn > 0 /\ step \in Nat /\ step < MaxSteps /\ calls \in Nat
      /\ MaxSteps \in Nat /\ calls <= (turn - 1) * MaxSteps + step
  BY <1>1, TranscriptConstants DEF TranscriptInv, Shape, CallsCounted
<1>3. Shape'
  BY <1>1 DEF TranscriptInv, Shape
<1>4. CallsCounted'
  <2>1. PICK q \in Nat, t \in Nat : t = turn - 1 /\ q = t * MaxSteps
    <3>1. turn - 1 \in Nat
      BY <1>2
    <3> QED
      BY <3>1, <1>2, TimesNext
  <2>2. turn * MaxSteps = q + MaxSteps
    <3>1. (t + 1) * MaxSteps = t * MaxSteps + MaxSteps
      BY <1>2, TimesNext
    <3>2. t + 1 = turn
      BY <2>1, <1>2
    <3> QED
      BY <2>1, <3>1, <3>2
  <2>3. calls <= q + step
    BY <2>1, <1>2
  <2>4. calls <= q + MaxSteps
    BY <2>3, <1>2
  <2> QED
    BY <2>2, <2>4, <1>1 DEF CallsCounted
<1>5. Shown' /\ PairedSoFar'
  BY <1>1 DEF Shown, PairedSoFar
<1>6. cut' \in BOOLEAN
  BY <1>1 DEF TranscriptInv
<1>7. Keeps(rows', lived')
  BY <1>1 DEF TranscriptInv
<1> QED
  BY <1>3, <1>4, <1>5, <1>6, <1>7 DEF TranscriptInv

\* A stutter changes nothing.
LEMMA StutterKeeps ==
  ASSUME TranscriptInv, UNCHANGED transcriptVars
  PROVE  TranscriptInv'
<1>1. /\ phase' = phase /\ rows' = rows /\ msgs' = msgs /\ prompt' = prompt
      /\ turn' = turn /\ step' = step /\ calls' = calls /\ lived' = lived
  BY DEF transcriptVars
<1>2. cut' = cut
  BY DEF transcriptVars
<1>3. Shape' /\ CallsCounted' /\ Shown'
  BY <1>1 DEF TranscriptInv, Shape, CallsCounted, Shown
<1>4. PairedSoFar'
  BY <1>1, <1>2 DEF TranscriptInv, PairedSoFar, Excused
<1>5. Keeps(rows', lived')
  BY <1>1 DEF TranscriptInv
<1>6. cut' \in BOOLEAN
  BY <1>2 DEF TranscriptInv
<1> QED
  BY <1>3, <1>4, <1>5, <1>6 DEF TranscriptInv

\* The invariant holds of every behaviour.
LEMMA TranscriptInvariant == TranscriptSpec => []TranscriptInv
<1>1. TranscriptInit => TranscriptInv
  BY TranscriptStarts
<1>2. TranscriptInv /\ [TranscriptNext]_transcriptVars => TranscriptInv'
  <2>1. SUFFICES ASSUME TranscriptInv, [TranscriptNext]_transcriptVars PROVE TranscriptInv'
    OBVIOUS
  <2>2. CASE BeginTurn
    BY <2>1, <2>2, BeginTurnKeeps
  <2>3. CASE CallModel
    BY <2>1, <2>3, CallModelKeeps
  <2>4. CASE Reply
    BY <2>1, <2>4, ReplyKeeps
  <2>5. CASE ReplyFails
    BY <2>1, <2>5, ReplyFailsKeeps
  <2>6. CASE TranscriptDone
    BY <2>1, <2>6, StutterKeeps DEF TranscriptDone
  <2>7. CASE UNCHANGED transcriptVars
    BY <2>1, <2>7, StutterKeeps
  <2> QED
    BY <2>1, <2>2, <2>3, <2>4, <2>5, <2>6, <2>7 DEF TranscriptNext
<1> QED
  BY <1>1, <1>2, PTL DEF TranscriptSpec

\* What the model is shown is the system prompt and the longest end of the
\* conversation that fits the window, the message to answer always among it
\* (truncate), however the transcript came about.
THEOREM PromptIsLongestFitTheorem == TranscriptSpec => []PromptIsLongestFit
<1>1. TranscriptInv => PromptIsLongestFit
  <2>1. ASSUME TranscriptInv, phase = "call" PROVE PromptIsLongestFit
    <3>1. msgs \in Seq(Messages) /\ Len(msgs) >= 2
      BY <2>1 DEF TranscriptInv, Shape
    <3> QED
      BY <3>1, LongestFit
  <2>2. ASSUME phase # "call" PROVE PromptIsLongestFit
    BY <2>2 DEF PromptIsLongestFit
  <2> QED
    BY <2>1, <2>2
<1> QED
  BY <1>1, TranscriptInvariant, PTL

\* In every prompt, of reloaded sessions and cut ones, too, each call is answered
\* by a later result; and while nothing was cut each result follows its call, but
\* for the calls of responses that said nothing and of those whose inputs were not
\* JSON (persistTurn, contentToParts, truncate, toLLMMessages).
THEOREM CallsAndResultsPairedTheorem == TranscriptSpec => []CallsAndResultsPaired
<1>1. TranscriptInv => CallsAndResultsPaired
  <2>1. SUFFICES ASSUME TranscriptInv, phase = "reply"
                 PROVE  /\ CallsAnswered(prompt)
                        /\ ~cut => ResultsCalled(prompt, MuteCalls \cup UnreadableCalls)
    BY DEF CallsAndResultsPaired
  <2>2. Paired(ToLLMMessages(msgs), Excused) /\ prompt = ToLLMMessages(msgs)
    BY <2>1 DEF TranscriptInv, PairedSoFar, Shown
  <2>3. calls \in Nat /\ msgs \in Seq(Messages)
    BY <2>1 DEF TranscriptInv, Shape
  <2>4. PICK s \in Seq(Messages) : s = ToLLMMessages(msgs)
    BY <2>3, ToLLMType
  <2>5. Paired(s, Excused)
    BY <2>2, <2>4
  <2>6. CallsAnswered(s) /\ ResultsCalled(s, Excused)
    BY <2>3, <2>5, PairedMeans
  <2>7. ASSUME NEW c \in LostIn(lived) PROVE c \in MuteCalls \cup UnreadableCalls
    <3>1. PICK i \in DOMAIN lived : /\ lived[i].said + lived[i].thought = 0 \/ ~lived[i].valid
                                    /\ \E k \in DOMAIN lived[i].called : lived[i].called[k] = c
      BY <2>7 DEF LostIn
    <3>2. c \in ToSet(lived[i].called)
      BY <3>1 DEF ToSet
    <3>3. CASE lived[i].said + lived[i].thought = 0
      <4>1. i \in {j \in DOMAIN lived : lived[j].said + lived[j].thought = 0}
        BY <3>3
      <4> QED
        BY <4>1, <3>2 DEF MuteCalls
    <3>4. CASE ~lived[i].valid
      <4>1. i \in {j \in DOMAIN lived : ~lived[j].valid}
        BY <3>4
      <4> QED
        BY <4>1, <3>2 DEF UnreadableCalls
    <3> QED
      BY <3>1, <3>3, <3>4
  <2>8. ASSUME ~cut PROVE ResultsCalled(s, MuteCalls \cup UnreadableCalls)
    <3>1. Excused = LostIn(lived)
      BY <2>8 DEF Excused
    <3> QED
      BY <2>6, <2>7, <3>1 DEF ResultsCalled
  <2> QED
    BY <2>2, <2>4, <2>6, <2>8
<1> QED
  BY <1>1, TranscriptInvariant, PTL

\* Loading the table gives back every response that was stored, its text, its
\* thought, its calls and their results, in order, and nothing else
\* (persistTurn against contentToParts), and the state is well typed.
THEOREM HistoryFaithfulTheorem == TranscriptSpec => []HistoryFaithful
<1>1. TranscriptInv => HistoryFaithful
  <2>1. SUFFICES ASSUME TranscriptInv PROVE HistoryFaithful
    OBVIOUS
  <2>2. /\ phase \in {"idle", "call", "reply"} /\ turn \in Nat /\ turn <= MaxTurns /\ step \in Nat
        /\ step <= MaxSteps /\ calls \in Nat /\ msgs \in Seq(Messages)
        /\ phase # "idle" => turn > 0 /\ step < MaxSteps
        /\ MaxTurns \in Nat /\ MaxSteps \in Nat
    BY <2>1, TranscriptConstants DEF TranscriptInv, Shape
  <2>3. calls <= MaxTurns * MaxSteps
    <3>1. calls <= turn * MaxSteps
      <4>1. CASE phase = "idle"
        BY <2>1, <4>1 DEF TranscriptInv, CallsCounted
      <4>2. CASE phase # "idle"
        <5>1. calls <= (turn - 1) * MaxSteps + step /\ step < MaxSteps /\ turn > 0
          BY <2>1, <2>2, <4>2 DEF TranscriptInv, CallsCounted
        <5>2. PICK q \in Nat, t \in Nat : t = turn - 1 /\ q = t * MaxSteps
          <6>1. turn - 1 \in Nat
            BY <2>2, <5>1
          <6> QED
            BY <6>1, <2>2, TimesNext
        <5>3. turn * MaxSteps = q + MaxSteps
          <6>1. (t + 1) * MaxSteps = t * MaxSteps + MaxSteps
            BY <2>2, TimesNext
          <6>2. t + 1 = turn
            BY <2>2, <5>2
          <6> QED
            BY <5>2, <6>1, <6>2
        <5>4. calls <= q + step
          BY <5>1, <5>2
        <5> QED
          BY <2>2, <5>1, <5>3, <5>4
      <4> QED
        BY <4>1, <4>2
    <3>2. turn * MaxSteps <= MaxTurns * MaxSteps
      BY <2>2
    <3>3. turn * MaxSteps \in Nat /\ MaxTurns * MaxSteps \in Nat
      BY <2>2, TimesNext
    <3> QED
      BY <2>2, <3>1, <3>2, <3>3
  <2>4. calls \in 0..(MaxTurns * MaxSteps)
    <3>1. MaxTurns * MaxSteps \in Nat
      BY <2>2, TimesNext
    <3> QED
      BY <2>2, <2>3, <3>1
  <2>5. \A i \in DOMAIN rows : rows[i].role \in {"user", "assistant", "tool"}
    <3>1. rows \in Seq(Rows)
      BY <2>1 DEF TranscriptInv, Keeps
    <3>2. \A i \in DOMAIN rows : rows[i] \in Rows
      BY <3>1
    <3> QED
      BY <3>2 DEF Rows
  <2>6. \A i \in DOMAIN msgs : msgs[i].role \in {"system", "user", "assistant", "tool"}
    <3>1. \A i \in DOMAIN msgs : msgs[i] \in Messages
      BY <2>2
    <3> QED
      BY <3>1 DEF Messages
  <2>7. cut \in BOOLEAN
    BY <2>1 DEF TranscriptInv
  <2>8. turn \in 0..MaxTurns /\ step \in 0..MaxSteps
    BY <2>2
  <2>9. TranscriptTypeOK
    BY <2>2, <2>4, <2>5, <2>6, <2>7, <2>8 DEF TranscriptTypeOK
  <2>10. Tale(History(rows), lived)
    BY <2>1 DEF TranscriptInv, Keeps
  <2> QED
    BY <2>9, <2>10 DEF HistoryFaithful, Tale, Tells, Gots, Seen
<1> QED
  BY <1>1, TranscriptInvariant, PTL
===============================================================================
