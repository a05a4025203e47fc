---------------------------- MODULE ThinkSplitter ----------------------------
(***************************************************************************)
(* thinkSplitter: a model's text arrives in deltas cut anywhere; what is   *)
(* inside <think>...</think> becomes reasoning, the rest tokens.  feed     *)
(* holds back the end of a delta that may be the beginning of a tag.       *)
(*                                                                         *)
(* The text is a sequence of pieces chosen at the start: letters, stray    *)
(* "<" and tags.  A tag is a "<", a number of marks and its end, each a    *)
(* character that knows which tag it belongs to: that is all the regular   *)
(* expression sees of it.  Any cut of the text into deltas may happen.     *)
(***************************************************************************)
EXTENDS Naturals, Sequences, SequencesExt

CONSTANTS
    Lengths,    \* tag name |-> number of characters
    Opens,      \* the names of the open tags; the others close a block
    HoldMax,    \* maxTagPrefixLen
    MaxPieces   \* bound: pieces of the text

ASSUME SplitterConstants ==
    /\ \A t \in DOMAIN Lengths : Lengths[t] \in Nat /\ Lengths[t] > 1
    /\ Opens \subseteq DOMAIN Lengths
    /\ "none" \notin DOMAIN Lengths    \* the mark of a character of no tag
    /\ HoldMax \in Nat /\ MaxPieces \in Nat

VARIABLES
    text,      \* the text, as pieces
    pos,       \* characters delivered so far
    raw,       \* feed's working string
    inside,    \* s.inside
    buf,       \* s.buf
    reasoning, \* s.reasoning
    out,       \* history: characters emitted, each with its kind of event
    tags,      \* history: characters of the tags taken out
    pc         \* "idle" between deltas, "scan" in feed's loop, "flushed"

vars == <<text, pos, raw, inside, buf, reasoning, out, tags, pc>>

TagNames == DOMAIN Lengths
Letter   == "a"
Less     == "<"

\* A character: what it is, of which tag, at which place of which piece.
Char(what, tag, i, piece) == [what |-> what, tag |-> tag, i |-> i, piece |-> piece]

Spelled(piece, k) ==
    IF piece \in TagNames
      THEN [i \in 1..Lengths[piece] |-> Char(IF i = 1 THEN Less ELSE "mark", piece, i, k)]
      ELSE <<Char(piece, "none", 1, k)>>

Chars == FlattenSeq([k \in DOMAIN text |-> Spelled(text[k], k)])

Init ==
    /\ text \in UNION {[1..n -> TagNames \cup {Letter, Less}] : n \in 0..MaxPieces}
    /\ pos = 0
    /\ raw = <<>>
    /\ inside = FALSE
    /\ buf = <<>>
    /\ reasoning = <<>>
    /\ out = <<>>
    /\ tags = 0
    /\ pc = "idle"

-----------------------------------------------------------------------------
(* thinkingTagRE                                                           *)

\* A whole tag begins at i.
TagAt(s, i) ==
    /\ s[i].what = Less /\ s[i].tag # "none"
    /\ i + Lengths[s[i].tag] - 1 <= Len(s)
    /\ \A j \in 0..(Lengths[s[i].tag] - 1) :
         s[i + j] = Char(s[i + j].what, s[i].tag, j + 1, s[i].piece)

TagStarts(s) == {i \in DOMAIN s : TagAt(s, i)}

Least(S) == CHOOSE i \in S : \A j \in S : i <= j
Most(S)  == CHOOSE i \in S : \A j \in S : j <= i

As(kind, s) == [i \in DOMAIN s |-> <<kind, s[i]>>]

-----------------------------------------------------------------------------
(* feed and flush                                                          *)

\* A delta arrives.
Feed ==
    /\ pc = "idle"
    /\ \E n \in 1..(Len(Chars) - pos) :
         /\ raw' = buf \o SubSeq(Chars, pos + 1, pos + n)
         /\ pos' = pos + n
    /\ buf' = <<>>
    /\ pc' = "scan"
    /\ UNCHANGED <<text, inside, reasoning, out, tags>>

\* The first tag of raw is an open tag: what is before it is a token.
ScanOpen ==
    /\ pc = "scan"
    /\ TagStarts(raw) # {}
    /\ LET i == Least(TagStarts(raw)) IN
         /\ raw[i].tag \in Opens
         /\ raw' = SubSeq(raw, i + Lengths[raw[i].tag], Len(raw))
         /\ out' = out \o As("token", SubSeq(raw, 1, i - 1))
         /\ inside' = TRUE
         /\ tags' = tags + Lengths[raw[i].tag]
    /\ UNCHANGED <<text, pos, buf, reasoning, pc>>

\* Mutant: s.reasoning is not reset.
ScanCloseKeeps ==
    /\ pc = "scan"
    /\ TagStarts(raw) # {}
    /\ LET i == Least(TagStarts(raw)) IN
         /\ raw[i].tag \notin Opens
         /\ raw' = SubSeq(raw, i + Lengths[raw[i].tag], Len(raw))
         /\ out' = out \o As("reasoning", reasoning \o SubSeq(raw, 1, i - 1))
         /\ inside' = FALSE
         /\ tags' = tags + Lengths[raw[i].tag]
    /\ UNCHANGED <<text, pos, buf, reasoning, pc>>

\* It is a close tag: what is before it ends the block, which is emitted.
ScanClose ==
    /\ pc = "scan"
    /\ TagStarts(raw) # {}
    /\ LET i == Least(TagStarts(raw)) IN
         /\ raw[i].tag \notin Opens
         /\ raw' = SubSeq(raw, i + Lengths[raw[i].tag], Len(raw))
         /\ out' = out \o As("reasoning", reasoning \o SubSeq(raw, 1, i - 1))
         /\ reasoning' = <<>>
         /\ inside' = FALSE
         /\ tags' = tags + Lengths[raw[i].tag]
    /\ UNCHANGED <<text, pos, buf, pc>>

\* Where the held part of s begins: at its last "<", unless that is too far
\* back to be the beginning of a tag.
HeldFrom(s) ==
    LET at == {i \in DOMAIN s : s[i].what = Less}
    IN IF at = {} \/ Len(s) - Most(at) + 1 > HoldMax THEN Len(s) + 1 ELSE Most(at)

\* There is no tag in raw: what is not held goes to the block or out.
ScanRest ==
    /\ pc = "scan"
    /\ TagStarts(raw) = {}
    /\ LET cut  == HeldFrom(raw)
           free == SubSeq(raw, 1, cut - 1)
       IN /\ buf' = SubSeq(raw, cut, Len(raw))
          /\ IF inside THEN reasoning' = reasoning \o free /\ UNCHANGED out
                       ELSE out' = out \o As("token", free) /\ UNCHANGED reasoning
    /\ raw' = <<>>
    /\ pc' = "idle"
    /\ UNCHANGED <<text, pos, inside, tags>>

\* Mutant: what is held at the end is taken for text.
FlushAsText ==
    /\ pc = "idle"
    /\ pos = Len(Chars)
    /\ out' = out \o As("token", reasoning \o buf)
    /\ reasoning' = <<>>
    /\ buf' = <<>>
    /\ pc' = "flushed"
    /\ UNCHANGED <<text, pos, raw, inside, tags>>

\* flush, when the stream has ended.
Flush ==
    /\ pc = "idle"
    /\ pos = Len(Chars)
    /\ out' = out \o As(IF inside THEN "reasoning" ELSE "token", reasoning \o buf)
    /\ reasoning' = <<>>
    /\ buf' = <<>>
    /\ pc' = "flushed"
    /\ UNCHANGED <<text, pos, raw, inside, tags>>

Done == pc = "flushed" /\ UNCHANGED vars

Next == Feed \/ ScanOpen \/ ScanClose \/ ScanRest \/ Flush \/ Done

Spec == Init /\ [][Next]_vars

-----------------------------------------------------------------------------
(* Properties                                                              *)

TypeOK ==
    /\ pos \in 0..Len(Chars)
    /\ inside \in BOOLEAN
    /\ pc \in {"idle", "scan", "flushed"}
    /\ tags \in Nat
    /\ ~inside => reasoning = <<>>

\* The pieces before k leave the reader inside a block.
Within(k) == LET before == {j \in 1..(k - 1) : text[j] \in TagNames}
             IN before # {} /\ text[Most(before)] \in Opens

\* Open and close tags take turns, and each is short enough for its longest
\* proper beginning to be held (<think>, <thinking>, <thought>; not the antml:
\* and antthinking forms).
WellFormed ==
    \A k \in DOMAIN text : text[k] \in TagNames =>
        /\ Lengths[text[k]] - 1 <= HoldMax
        /\ (text[k] \in Opens) = ~Within(k)

\* Every character outside a block is a token and every one inside it is
\* reasoning, in order, however the text was cut into deltas.
SplitAsWritten ==
    pc = "flushed" /\ WellFormed =>
        out = FlattenSeq([k \in DOMAIN text |->
                 IF text[k] \in TagNames THEN <<>>
                 ELSE As(IF Within(k) THEN "reasoning" ELSE "token", Spelled(text[k], k))])

\* For any text, tags in any order, the state is well typed, nothing is lost
\* and nothing comes twice; and text outside a block reaches the user at once,
\* no more than the beginning of one tag being held back.
NothingLost ==
    /\ TypeOK
    /\ Len(out) + Len(reasoning) + Len(buf) + Len(raw) + tags = pos
    /\ Len(buf) <= HoldMax

=============================================================================
