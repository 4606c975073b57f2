------------------------------- MODULE TextEdits -------------------------------
(***************************************************************************)
(* Applying the chunks of a fixit, a format or a rename to the buffer of   *)
(* the current window: ReplaceChunksInBuffer, SplitLines and ReplaceChunk  *)
(* of vimsupport.py.  A text is a sequence of lines, a line a sequence of  *)
(* characters.  ycmd counts a newline at the end of the last line, which   *)
(* the buffer does not have, so a chunk may reach one line too far.        *)
(*                                                                         *)
(* The reference is the text with that newline as one sequence, in which   *)
(* all chunks are applied at once.                                         *)
(*                                                                         *)
(* Blanks are the characters of a line that rstrip() takes away.           *)
(***************************************************************************)
EXTENDS Integers, SequencesExt

CONSTANTS
  Characters,
  Blanks,        \* spaces, tabs and their like
  Texts,         \* buffers to edit
  Replacements,  \* replacement texts, as SplitLines splits them
  MaxChunks,     \* bound: chunks of one edit
  NotApplied

Newline == "\n"

ASSUME CharactersAssumption == Newline \notin Characters /\ Blanks \subseteq Characters
ASSUME TextsAssumption == \A t \in Texts : t \in Seq(Seq(Characters)) /\ t # <<>>
ASSUME ReplacementsAssumption == \A r \in Replacements : r \in Seq(Seq(Characters)) /\ r # <<>>
ASSUME ChunksAssumption == MaxChunks \in Nat

VARIABLES
  text,     \* the lines of the buffer
  caret,    \* the cursor of the current window
  applied   \* history: text, cursor and chunks of the edit

edits == <<text, caret, applied>>

-----------------------------------------------------------------------------
(* Positions are (line, column) as in the chunks, counted from 1.          *)
Place(line, column) == [line |-> line, column |-> column]

PlacesIn(lines) ==
  UNION {{Place(l, c) : c \in 1..Len(lines[l]) + 1} : l \in DOMAIN lines}

AtOrBefore(p, q) == p.line < q.line \/ (p.line = q.line /\ p.column <= q.column)

-----------------------------------------------------------------------------
(* A sequence without what it has of S at its end. *)
Trimmed(seq, S) ==
  SubSeq(seq, 1, Min({n \in 0..Len(seq) : \A o \in n + 1 .. Len(seq) : seq[o] \in S}))

(* replacement_text.rstrip() *)
Stripped(lines) ==
  LET bare == [l \in DOMAIN lines |-> Trimmed(lines[l], Blanks)]
      last == Max({1} \union {l \in DOMAIN lines : bare[l] # <<>>})
  IN Append(SubSeq(lines, 1, last - 1), bare[last])

(* The chunk with its ends in the buffer. *)
Within(chunk, lines) ==
  LET last == Len(lines)
      ended == IF chunk.end.line <= last THEN chunk
               ELSE [chunk EXCEPT !.end = Place(last, Len(lines[last]) + 1),
                                  !.lines = Stripped(@)]
  IN IF ended.start.line <= last THEN ended
     ELSE [ended EXCEPT !.start = Place(last, 1), !.lines = <<lines[last]>> \o @]

(* The new lines for those from chunk.start.line to chunk.end.line.        *)
Joined(chunk, lines) ==
  LET before == SubSeq(lines[chunk.start.line], 1, chunk.start.column - 1)
      endLine == lines[chunk.end.line]
      after == SubSeq(endLine, chunk.end.column, Len(endLine))
      first == [chunk.lines EXCEPT ![1] = before \o @]
  IN [first EXCEPT ![Len(first)] = @ \o after]

(* External: where Vim leaves the cursor when lines lo..hi become n lines. *)
FixedCursor(p, lo, hi, n) ==
  CASE p.line > hi -> [p EXCEPT !.line = @ + n - (hi - lo + 1)]
    [] lo <= p.line /\ p.line <= hi /\ n < hi - lo + 1 -> [p EXCEPT !.line = lo]
    [] OTHER -> p

Clipped(p, lines) ==
  IF p.column > Len(lines[p.line]) + 1 THEN [p EXCEPT !.column = Len(lines[p.line]) + 1] ELSE p

ReplaceChunk(state, chunk) ==
  LET lines == state.text
      c == Within(chunk, lines)
      new == Joined(c, lines)
      replaced == SubSeq(lines, 1, c.start.line - 1) \o new
                    \o SubSeq(lines, c.end.line + 1, Len(lines))
      moved == IF state.caret.line = c.end.line /\ state.caret.column >= c.end.column
               THEN Place(c.start.line + Len(new) - 1,
                          state.caret.column + Len(new[Len(new)]) - Len(lines[c.end.line]))
               ELSE FixedCursor(state.caret, c.start.line, c.end.line, Len(new))
  IN [text |-> replaced, caret |-> Clipped(moved, replaced)]

(* The numbers of the chunks, so that one is later than another in Order. *)
Sorted(chunks, Order(_, _)) ==
  CHOOSE order \in SetToSeqs(DOMAIN chunks) :
    \A k, l \in DOMAIN order : k < l => Order(order[k], order[l])

(* Mutant: chunks that start together are taken in their order. *)
BottomUpInOrder(chunks) ==
  Sorted(chunks, LAMBDA i, j :
    IF chunks[i].start = chunks[j].start THEN i < j
    ELSE AtOrBefore(chunks[j].start, chunks[i].start))

(* chunks.reverse(), chunks.sort( reverse = True ) *)
BottomUp(chunks) ==
  Sorted(chunks, LAMBDA i, j :
    IF chunks[i].start = chunks[j].start THEN i > j
    ELSE AtOrBefore(chunks[j].start, chunks[i].start))

Edited(state, chunks) ==
  FoldLeft(LAMBDA edited, i : ReplaceChunk(edited, chunks[i]), state, BottomUp(chunks))

ReplaceChunksInBuffer(chunks) ==
  LET result == Edited([text |-> text, caret |-> caret], chunks)
  IN /\ text' = result.text /\ caret' = result.caret
     /\ applied' = [text |-> text, caret |-> caret, chunks |-> chunks]

-----------------------------------------------------------------------------
(* What ycmd may send: chunks that do not overlap, and of those that start *)
(* together, none with another one after it that takes text away.          *)
Ends(lines) == PlacesIn(lines) \union {Place(Len(lines) + 1, 1)}

ChunksFor(lines) ==
  {c \in [start : Ends(lines), end : Ends(lines), lines : Replacements] :
     AtOrBefore(c.start, c.end)}

Apart(c, d) == AtOrBefore(c.end, d.start)

Acceptable(chunks) ==
  \A i, j \in DOMAIN chunks : i < j =>
    IF chunks[i].start = chunks[j].start THEN chunks[i].end = chunks[i].start
    ELSE Apart(chunks[i], chunks[j]) \/ Apart(chunks[j], chunks[i])

ChunkLists(lines) ==
  {chunks \in UNION {[1..n -> ChunksFor(lines)] : n \in 1..MaxChunks} : Acceptable(chunks)}

ASSUME NotAppliedAssumption ==
  \A t \in Texts :
    NotApplied \notin [text : {t}, caret : PlacesIn(t), chunks : ChunkLists(t)]

InitEdits ==
  /\ text \in Texts /\ caret \in PlacesIn(text)
  /\ applied = NotApplied

NextEdits ==
  /\ applied = NotApplied
  /\ \E chunks \in ChunkLists(text) : ReplaceChunksInBuffer(chunks)

-----------------------------------------------------------------------------
(* The reference: in front of every place of the old text what is inserted *)
(* there, chunk by chunk, and then its character unless a chunk takes it.  *)
Flat(lines) == FlattenSeq([l \in DOMAIN lines |-> Append(lines[l], Newline)])

FlatOffset(lines, p) == Len(Flat(SubSeq(lines, 1, p.line - 1))) + p.column

(* What a chunk inserts; the last one, when it reaches past the text, ends *)
(* it, and does so without blanks and newlines.                            *)
IsLast(chunks, i) ==
  \A j \in DOMAIN chunks :
    IF chunks[j].start = chunks[i].start THEN j <= i
    ELSE AtOrBefore(chunks[j].start, chunks[i].start)

Insertion(lines, chunks, i) ==
  LET flat == Front(Flat(chunks[i].lines))
  IN IF chunks[i].end.line > Len(lines) /\ IsLast(chunks, i)
     THEN Trimmed(flat, Blanks \union {Newline}) ELSE flat

Inserted(lines, chunks, offset) ==
  FlattenSeq([i \in DOMAIN chunks |->
    IF FlatOffset(lines, chunks[i].start) = offset THEN Insertion(lines, chunks, i) ELSE <<>>])

Kept(lines, chunks, offset) ==
  /\ offset <= Len(Flat(lines))
  /\ \A i \in DOMAIN chunks :
       offset \notin FlatOffset(lines, chunks[i].start) .. FlatOffset(lines, chunks[i].end) - 1

UpTo(lines, chunks, last) ==
  FlattenSeq([o \in 1..last |-> Inserted(lines, chunks, o) \o
    (IF Kept(lines, chunks, o) THEN <<Flat(lines)[o]>> ELSE <<>>)])


EditsTypeOK ==
  /\ text # <<>> /\ caret \in PlacesIn(text)
  /\ applied # NotApplied => applied.text \in Texts

(* vimsupport.py: chunks that are applied one after the other, each at the *)
(* place it had in the old text, give the text they stand for together.    *)
(* When one reaches past the end, the last one is without blanks there and *)
(* a newline ends the text.  The cursor stays on its character if that is  *)
(* still there.                                                            *)
EditsAreApplied ==
  applied # NotApplied =>
    LET old == applied.text
        chunks == applied.chunks
        new == UpTo(old, chunks, Len(Flat(old)) + 1)
        at == FlatOffset(old, applied.caret)
        past == \E i \in DOMAIN chunks : chunks[i].end.line > Len(old)
    IN /\ Flat(text) = IF past THEN Append(new, Newline) ELSE new
       /\ Kept(old, chunks, at) /\ (past => at < Len(Flat(old)))
            => FlatOffset(text, caret) = Len(UpTo(old, chunks, at))
=============================================================================
