----------------------- MODULE ProgressDisplayProofs -----------------------
(***************************************************************************)
(* Proofs about ProgressDisplay and LiveRows, for any packages, nodes,     *)
(* limits and numbers of lost frames: what the terminal shows, which rows  *)
(* are live, and how completions are counted.                              *)
(***************************************************************************)
EXTENDS ProgressDisplay, FiniteSetTheorems, SequenceTheorems, TLAPS

-----------------------------------------------------------------------------
(* The terminal. *)

Screens == [lines : Seq(Line), cursor : Nat]

\* A screen r is s with a text written over what was at the cursor.
Overwrites(r, s, text) ==
  /\ r \in Screens
  /\ r.cursor = s.cursor + Len(text) /\ r.cursor <= Len(r.lines)
  /\ \A i \in 1 .. s.cursor : r.lines[i] = s.lines[i]
  /\ \A i \in 1 .. Len(text) : r.lines[s.cursor + i] = text[i]
  /\ \A i \in s.cursor + Len(text) + 1 .. Len(r.lines) :
       i <= Len(s.lines) /\ r.lines[i] = s.lines[i]

\* Lines written at the cursor replace what was there and nothing else.
LEMMA PutFacts ==
  ASSUME NEW s \in Screens, s.cursor <= Len(s.lines), NEW text \in Seq(Line)
  PROVE  Overwrites(Put(s, text), s, text)
<1> DEFINE c == s.cursor
           k == Len(text)
           n == Len(s.lines)
           above == SubSeq(s.lines, 1, c)
           below == SubSeq(s.lines, c + k + 1, n)
           both == above \o text
<1>1. /\ s.lines \in Seq(Line) /\ c \in Nat /\ k \in Nat /\ n \in Nat /\ c <= n
      /\ s.lines \in [1 .. n -> Line] /\ text \in [1 .. k -> Line]
  BY DEF Screens
<1>2. /\ above \in Seq(Line) /\ Len(above) = c
      /\ \A i \in 1 .. c : above[i] = s.lines[i]
  BY <1>1
<1>3. /\ below \in Seq(Line) /\ Len(below) \in Nat
      /\ c + k + Len(below) <= n \/ Len(below) = 0
      /\ \A i \in 1 .. Len(below) : below[i] = s.lines[c + k + i]
  <2>1. c + k + 1 \in Int /\ n \in Int /\ \A i \in c + k + 1 .. n : s.lines[i] \in Line
    BY <1>1
  <2>2. /\ below \in Seq(Line) /\ Len(below) = IF c + k + 1 <= n THEN n - (c + k + 1) + 1 ELSE 0
        /\ \A i \in 1 .. n - (c + k + 1) + 1 : below[i] = s.lines[c + k + 1 + i - 1]
    BY <2>1, SubSeqProperties
  <2> HIDE DEF below
  <2>3. Len(below) \in Nat /\ (c + k + Len(below) <= n \/ Len(below) = 0)
    BY <1>1, <2>2
  <2>4. ASSUME NEW i \in 1 .. Len(below) PROVE below[i] = s.lines[c + k + i]
    <3>1. i \in 1 .. n - (c + k + 1) + 1 /\ c + k + 1 + i - 1 = c + k + i
      BY <1>1, <2>2
    <3> QED
      BY <2>2, <3>1
  <2> QED
    BY <2>2, <2>3, <2>4
<1> HIDE DEF above, below
<1>4. /\ both \in Seq(Line) /\ Len(both) = c + k
      /\ \A i \in 1 .. c + k : both[i] = IF i <= c THEN above[i] ELSE text[i - c]
  <2>1. /\ both \in Seq(Line) /\ Len(both) = Len(above) + Len(text)
        /\ \A i \in 1 .. Len(above) + Len(text) :
             both[i] = IF i <= Len(above) THEN above[i] ELSE text[i - Len(above)]
    BY <1>2, ConcatProperties
  <2> HIDE DEF both
  <2> QED
    BY <1>2, <2>1
<1> HIDE DEF both
<1>5. /\ both \o below \in Seq(Line) /\ Len(both \o below) = c + k + Len(below)
      /\ \A i \in 1 .. c + k + Len(below) :
           (both \o below)[i] = IF i <= c + k THEN both[i] ELSE below[i - (c + k)]
  <2> DEFINE all == both \o below
  <2>1. /\ all \in Seq(Line) /\ Len(all) = Len(both) + Len(below)
        /\ \A i \in 1 .. Len(both) + Len(below) :
             all[i] = IF i <= Len(both) THEN both[i] ELSE below[i - Len(both)]
    BY <1>3, <1>4, ConcatProperties
  <2> HIDE DEF all
  <2>2. /\ all \in Seq(Line) /\ Len(all) = c + k + Len(below)
        /\ \A i \in 1 .. c + k + Len(below) :
             all[i] = IF i <= c + k THEN both[i] ELSE below[i - (c + k)]
    BY <1>4, <2>1
  <2> QED
    BY <2>2 DEF all
<1> DEFINE r == Put(s, text)
<1>6. r = [lines |-> both \o below, cursor |-> c + k]
  BY DEF Put, both, above, below
<1>7. /\ r \in Screens /\ r.cursor = c + k /\ Len(r.lines) = c + k + Len(below)
      /\ \A i \in 1 .. c + k + Len(below) :
           r.lines[i] = IF i <= c + k THEN both[i] ELSE below[i - (c + k)]
  BY <1>1, <1>5, <1>6 DEF Screens
<1> HIDE DEF r, c, k, n
<1>8. ASSUME NEW i \in 1 .. c PROVE r.lines[i] = s.lines[i]
  <2>1. i \in 1 .. c + k /\ i \in 1 .. c + k + Len(below) /\ i <= c + k /\ i <= c
    BY <1>1, <1>3
  <2> QED
    BY <1>2, <1>4, <1>7, <2>1
<1>9. ASSUME NEW i \in 1 .. k PROVE r.lines[c + i] = text[i]
  <2>1. /\ c + i \in 1 .. c + k /\ c + i \in 1 .. c + k + Len(below)
        /\ c + i <= c + k /\ ~ (c + i <= c) /\ c + i - c = i
    BY <1>1, <1>3
  <2> DEFINE j == c + i
  <2>2. j \in 1 .. c + k /\ ~ (j <= c) /\ j - c = i
    BY <1>1, <2>1
  <2> HIDE DEF j
  <2>3. both[j] = text[j - c]
    BY <1>4, <2>2
  <2>4. r.lines[j] = both[j]
    BY <1>1, <1>7, <2>1 DEF j
  <2> QED
    BY <2>2, <2>3, <2>4 DEF j
<1>10. ASSUME NEW i \in c + k + 1 .. Len(r.lines) PROVE i <= n /\ r.lines[i] = s.lines[i]
  <2>1. /\ i \in 1 .. c + k + Len(below) /\ ~ (i <= c + k) /\ i - (c + k) \in 1 .. Len(below)
        /\ c + k + (i - (c + k)) = i /\ i <= n
    BY <1>1, <1>3, <1>7
  <2> QED
    BY <1>3, <1>7, <2>1
<1>11. r.cursor <= Len(r.lines)
  BY <1>1, <1>3, <1>7
<1> QED
  BY <1>7, <1>8, <1>9, <1>10, <1>11 DEF Overwrites, c, k, n, r

\* The screen holds the printed lines, a block under them, then nothing.
Holds(s, printed, block) ==
  /\ s \in Screens
  /\ s.cursor = Len(printed) + Len(block) /\ s.cursor <= Len(s.lines)
  /\ \A i \in 1 .. Len(printed) : s.lines[i] = printed[i]
  /\ \A i \in 1 .. Len(block) : s.lines[Len(printed) + i] = block[i]
  /\ \A i \in s.cursor + 1 .. Len(s.lines) : s.lines[i] = Blank

\* Moving up over the block.
LEMMA UpFacts ==
  ASSUME NEW s \in Screens, NEW n \in Nat, n <= s.cursor
  PROVE  Up(s, n) \in Screens /\ Up(s, n).cursor = s.cursor - n /\ Up(s, n).lines = s.lines
BY DEF Up, Min2, Screens

\* Blank lines are lines.
LEMMA BlanksFacts ==
  ASSUME NEW n \in Nat
  PROVE  /\ Blanks(n) \in Seq(Line) /\ Len(Blanks(n)) = n
         /\ \A i \in 1 .. n : Blanks(n)[i] = Blank
BY DEF Blanks, Line

\* Erasing leaves the printed lines, with the cursor below them.
LEMMA ErasedFacts ==
  ASSUME NEW s, NEW printed \in Seq(Line), NEW block \in Seq(Line), Holds(s, printed, block)
  PROVE  Holds(Erased(s, Len(block)), printed, <<>>)
<1> DEFINE n == Len(block)
           k == Len(printed)
           up == Up(s, n)
           put == Put(up, Blanks(n))
<1>1. n \in Nat /\ k \in Nat /\ s \in Screens /\ s.cursor = k + n /\ s.cursor <= Len(s.lines)
      /\ Len(s.lines) \in Nat
  BY DEF Holds, Screens
<1>2. up \in Screens /\ up.cursor = k /\ up.lines = s.lines
  BY <1>1, UpFacts
<1>3. /\ put \in Screens /\ put.cursor = k + n /\ put.cursor <= Len(put.lines)
      /\ \A i \in 1 .. k : put.lines[i] = s.lines[i]
      /\ \A i \in 1 .. n : put.lines[k + i] = Blanks(n)[i]
      /\ \A i \in k + n + 1 .. Len(put.lines) :
           i <= Len(s.lines) /\ put.lines[i] = s.lines[i]
  <2> HIDE DEF up
  <2>1. up.cursor <= Len(up.lines)
    BY <1>1, <1>2
  <2>2. Blanks(n) \in Seq(Line) /\ Len(Blanks(n)) = n
    BY <1>1, BlanksFacts
  <2>3. Overwrites(put, up, Blanks(n))
    BY <1>2, <2>1, <2>2, PutFacts
  <2> HIDE DEF put
  <2> QED
    BY <1>2, <2>2, <2>3 DEF Overwrites
<1> HIDE DEF put
<1>4. Up(put, n) \in Screens /\ Up(put, n).cursor = k /\ Up(put, n).lines = put.lines
  BY <1>1, <1>3, UpFacts
<1>5. Erased(s, n) = Up(put, n)
  BY DEF Erased, put, up
<1>6. \A i \in k + 1 .. Len(put.lines) : put.lines[i] = Blank
  <2> SUFFICES ASSUME NEW i \in k + 1 .. Len(put.lines) PROVE put.lines[i] = Blank
    OBVIOUS
  <2>1. CASE i <= k + n
    <3>1. i - k \in 1 .. n /\ k + (i - k) = i
      BY <1>1, <2>1
    <3> QED
      BY <1>1, <1>3, <3>1, BlanksFacts
  <2>2. CASE i > k + n
    <3>1. i \in k + n + 1 .. Len(put.lines) /\ Len(put.lines) \in Nat
      BY <1>1, <1>3, <2>2 DEF Screens
    <3>2. i \in s.cursor + 1 .. Len(s.lines)
      BY <1>1, <1>3, <3>1
    <3> QED
      BY <1>3, <3>1, <3>2 DEF Holds
  <2> QED
    BY <1>1, <2>1, <2>2
<1>7. \A i \in 1 .. k : put.lines[i] = printed[i]
  BY <1>3 DEF Holds
<1>8. Len(<<>>) = 0 /\ k <= Len(put.lines) /\ k + 0 = k
  BY <1>1, <1>3 DEF Screens
<1> QED
  BY <1>1, <1>4, <1>5, <1>6, <1>7, <1>8 DEF Holds

\* A line printed below the printed lines is one more of them.
LEMMA LineFacts ==
  ASSUME NEW s, NEW printed \in Seq(Line), Holds(s, printed, <<>>), NEW line \in Line
  PROVE  Holds(Put(s, <<line>>), Append(printed, line), <<>>)
<1> DEFINE k == Len(printed)
           put == Put(s, <<line>>)
           more == Append(printed, line)
<1>1. k \in Nat /\ s \in Screens /\ s.cursor = k /\ s.cursor <= Len(s.lines)
      /\ Len(s.lines) \in Nat
  BY DEF Holds, Screens
<1>2. <<line>> \in Seq(Line) /\ Len(<<line>>) = 1 /\ <<line>>[1] = line
  OBVIOUS
<1>3. /\ put \in Screens /\ put.cursor = k + 1 /\ put.cursor <= Len(put.lines)
      /\ \A i \in 1 .. k : put.lines[i] = s.lines[i]
      /\ \A i \in 1 .. 1 : put.lines[k + i] = <<line>>[i]
      /\ \A i \in k + 1 + 1 .. Len(put.lines) :
           i <= Len(s.lines) /\ put.lines[i] = s.lines[i]
  <2>1. Overwrites(put, s, <<line>>)
    BY <1>1, <1>2, PutFacts
  <2> HIDE DEF put
  <2> QED
    BY <1>1, <1>2, <2>1 DEF Overwrites
<1> HIDE DEF put
<1>4. /\ Len(more) = k + 1 /\ more[k + 1] = line /\ \A i \in 1 .. k : more[i] = printed[i]
  OBVIOUS
<1> HIDE DEF more
<1>5. \A i \in 1 .. k + 1 : put.lines[i] = more[i]
  <2> SUFFICES ASSUME NEW i \in 1 .. k + 1 PROVE put.lines[i] = more[i]
    OBVIOUS
  <2>1. CASE i = k + 1
    BY <1>2, <1>3, <1>4, <2>1
  <2>2. CASE i # k + 1
    <3>1. i \in 1 .. k
      BY <1>1, <2>2
    <3> QED
      BY <1>3, <1>4, <3>1 DEF Holds
  <2> QED
    BY <2>1, <2>2
<1>6. \A i \in k + 1 + 1 .. Len(put.lines) : put.lines[i] = Blank
  <2> SUFFICES ASSUME NEW i \in k + 1 + 1 .. Len(put.lines) PROVE put.lines[i] = Blank
    OBVIOUS
  <2>1. i \in s.cursor + 1 .. Len(s.lines)
    BY <1>1, <1>3
  <2> QED
    BY <1>3, <2>1 DEF Holds
<1>7. Len(<<>>) = 0 /\ k + 1 + 0 = k + 1
  BY <1>1
<1> QED
  BY <1>1, <1>3, <1>4, <1>5, <1>6, <1>7 DEF Holds, put, more

\* A frame replaces the block by another, whatever the two heights are.
LEMMA FrameFacts ==
  ASSUME NEW s, NEW printed \in Seq(Line), NEW old \in Seq(Line), NEW block \in Seq(Line),
         Holds(s, printed, old)
  PROVE  Holds(Frame(s, Len(old), block), printed, block)
<1> DEFINE n == Len(old)
           m == Len(block)
           k == Len(printed)
           up == Up(s, n)
           put == Put(up, block)
           x == n - m
           cleared == Put(put, Blanks(x))
<1>1. n \in Nat /\ m \in Nat /\ k \in Nat /\ s \in Screens /\ s.cursor = k + n
      /\ s.cursor <= Len(s.lines) /\ Len(s.lines) \in Nat
  BY DEF Holds, Screens
<1>2. up \in Screens /\ up.cursor = k /\ up.lines = s.lines /\ up.cursor <= Len(up.lines)
  BY <1>1, UpFacts
<1> HIDE DEF up
<1>3. /\ put \in Screens /\ put.cursor = k + m /\ put.cursor <= Len(put.lines)
      /\ \A i \in 1 .. k : put.lines[i] = s.lines[i]
      /\ \A i \in 1 .. m : put.lines[k + i] = block[i]
      /\ \A i \in k + m + 1 .. Len(put.lines) :
           i <= Len(s.lines) /\ put.lines[i] = s.lines[i]
  <2>1. Overwrites(put, up, block)
    BY <1>2, PutFacts
  <2> HIDE DEF put
  <2> QED
    BY <1>2, <2>1 DEF Overwrites
<1>4. Frame(s, n, block) = IF x > 0 THEN Up(cleared, x) ELSE put
  BY DEF Frame, cleared, put, up
<1> HIDE DEF put
<1>5. Len(put.lines) \in Nat
  BY <1>3 DEF Screens
<1>6. \A i \in 1 .. k : s.lines[i] = printed[i]
  BY DEF Holds
<1>7. \A i \in k + n + 1 .. Len(s.lines) : s.lines[i] = Blank
  BY <1>1 DEF Holds
<1>8. CASE x > 0
  <2>1. x \in Nat /\ Blanks(x) \in Seq(Line) /\ Len(Blanks(x)) = x
        /\ \A i \in 1 .. x : Blanks(x)[i] = Blank
    <3>1. x \in Nat
      BY <1>1, <1>8
    <3> HIDE DEF x
    <3> QED
      BY <3>1, BlanksFacts
  <2>2. /\ cleared \in Screens /\ cleared.cursor = k + m + x
        /\ cleared.cursor <= Len(cleared.lines)
        /\ \A i \in 1 .. k + m : cleared.lines[i] = put.lines[i]
        /\ \A i \in 1 .. x : cleared.lines[k + m + i] = Blanks(x)[i]
        /\ \A i \in k + m + x + 1 .. Len(cleared.lines) :
             i <= Len(put.lines) /\ cleared.lines[i] = put.lines[i]
    <3>1. Overwrites(cleared, put, Blanks(x))
      BY <1>3, <2>1, PutFacts
    <3> HIDE DEF cleared, x
    <3> QED
      BY <1>3, <2>1, <3>1 DEF Overwrites
  <2> HIDE DEF cleared
  <2>3. /\ Up(cleared, x) \in Screens /\ Up(cleared, x).cursor = k + m
        /\ Up(cleared, x).lines = cleared.lines
    BY <1>1, <2>1, <2>2, UpFacts
  <2>4. k + m + x = k + n /\ Len(cleared.lines) \in Nat
    BY <1>1, <2>2 DEF Screens
  <2>5. \A i \in 1 .. k : cleared.lines[i] = printed[i]
    <3>1. \A i \in 1 .. k : i \in 1 .. k + m
      BY <1>1
    <3> QED
      BY <1>3, <1>6, <2>2, <3>1
  <2>6. \A i \in 1 .. m : cleared.lines[k + i] = block[i]
    <3>1. \A i \in 1 .. m : k + i \in 1 .. k + m
      BY <1>1
    <3> QED
      BY <1>3, <2>2, <3>1
  <2>7. \A i \in k + m + 1 .. Len(cleared.lines) : cleared.lines[i] = Blank
    <3> SUFFICES ASSUME NEW i \in k + m + 1 .. Len(cleared.lines)
                 PROVE  cleared.lines[i] = Blank
      OBVIOUS
    <3>1. CASE i <= k + m + x
      <4>1. i - (k + m) \in 1 .. x /\ k + m + (i - (k + m)) = i
        BY <1>1, <2>1, <3>1
      <4> QED
        BY <2>1, <2>2, <4>1
    <3>2. CASE i > k + m + x
      <4>1. i \in k + m + x + 1 .. Len(cleared.lines)
        BY <1>1, <2>1, <2>4, <3>2
      <4>2. i <= Len(put.lines) /\ cleared.lines[i] = put.lines[i]
        BY <2>2, <4>1
      <4>3. i \in k + m + 1 .. Len(put.lines)
        BY <1>1, <1>5, <2>4, <4>2
      <4>4. i <= Len(s.lines) /\ put.lines[i] = s.lines[i]
        BY <1>3, <4>3
      <4>5. i \in k + n + 1 .. Len(s.lines)
        BY <1>1, <2>4, <4>1, <4>4
      <4> QED
        BY <1>7, <4>2, <4>4, <4>5
    <3> QED
      BY <1>1, <2>1, <3>1, <3>2
  <2>8. k + m <= Len(cleared.lines)
    BY <1>1, <2>1, <2>2, <2>4
  <2> QED
    BY <1>4, <1>8, <2>3, <2>5, <2>6, <2>7, <2>8 DEF Holds
<1>9. CASE ~ (x > 0)
  <2>1. \A i \in k + m + 1 .. Len(put.lines) : put.lines[i] = Blank
    <3> SUFFICES ASSUME NEW i \in k + m + 1 .. Len(put.lines) PROVE put.lines[i] = Blank
      OBVIOUS
    <3>1. i <= Len(s.lines) /\ put.lines[i] = s.lines[i]
      BY <1>3
    <3>2. i \in k + n + 1 .. Len(s.lines)
      BY <1>1, <1>5, <1>9, <3>1
    <3> QED
      BY <1>7, <3>1, <3>2
  <2>2. \A i \in 1 .. k : put.lines[i] = printed[i]
    BY <1>3, <1>6
  <2> QED
    BY <1>3, <1>4, <1>9, <2>1, <2>2 DEF Holds
<1> QED
  BY <1>8, <1>9
-----------------------------------------------------------------------------
(* The steps of the UI. *)

\* A screen whose cursor is not below its lines.
Fits(s) == s \in Screens /\ s.cursor <= Len(s.lines)

\* Whatever was lost before, the cursor stays within the lines.
LEMMA FitFacts ==
  ASSUME NEW s, Fits(s), NEW n \in Nat, NEW text \in Seq(Line)
  PROVE  /\ Fits(Up(s, n)) /\ Fits(Put(s, text))
         /\ Fits(Erased(s, n)) /\ Fits(Frame(s, n, text))
<1>1. ASSUME NEW r, Fits(r), NEW m \in Nat PROVE Fits(Up(r, m))
  BY <1>1 DEF Fits, Up, Min2, Screens
<1>2. ASSUME NEW r, Fits(r), NEW t \in Seq(Line) PROVE Fits(Put(r, t))
  <2>1. Overwrites(Put(r, t), r, t)
    BY <1>2, PutFacts DEF Fits
  <2> QED
    BY <2>1 DEF Overwrites, Fits
<1>3. Fits(Erased(s, n))
  <2>1. Blanks(n) \in Seq(Line)
    BY BlanksFacts
  <2>2. Fits(Up(s, n))
    BY <1>1
  <2>3. Fits(Put(Up(s, n), Blanks(n)))
    BY <1>2, <2>1, <2>2
  <2> QED
    BY <1>1, <2>3 DEF Erased
<1>4. Fits(Frame(s, n, text))
  <2> DEFINE drawn == Put(Up(s, n), text)
             x == n - Len(text)
  <2>1. Fits(drawn)
    <3>1. Fits(Up(s, n))
      BY <1>1
    <3> QED
      BY <1>2, <3>1
  <2>2. CASE x > 0
    <3>1. x \in Nat
      BY <2>2
    <3> HIDE DEF x, drawn
    <3>2. Blanks(x) \in Seq(Line)
      BY <3>1, BlanksFacts
    <3>3. Fits(Put(drawn, Blanks(x)))
      BY <1>2, <2>1, <3>2
    <3>4. Fits(Up(Put(drawn, Blanks(x)), x))
      BY <1>1, <3>1, <3>3
    <3>5. Frame(s, n, text) = Up(Put(drawn, Blanks(x)), x)
      BY <2>2 DEF Frame, drawn, x
    <3> QED
      BY <3>4, <3>5
  <2>3. CASE ~ (x > 0)
    BY <2>1, <2>3 DEF Frame
  <2> QED
    BY <2>2, <2>3
<1> QED
  BY <1>1, <1>2, <1>3, <1>4

\* Printed lines are lines, and so are rows with what is active on them.
LEMMA LineTypes ==
  /\ \A s \in Seq(LogLine) : s \in Seq(Line)
  /\ \A rs \in Seq(Row) : \A nodes \in SUBSET Node :
       /\ Drawn(rs, nodes) \in Seq(Line) /\ Len(Drawn(rs, nodes)) = Len(rs)
       /\ rs = <<>> => Drawn(rs, nodes) = <<>>
<1>1. LogLine \subseteq Line
  BY DEF Line
<1>2. ASSUME NEW rs \in Seq(Row), NEW nodes \in SUBSET Node
      PROVE  /\ Drawn(rs, nodes) \in Seq(Line) /\ Len(Drawn(rs, nodes)) = Len(rs)
             /\ rs = <<>> => Drawn(rs, nodes) = <<>>
  <2> DEFINE shown(r) == <<"row", r, IF r[1] = "phase" THEN nodes ELSE {}>>
  <2>1. \A r \in Row : shown(r) \in Line
    BY DEF Line
  <2>2. DOMAIN rs = 1 .. Len(rs) /\ Len(rs) \in Nat /\ \A i \in 1 .. Len(rs) : rs[i] \in Row
    OBVIOUS
  <2>3. Drawn(rs, nodes) = [i \in 1 .. Len(rs) |-> shown(rs[i])]
    BY <2>2 DEF Drawn
  <2> HIDE DEF shown
  <2>4. \A i \in 1 .. Len(rs) : shown(rs[i]) \in Line
    BY <2>1, <2>2
  <2>5. /\ [i \in 1 .. Len(rs) |-> shown(rs[i])] \in Seq(Line)
        /\ Len([i \in 1 .. Len(rs) |-> shown(rs[i])]) = Len(rs)
    BY <2>2, <2>4
  <2>6. \A s \in Seq(Line) : Len(s) = 0 => s = <<>>
    BY EmptySeq
  <2>7. rs = <<>> => Len(rs) = 0
    OBVIOUS
  <2> QED
    BY <2>3, <2>5, <2>6, <2>7
<1> QED
  BY <1>1, <1>2

\* What is known of the display between two steps.
Shows ==
  /\ DisplayTypeOK /\ Fits(screen)
  /\ painted = Len(rows) /\ (~enabled => rows = <<>>)
  /\ losses = 0 => Holds(screen, log, Block)

\* A redraw paints the new block over a former one of the given height.
LEMMA RedrawFacts ==
  ASSUME DisplayTypeOK,
         NEW rs \in Seq(Row), NEW nodes \in SUBSET Node,
         NEW s, Fits(s), NEW n0 \in Nat,
         NEW printed \in Seq(Line), NEW old \in Seq(Line),
         losses + n0 = 0 => Holds(s, printed, old),
         enabled \/ (rs = <<>> /\ old = <<>> /\ painted = 0),
         Redraw(rs, nodes, s, Len(old), n0)
  PROVE  /\ rows' = rs /\ active' = nodes
         /\ painted' = Len(rs) /\ losses' \in Nat /\ Fits(screen')
         /\ losses' = 0 => losses + n0 = 0 /\ Holds(screen', printed, Drawn(rs, nodes))
<1> DEFINE block == Drawn(rs, nodes)
           n == Len(old)
<1>1. block \in Seq(Line) /\ (rs = <<>> => block = <<>>)
  BY LineTypes
<1>2. losses \in Nat /\ n \in Nat
  BY DEF DisplayTypeOK
<1>3. PICK lost \in BOOLEAN :
        /\ losses' = losses + n0 + (IF lost THEN 1 ELSE 0)
        /\ lost => enabled
        /\ painted' = IF enabled THEN Len(rs) ELSE painted
        /\ screen' = IF enabled /\ ~lost THEN Frame(s, n, block) ELSE s
  BY DEF Redraw
<1>4. rows' = rs /\ active' = nodes
  BY DEF Redraw
<1> HIDE DEF block
<1>5. painted' = Len(rs)
  BY <1>3
<1>6. Fits(screen')
  BY <1>1, <1>2, <1>3, FitFacts
<1>7. losses' \in Nat /\ (losses' = 0 => losses + n0 = 0 /\ ~lost)
  BY <1>2, <1>3
<1>8. ASSUME losses' = 0 PROVE Holds(screen', printed, block)
  <2>1. Holds(s, printed, old) /\ ~lost
    BY <1>7, <1>8
  <2>2. CASE enabled
    BY <1>1, <1>3, <2>1, <2>2, FrameFacts
  <2>3. CASE ~enabled
    BY <1>1, <1>3, <2>1, <2>3
  <2> QED
    BY <2>2, <2>3
<1> QED
  BY <1>4, <1>5, <1>6, <1>7, <1>8 DEF block

\* What is left of a sequence without its k-th element.
LEMMA RemoveAtFacts ==
  ASSUME NEW S, NEW s \in Seq(S), NEW k \in 1 .. Len(s)
  PROVE  /\ RemoveAt(s, k) \in Seq(S) /\ DOMAIN RemoveAt(s, k) = 1 .. Len(s) - 1
         /\ \A i \in 1 .. Len(s) - 1 : RemoveAt(s, k)[i] = IF i < k THEN s[i] ELSE s[i + 1]
<1> DEFINE n == Len(s)
           front == SubSeq(s, 1, k - 1)
           rear == SubSeq(s, k + 1, n)
           r == front \o rear
<1>1. n \in Nat /\ k \in Nat /\ 1 <= k /\ k <= n /\ \A i \in 1 .. n : s[i] \in S
  OBVIOUS
<1>2. /\ front \in Seq(S) /\ Len(front) = k - 1
      /\ \A i \in 1 .. k - 1 : front[i] = s[i]
  BY <1>1
<1>3. /\ rear \in Seq(S) /\ Len(rear) = n - k
      /\ \A i \in 1 .. n - k : rear[i] = s[k + i]
  <2>1. k + 1 \in Int /\ n \in Int /\ \A i \in k + 1 .. n : s[i] \in S
    BY <1>1
  <2>2. /\ rear \in Seq(S) /\ Len(rear) = IF k + 1 <= n THEN n - (k + 1) + 1 ELSE 0
        /\ \A i \in 1 .. n - (k + 1) + 1 : rear[i] = s[k + 1 + i - 1]
    BY <2>1, SubSeqProperties
  <2> HIDE DEF rear
  <2>3. Len(rear) = n - k
    BY <1>1, <2>2
  <2>4. ASSUME NEW i \in 1 .. n - k PROVE rear[i] = s[k + i]
    <3>1. i \in 1 .. n - (k + 1) + 1 /\ k + 1 + i - 1 = k + i
      BY <1>1
    <3> QED
      BY <2>2, <3>1
  <2> QED
    BY <2>2, <2>3, <2>4
<1> HIDE DEF front, rear, n
<1>4. /\ r \in Seq(S) /\ Len(r) = Len(front) + Len(rear)
      /\ \A i \in 1 .. Len(front) + Len(rear) :
           r[i] = IF i <= Len(front) THEN front[i] ELSE rear[i - Len(front)]
  BY <1>2, <1>3, ConcatProperties
<1> HIDE DEF r
<1>5. Len(r) = n - 1 /\ DOMAIN r = 1 .. n - 1
  BY <1>1, <1>2, <1>3, <1>4
<1>6. ASSUME NEW i \in 1 .. n - 1 PROVE r[i] = IF i < k THEN s[i] ELSE s[i + 1]
  <2>1. i \in 1 .. Len(front) + Len(rear)
    BY <1>1, <1>2, <1>3
  <2>2. CASE i < k
    <3>1. i <= Len(front) /\ i \in 1 .. k - 1
      BY <1>1, <1>2, <2>2
    <3> QED
      BY <1>2, <1>4, <2>1, <2>2, <3>1
  <2>3. CASE ~ (i < k)
    <3> DEFINE j == i - Len(front)
    <3>1. ~ (i <= Len(front)) /\ j \in 1 .. n - k /\ k + j = i + 1
      BY <1>1, <1>2, <2>3
    <3>2. r[i] = rear[j]
      BY <1>4, <2>1, <3>1
    <3> HIDE DEF j
    <3> QED
      BY <1>3, <2>3, <3>1, <3>2
  <2> QED
    BY <2>2, <2>3
<1>7. RemoveAt(s, k) = r
  BY DEF RemoveAt, r, front, rear, n
<1> QED
  BY <1>4, <1>5, <1>6, <1>7 DEF n

\* Taking an element out of a sequence without duplicates.
LEMMA RemoveFacts ==
  ASSUME NEW S, NEW s \in Seq(S), IsInjective(s), NEW e
  PROVE  /\ RemoveFirst(s, e) \in Seq(S)
         /\ ToSet(RemoveFirst(s, e)) = ToSet(s) \ {e}
         /\ IsInjective(RemoveFirst(s, e))
         /\ s = <<>> => RemoveFirst(s, e) = <<>>
<1> DEFINE n == Len(s)
<1>1. n \in Nat /\ DOMAIN s = 1 .. n /\ \A i \in 1 .. n : s[i] \in S
  OBVIOUS
<1>2. CASE \A i \in 1 .. n : s[i] # e
  <2>1. RemoveFirst(s, e) = s
    BY <1>2 DEF RemoveFirst
  <2> QED
    BY <1>1, <1>2, <2>1 DEF ToSet
<1>3. CASE \E i \in 1 .. n : s[i] = e
  <2>1. PICK k \in 1 .. n : s[k] = e
    BY <1>3
  <2>2. \A i \in 1 .. n : s[i] = e <=> i = k
    BY <1>1, <2>1 DEF IsInjective
  <2>3. SelectInSeq(s, LAMBDA v : v = e) = k
    <3>1. {i \in 1 .. Len(s) : s[i] = e} = {k}
      BY <2>2
    <3>2. Min({k}) = k
      BY <2>1 DEF Min
    <3> QED
      BY <3>1, <3>2 DEF SelectInSeq
  <2> DEFINE r == RemoveFirst(s, e)
  <2>4. r = RemoveAt(s, k)
    BY <1>3, <2>3 DEF RemoveFirst
  <2>5. /\ r \in Seq(S) /\ DOMAIN r = 1 .. n - 1
        /\ \A i \in 1 .. n - 1 : r[i] = IF i < k THEN s[i] ELSE s[i + 1]
    BY <1>1, <2>4, RemoveAtFacts
  <2> HIDE DEF r, n
  <2>6. \A i \in 1 .. n - 1 : /\ i < k => i \in 1 .. n /\ i # k
                             /\ ~ (i < k) => i + 1 \in 1 .. n /\ i + 1 # k
    BY <1>1, <2>1
  <2>7. \A i \in 1 .. n - 1 : r[i] \in ToSet(s) \ {e}
    BY <1>1, <2>2, <2>5, <2>6 DEF ToSet
  <2>8. ASSUME NEW j \in 1 .. n, s[j] # e PROVE \E i \in 1 .. n - 1 : r[i] = s[j]
    <3>1. CASE j < k
      <4>1. j \in 1 .. n - 1
        BY <1>1, <2>1, <3>1
      <4> QED
        BY <2>5, <3>1, <4>1
    <3>2. CASE ~ (j < k)
      <4>1. j # k
        BY <2>1, <2>8
      <4>2. j - 1 \in 1 .. n - 1 /\ ~ (j - 1 < k) /\ j - 1 + 1 = j
        BY <1>1, <2>1, <3>2, <4>1
      <4>3. r[j - 1] = s[j - 1 + 1]
        BY <2>5, <4>2
      <4> QED
        BY <4>2, <4>3
    <3> QED
      BY <3>1, <3>2
  <2>9. ToSet(r) = ToSet(s) \ {e}
    <3>1. \A x \in ToSet(r) : \E i \in 1 .. n - 1 : x = r[i]
      BY <2>5 DEF ToSet
    <3>2. \A x \in ToSet(s) : \E j \in 1 .. n : x = s[j]
      BY <1>1 DEF ToSet
    <3>3. \A i \in 1 .. n - 1 : r[i] \in ToSet(r)
      BY <2>5 DEF ToSet
    <3>4. ASSUME NEW x \in ToSet(s) \ {e} PROVE x \in ToSet(r)
      <4>1. PICK j \in 1 .. n : x = s[j]
        BY <3>2
      <4>2. \E i \in 1 .. n - 1 : r[i] = s[j]
        BY <2>8, <4>1
      <4> QED
        BY <3>3, <4>1, <4>2
    <3> QED
      BY <2>7, <3>1, <3>4
  <2>10. IsInjective(r)
    <3> SUFFICES ASSUME NEW i \in 1 .. n - 1, NEW j \in 1 .. n - 1, r[i] = r[j] PROVE i = j
      BY <2>5 DEF IsInjective
    <3> DEFINE at(l) == IF l < k THEN l ELSE l + 1
    <3>1. at(i) \in 1 .. n /\ at(j) \in 1 .. n
      BY <1>1, <2>1
    <3>2. r[i] = s[at(i)] /\ r[j] = s[at(j)]
      BY <2>5
    <3>3. at(i) = at(j)
      BY <1>1, <3>1, <3>2 DEF IsInjective
    <3> QED
      BY <1>1, <2>1, <3>3
  <2>11. s # <<>>
    BY <1>1, <2>1
  <2> QED
    BY <2>5, <2>9, <2>10, <2>11 DEF r
<1> QED
  BY <1>2, <1>3
\* The types of the tickers.
TickersOK ==
  /\ running \in BOOLEAN /\ ticker \in 0 .. MaxTickers /\ closed \subseteq Ticker
  /\ running => ticker \in Ticker
  /\ goroutine \in [Ticker -> {"none", "waiting", "ticked", "returned"}]

\* A step that only redraws leaves the display consistent.
LEMMA RedrawShows ==
  ASSUME Shows, TickersOK', UNCHANGED <<enabled, log>>,
         NEW rs \in Seq(Row), NEW nodes \in SUBSET Node, enabled \/ rs = <<>>,
         Redraw(rs, nodes, screen, painted, 0)
  PROVE  Shows' /\ rows' = rs /\ active' = nodes
<1> DEFINE old == Block
<1>1. /\ old \in Seq(Line) /\ Len(old) = painted /\ (~enabled => old = <<>>)
      /\ log \in Seq(Line)
  BY LineTypes DEF Block, Shows, DisplayTypeOK
<1>2. ~enabled => painted = 0
  BY DEF Shows
<1>3. losses + 0 = 0 => Holds(screen, log, old)
  BY DEF Shows, DisplayTypeOK
<1>4. Fits(screen) /\ DisplayTypeOK
  BY DEF Shows
<1> HIDE DEF old
<1>5. Redraw(rs, nodes, screen, Len(old), 0)
  BY <1>1
<1>6. enabled \/ (rs = <<>> /\ old = <<>> /\ painted = 0)
  BY <1>1, <1>2
<1>7. /\ rows' = rs /\ active' = nodes
      /\ painted' = Len(rs) /\ losses' \in Nat /\ Fits(screen')
      /\ losses' = 0 => losses + 0 = 0 /\ Holds(screen', log, Drawn(rs, nodes))
  BY <1>1, <1>3, <1>4, <1>5, <1>6, RedrawFacts
<1>8. Block' = Drawn(rs, nodes)
  BY <1>7 DEF Block
<1>9. DisplayTypeOK'
  BY <1>4, <1>7 DEF DisplayTypeOK, TickersOK, Fits, Screens
<1>10. losses' = 0 => Holds(screen', log', Block')
  BY <1>7, <1>8
<1> QED
  BY <1>7, <1>9, <1>10 DEF Shows

\* The display as it was.
LEMMA ShowsKept ==
  ASSUME Shows, UNCHANGED displayVars
  PROVE  Shows' /\ UNCHANGED <<enabled, rows, active, log>>
BY DEF Shows, DisplayTypeOK, Block, displayVars

\* A row appears at the end of the block, if rows are shown.
LEMMA StartRowFacts ==
  ASSUME Shows, NEW row \in Row, StartRow(row)
  PROVE  /\ Shows' /\ UNCHANGED <<enabled, active, log>>
         /\ rows' = IF enabled THEN Append(rows, row) ELSE rows
<1>1. CASE enabled
  <2>1. /\ EnsureRunning /\ Redraw(Append(rows, row), active, screen, painted, 0)
        /\ UNCHANGED <<enabled, closed, log>>
    BY <1>1 DEF StartRow
  <2>2. Append(rows, row) \in Seq(Row) /\ active \in SUBSET Node
    BY DEF Shows, DisplayTypeOK
  <2>3. TickersOK'
    <3>1. TickersOK /\ MaxTickers \in Nat
      BY RowsAssumption DEF TickersOK, Shows, DisplayTypeOK
    <3>2. CASE running
      BY <2>1, <3>1, <3>2 DEF EnsureRunning, TickersOK
    <3>3. CASE ~running
      <4>1. /\ running' = TRUE /\ ticker' = ticker + 1 /\ ticker < MaxTickers
            /\ goroutine' = [goroutine EXCEPT ![ticker + 1] = "waiting"] /\ closed' = closed
        BY <2>1, <3>3 DEF EnsureRunning
      <4>2. ticker' \in Ticker /\ ticker' \in 0 .. MaxTickers
        BY <3>1, <4>1 DEF TickersOK, Ticker
      <4>3. goroutine' \in [Ticker -> {"none", "waiting", "ticked", "returned"}]
        BY <3>1, <4>1 DEF TickersOK
      <4> QED
        BY <3>1, <4>1, <4>2, <4>3 DEF TickersOK
    <3> QED
      BY <3>2, <3>3
  <2> QED
    BY <1>1, <2>1, <2>2, <2>3, RedrawShows
<1>2. CASE ~enabled
  BY <1>2, ShowsKept DEF StartRow
<1> QED
  BY <1>1, <1>2 DEF Shows, DisplayTypeOK

\* A row disappears, and what was active on it.
LEMMA RemoveRowFacts ==
  ASSUME Shows, IsInjective(rows), NEW row \in Row, RemoveRow(row)
  PROVE  /\ Shows' /\ UNCHANGED <<enabled, log>>
         /\ rows' = IF enabled THEN RemoveFirst(rows, row) ELSE rows
         /\ active' = IF enabled /\ row[1] = "phase" THEN {} ELSE active
<1>1. CASE enabled
  <2> DEFINE nodes == IF row[1] = "phase" THEN {} ELSE active
  <2>1. /\ Redraw(RemoveFirst(rows, row), nodes, screen, painted, 0)
        /\ StopRunning \/ UNCHANGED <<running, closed>>
        /\ UNCHANGED <<enabled, ticker, goroutine, log>>
    BY <1>1 DEF RemoveRow
  <2>2. rows \in Seq(Row) /\ nodes \in SUBSET Node
    BY DEF Shows, DisplayTypeOK
  <2>3. RemoveFirst(rows, row) \in Seq(Row)
    BY <2>2, RemoveFacts
  <2>4. TickersOK'
    <3>1. TickersOK
      BY DEF TickersOK, Shows, DisplayTypeOK
    <3>2. CASE StopRunning
      BY <2>1, <3>1, <3>2 DEF StopRunning, TickersOK
    <3>3. CASE UNCHANGED <<running, closed>>
      BY <2>1, <3>1, <3>3 DEF TickersOK
    <3> QED
      BY <2>1, <3>2, <3>3
  <2> QED
    BY <1>1, <2>1, <2>2, <2>3, <2>4, RedrawShows
<1>2. CASE ~enabled
  BY <1>2, ShowsKept DEF RemoveRow
<1> QED
  BY <1>1, <1>2 DEF Shows, DisplayTypeOK

\* The activity of the phase row changes.
LEMMA SetActiveFacts ==
  ASSUME Shows, NEW nodes \in SUBSET Node, SetActive(nodes)
  PROVE  /\ Shows' /\ UNCHANGED <<enabled, rows, log>>
         /\ active' = IF enabled THEN nodes ELSE active
<1>1. CASE enabled
  <2>1. /\ Redraw(rows, nodes, screen, painted, 0)
        /\ UNCHANGED <<enabled, running, ticker, closed, goroutine, log>>
    BY <1>1 DEF SetActive
  <2>2. rows \in Seq(Row) /\ TickersOK'
    BY <2>1 DEF Shows, DisplayTypeOK, TickersOK
  <2> QED
    BY <1>1, <2>1, <2>2, RedrawShows
<1>2. CASE ~enabled
  BY <1>2, ShowsKept DEF SetActive
<1> QED
  BY <1>1, <1>2 DEF Shows, DisplayTypeOK

\* A tick may repaint, and changes nothing that is shown.
LEMMA TickerFacts ==
  ASSUME Shows, NEW t \in Ticker, Tick(t) \/ Repaint(t) \/ Return(t)
  PROVE  Shows' /\ UNCHANGED <<enabled, rows, active, log>>
<1>1. TickersOK' /\ UNCHANGED <<enabled, log>>
  <2>1. TickersOK
    BY DEF TickersOK, Shows, DisplayTypeOK
  <2>2. PICK v \in {"waiting", "ticked", "returned"} :
          goroutine' = [goroutine EXCEPT ![t] = v]
    BY DEF Tick, Repaint, Return
  <2>3. goroutine' \in [Ticker -> {"none", "waiting", "ticked", "returned"}]
    BY <2>1, <2>2 DEF TickersOK
  <2>4. UNCHANGED <<running, ticker, closed, enabled, log>>
    BY DEF Tick, Repaint, Return
  <2> QED
    BY <2>1, <2>3, <2>4 DEF TickersOK
<1>2. \/ Redraw(rows, active, screen, painted, 0)
      \/ UNCHANGED <<rows, active, painted, screen, losses>>
  BY DEF Tick, Repaint, Return
<1>3. rows \in Seq(Row) /\ active \in SUBSET Node /\ (enabled \/ rows = <<>>)
  BY DEF Shows, DisplayTypeOK
<1>4. CASE Redraw(rows, active, screen, painted, 0)
  BY <1>1, <1>3, <1>4, RedrawShows
<1>5. CASE UNCHANGED <<rows, active, painted, screen, losses>>
  BY <1>1, <1>5 DEF Shows, DisplayTypeOK, TickersOK, Block
<1> QED
  BY <1>2, <1>4, <1>5

\* A line goes above the block.
LEMMA PrintfFacts ==
  ASSUME Shows, NEW line \in LogLine, Printf(line)
  PROVE  Shows' /\ UNCHANGED <<enabled, rows, active>> /\ log' = Append(log, line)
<1>1. PICK lost \in BOOLEAN :
        Redraw(rows, active, Put(IF lost THEN screen ELSE Erased(screen, painted), <<line>>),
               0, IF lost THEN 1 ELSE 0)
  BY DEF Printf
<1> DEFINE s == Put(IF lost THEN screen ELSE Erased(screen, painted), <<line>>)
           n0 == IF lost THEN 1 ELSE 0
<1>2. /\ line \in Line /\ <<line>> \in Seq(Line)
      /\ log \in Seq(Line) /\ Append(log, line) \in Seq(Line) /\ Append(log, line) \in Seq(LogLine)
      /\ Block \in Seq(Line) /\ Len(Block) = painted
      /\ rows \in Seq(Row) /\ active \in SUBSET Node /\ losses \in Nat
  BY LineTypes DEF Line, Block, Shows, DisplayTypeOK
<1>3. Fits(s)
  <2>1. painted \in Nat /\ Fits(screen)
    BY DEF Shows, DisplayTypeOK
  <2>2. Fits(Erased(screen, painted))
    BY <1>2, <2>1, FitFacts
  <2>3. Fits(IF lost THEN screen ELSE Erased(screen, painted))
    BY <2>1, <2>2
  <2> QED
    BY <1>2, <2>3, FitFacts
<1>4. ASSUME losses + n0 = 0 PROVE Holds(s, Append(log, line), <<>>)
  <2>1. ~lost /\ losses = 0
    BY <1>2, <1>4
  <2>2. Holds(screen, log, Block)
    BY <2>1 DEF Shows
  <2>3. Holds(Erased(screen, painted), log, <<>>)
    BY <1>2, <2>2, ErasedFacts
  <2>4. Holds(Put(Erased(screen, painted), <<line>>), Append(log, line), <<>>)
    BY <1>2, <2>3, LineFacts
  <2> QED
    BY <2>1, <2>4
<1>5. <<>> \in Seq(Line) /\ Len(<<>>) = 0 /\ n0 \in Nat
  OBVIOUS
<1>6. enabled \/ (rows = <<>> /\ painted = 0)
  BY DEF Shows
<1>7. DisplayTypeOK
  BY DEF Shows
<1>8. Redraw(rows, active, s, Len(<<>>), n0)
  BY <1>1, <1>5
<1> HIDE DEF s, n0
<1>9. /\ rows' = rows /\ active' = active
      /\ painted' = Len(rows) /\ losses' \in Nat /\ Fits(screen')
      /\ losses' = 0 => losses + n0 = 0 /\ Holds(screen', Append(log, line), Drawn(rows, active))
  BY <1>2, <1>3, <1>4, <1>5, <1>6, <1>7, <1>8, RedrawFacts
<1>10. /\ log' = Append(log, line)
       /\ UNCHANGED <<enabled, running, ticker, closed, goroutine>>
  BY DEF Printf
<1>11. Block' = Drawn(rows, active)
  BY <1>9 DEF Block
<1>12. DisplayTypeOK'
  BY <1>2, <1>7, <1>9, <1>10 DEF DisplayTypeOK, Fits, Screens
<1>13. losses' = 0 => Holds(screen', log', Block')
  BY <1>9, <1>10, <1>11
<1> QED
  BY <1>6, <1>9, <1>10, <1>12, <1>13 DEF Shows

\* At the end the block is gone.
LEMMA StopFacts ==
  ASSUME Shows, Stop
  PROVE  /\ Shows' /\ UNCHANGED <<enabled, log>>
         /\ rows' = <<>> /\ active' = IF enabled THEN {} ELSE active
<1>1. CASE enabled
  <2>1. PICK lost \in BOOLEAN :
          /\ rows' = <<>> /\ active' = {} /\ painted' = 0
          /\ losses' = losses + (IF lost THEN 1 ELSE 0)
          /\ screen' = IF lost THEN screen ELSE Erased(screen, painted)
          /\ StopRunning /\ UNCHANGED <<enabled, ticker, goroutine, log>>
    BY <1>1 DEF Stop
  <2>2. /\ log \in Seq(Line) /\ Block \in Seq(Line) /\ Len(Block) = painted
        /\ losses \in Nat /\ painted \in Nat /\ Fits(screen)
    BY LineTypes DEF Block, Shows, DisplayTypeOK
  <2>3. Fits(screen')
    BY <2>1, <2>2, FitFacts
  <2>4. losses' \in Nat /\ (losses' = 0 => losses = 0 /\ ~lost)
    BY <2>1, <2>2
  <2>5. Block' = <<>>
    <3>1. <<>> \in Seq(Row) /\ {} \in SUBSET Node
      OBVIOUS
    <3>2. Drawn(<<>>, {}) = <<>>
      BY <3>1, LineTypes
    <3> QED
      BY <2>1, <3>2 DEF Block
  <2>6. ASSUME losses' = 0 PROVE Holds(screen', log', Block')
    <3>1. Holds(screen, log, Block) /\ ~lost
      BY <2>4, <2>6 DEF Shows
    <3>2. Holds(Erased(screen, painted), log, <<>>)
      BY <2>2, <3>1, ErasedFacts
    <3> QED
      BY <2>1, <2>5, <3>1, <3>2
  <2>7. DisplayTypeOK'
    <3>1. <<>> \in Seq(Row) /\ 0 \in Nat
      OBVIOUS
    <3> QED
      BY <2>1, <2>3, <2>4, <3>1 DEF DisplayTypeOK, Shows, StopRunning, Fits, Screens
  <2>8. painted' = Len(rows')
    BY <2>1
  <2> QED
    BY <1>1, <2>1, <2>3, <2>6, <2>7, <2>8 DEF Shows
<1>2. CASE ~enabled
  BY <1>2, ShowsKept DEF Stop, Shows
<1> QED
  BY <1>1, <1>2 DEF Shows, DisplayTypeOK
-----------------------------------------------------------------------------
(* What the screen holds, as one sequence or line by line. *)

LEMMA BlockFacts ==
  DisplayTypeOK => Block \in Seq(Line) /\ Len(Block) = Len(rows) /\ log \in Seq(Line)
BY LineTypes DEF DisplayTypeOK, Block

\* The lines above the cursor are the printed lines and the block.
LEMMA HoldsMeans ==
  ASSUME NEW s, Fits(s), NEW printed \in Seq(Line), NEW block \in Seq(Line),
         s.cursor = Len(printed) + Len(block)
  PROVE  Holds(s, printed, block) <=>
           /\ SubSeq(s.lines, 1, s.cursor) = printed \o block
           /\ \A i \in s.cursor + 1 .. Len(s.lines) : s.lines[i] = Blank
<1> DEFINE k == Len(printed)
           m == Len(block)
           c == s.cursor
           above == SubSeq(s.lines, 1, c)
           both == printed \o block
<1>1. /\ k \in Nat /\ m \in Nat /\ c \in Nat /\ c = k + m /\ c <= Len(s.lines)
      /\ s.lines \in Seq(Line) /\ Len(s.lines) \in Nat
  BY DEF Fits, Screens
<1>2. /\ above \in Seq(Line) /\ Len(above) = c
      /\ \A i \in 1 .. c : above[i] = s.lines[i]
  BY <1>1
<1>3. /\ both \in Seq(Line) /\ Len(both) = k + m
      /\ \A i \in 1 .. k + m : both[i] = IF i <= k THEN printed[i] ELSE block[i - k]
  BY ConcatProperties
<1> HIDE DEF above, both
<1>4. ASSUME \A i \in 1 .. k : s.lines[i] = printed[i],
             \A i \in 1 .. m : s.lines[k + i] = block[i]
      PROVE  above = both
  <2>1. ASSUME NEW i \in 1 .. c PROVE above[i] = both[i]
    <3>1. CASE i <= k
      <4>1. i \in 1 .. k
        BY <1>1, <3>1
      <4> QED
        BY <1>1, <1>2, <1>3, <1>4, <3>1, <4>1
    <3>2. CASE ~ (i <= k)
      <4>1. i - k \in 1 .. m /\ k + (i - k) = i
        BY <1>1, <3>2
      <4>2. s.lines[k + (i - k)] = block[i - k]
        BY <1>4, <4>1
      <4> QED
        BY <1>1, <1>2, <1>3, <3>2, <4>1, <4>2
    <3> QED
      BY <3>1, <3>2
  <2> QED
    BY <1>1, <1>2, <1>3, <2>1, SeqEqual
<1>5. ASSUME above = both
      PROVE  /\ \A i \in 1 .. k : s.lines[i] = printed[i]
             /\ \A i \in 1 .. m : s.lines[k + i] = block[i]
  <2>1. ASSUME NEW i \in 1 .. k PROVE s.lines[i] = printed[i]
    <3>1. i \in 1 .. c /\ i <= k
      BY <1>1
    <3> QED
      BY <1>1, <1>2, <1>3, <1>5, <3>1
  <2>2. ASSUME NEW i \in 1 .. m PROVE s.lines[k + i] = block[i]
    <3> DEFINE j == k + i
    <3>1. j \in 1 .. c /\ ~ (j <= k) /\ j - k = i
      BY <1>1
    <3> HIDE DEF j
    <3>2. s.lines[j] = block[j - k]
      BY <1>1, <1>2, <1>3, <1>5, <3>1
    <3> QED
      BY <3>1, <3>2 DEF j
  <2> QED
    BY <2>1, <2>2
<1> QED
  BY <1>1, <1>4, <1>5 DEF Holds, Fits, above, both

\* What the proofs of the steps call Shows is what the invariant says.
LEMMA ShowsMeans ==
  DisplayTypeOK => (Shows <=> ScreenInv)
<1> SUFFICES ASSUME DisplayTypeOK PROVE Shows <=> ScreenInv
  OBVIOUS
<1>1. Block \in Seq(Line) /\ Len(Block) = Len(rows) /\ log \in Seq(Line)
  BY BlockFacts
<1>2. screen \in Screens
  BY DEF DisplayTypeOK, Screens
<1>3. ASSUME Shows PROVE ScreenInv
  <2>1. Fits(screen) /\ painted = Len(rows) /\ (~enabled => rows = <<>>)
    BY <1>3 DEF Shows
  <2>2. losses = 0 => screen.cursor = Len(log) + Len(Block) /\ Holds(screen, log, Block)
    BY <1>3 DEF Shows, Holds
  <2>3. ScreenIsLogAndRows
    BY <1>1, <2>1, <2>2, HoldsMeans DEF ScreenIsLogAndRows
  <2> QED
    BY <1>1, <2>1, <2>2, <2>3 DEF ScreenInv, Fits
<1>4. ASSUME ScreenInv PROVE Shows
  <2>1. Fits(screen) /\ painted = Len(rows) /\ (~enabled => rows = <<>>)
    BY <1>2, <1>4 DEF ScreenInv, Fits
  <2>2. losses = 0 => screen.cursor = Len(log) + Len(Block)
    BY <1>1, <1>4 DEF ScreenInv
  <2>3. losses = 0 => Holds(screen, log, Block)
    BY <1>1, <1>4, <2>1, <2>2, HoldsMeans DEF ScreenInv, ScreenIsLogAndRows
  <2> QED
    BY <2>1, <2>3 DEF Shows
<1> QED
  BY <1>3, <1>4

-----------------------------------------------------------------------------
(* What each action of ProgressDisplay shows. *)

Quiet == Shows' /\ UNCHANGED <<enabled, rows, active, log>>

Adds(row) ==
  /\ Shows' /\ UNCHANGED <<enabled, active, log>>
  /\ rows' = IF enabled THEN Append(rows, row) ELSE rows

Drops(row) ==
  /\ Shows' /\ UNCHANGED <<enabled, log>>
  /\ rows' = IF enabled THEN RemoveFirst(rows, row) ELSE rows
  /\ active' = IF enabled /\ row[1] = "phase" THEN {} ELSE active

Activates(nodes) ==
  /\ Shows' /\ UNCHANGED <<enabled, rows, log>>
  /\ active' = IF enabled THEN nodes ELSE active

Says(line) ==
  /\ Shows' /\ UNCHANGED <<enabled, rows, active>>
  /\ line \in LogLine /\ log' = Append(log, line)

Clears ==
  /\ Shows' /\ UNCHANGED <<enabled, log>>
  /\ rows' = <<>> /\ active' = IF enabled THEN {} ELSE active

\* The members of the batch can be counted.
LEMMA MembersFinite ==
  TypeOK => IsFiniteSet(members) /\ Cardinality(members) \in Nat
BY DisplayAssumption, FS_Subset, FS_CardinalityType DEF TypeOK, SpanTypeOK

\* The rows, activity and lines each action leaves.
LEMMA Effects ==
  ASSUME Inv
  PROVE  /\ BeginLocal => Adds(<<"phase", Local>>)
         /\ EndLocal => Drops(<<"phase", Local>>)
         /\ \A n \in Node : /\ BeginNode(n) => Activates(active \union {n})
                            /\ EndNode(n) => Activates(active \ {n})
         /\ BeginBatch => IF Silent THEN Quiet ELSE Says(<<"batch", Cardinality(members)>>)
         /\ EndBatch => Quiet
         /\ Log => Says(<<"log", logs'>>)
         /\ End => IF failed = {} THEN Clears ELSE Quiet
         /\ \A p \in Package :
              /\ BeginPackage(p) => IF Silent THEN Quiet ELSE Adds(<<"package", p>>)
              /\ FetchReturns(p) => \/ Quiet /\ failed' = failed
                                    \/ Says(<<"error", p>>) /\ failed' = failed \union {p}
              /\ RetireRow(p) => IF Silent THEN Quiet ELSE Drops(<<"package", p>>)
              /\ CountPackage(p) => Quiet
              /\ PrintPackage(p) => Says(<<"package", p, Mark(p), count[p]>>)
              /\ BeginAudit(p) => Adds(<<"phase", p>>)
              /\ EndAudit(p) => Drops(<<"phase", p>>)
              /\ CountAudit(p) => Quiet
              /\ PrintAudit(p) => Says(<<"audit", p, count[p]>>)
         /\ \A t \in Ticker : Tick(t) \/ Repainter(t) => Quiet
         /\ UNCHANGED vars => Quiet
<1>1. Shows /\ IsInjective(rows) /\ TypeOK /\ active \subseteq Node
  BY ShowsMeans DEF Inv, TypeOK, DisplayTypeOK, RowsAreOpenSpans
<1>2. \A row \in Row : /\ StartRow(row) => Adds(row)
                       /\ RemoveRow(row) => Drops(row)
  BY <1>1, StartRowFacts, RemoveRowFacts DEF Adds, Drops
<1>3. \A nodes \in SUBSET Node : SetActive(nodes) => Activates(nodes)
  BY <1>1, SetActiveFacts DEF Activates
<1>4. \A line \in LogLine : Printf(line) => Says(line)
  BY <1>1, PrintfFacts DEF Says
<1>5. UNCHANGED displayVars => Quiet
  BY <1>1, ShowsKept DEF Quiet
<1>6. /\ \A p \in {Local} \union Package : <<"phase", p>> \in Row
      /\ \A p \in Package : <<"package", p>> \in Row
  BY DEF Row
<1>7. BeginLocal => Adds(<<"phase", Local>>)
  BY <1>2, <1>6 DEF BeginLocal
<1>8. EndLocal => Drops(<<"phase", Local>>)
  BY <1>2, <1>6 DEF EndLocal
<1>9. ASSUME NEW n \in Node
      PROVE  /\ BeginNode(n) => Activates(active \union {n})
             /\ EndNode(n) => Activates(active \ {n})
  <2>1. active \union {n} \in SUBSET Node /\ active \ {n} \in SUBSET Node
    BY <1>1
  <2>2. BeginNode(n) => SetActive(active \union {n})
    BY DEF BeginNode, AddActive
  <2>3. EndNode(n) => SetActive(active \ {n})
    BY DEF EndNode, RemoveActive
  <2> QED
    BY <1>3, <2>1, <2>2, <2>3
<1>10. BeginBatch => IF Silent THEN Quiet ELSE Says(<<"batch", Cardinality(members)>>)
  <2>1. <<"batch", Cardinality(members)>> \in LogLine
    BY <1>1, MembersFinite DEF LogLine
  <2> QED
    BY <1>4, <1>5, <2>1 DEF BeginBatch
<1>11. EndBatch => Quiet
  BY <1>5 DEF EndBatch, displayVars
<1>12. Log => Says(<<"log", logs'>>)
  <2>1. logs + 1 \in Nat
    BY <1>1 DEF TypeOK, SpanTypeOK
  <2>2. <<"log", logs + 1>> \in LogLine
    BY <2>1 DEF LogLine
  <2> QED
    BY <1>4, <2>2 DEF Log
<1>13. End => IF failed = {} THEN Clears ELSE Quiet
  <2>1. Stop => Clears
    BY <1>1, StopFacts DEF Clears
  <2> QED
    BY <1>5, <2>1 DEF End
<1>14. ASSUME NEW p \in Package
       PROVE  /\ BeginPackage(p) => IF Silent THEN Quiet ELSE Adds(<<"package", p>>)
              /\ FetchReturns(p) => \/ Quiet /\ failed' = failed
                                    \/ Says(<<"error", p>>) /\ failed' = failed \union {p}
              /\ RetireRow(p) => IF Silent THEN Quiet ELSE Drops(<<"package", p>>)
              /\ CountPackage(p) => Quiet
              /\ PrintPackage(p) => Says(<<"package", p, Mark(p), count[p]>>)
  <2>1. /\ <<"package", p, Mark(p), count[p]>> \in LogLine
        /\ <<"error", p>> \in LogLine
    <3>1. count[p] \in Nat /\ Mark(p) \in {"ok", "error"}
      BY <1>1 DEF TypeOK, SpanTypeOK, Mark
    <3> QED
      BY <3>1 DEF LogLine
  <2>2. BeginPackage(p) => IF Silent THEN Quiet ELSE Adds(<<"package", p>>)
    BY <1>2, <1>5, <1>6 DEF BeginPackage
  <2>3. FetchReturns(p) => \/ Quiet /\ failed' = failed
                           \/ Says(<<"error", p>>) /\ failed' = failed \union {p}
    BY <1>4, <1>5, <2>1 DEF FetchReturns, displayVars
  <2>4. RetireRow(p) => IF Silent THEN Quiet ELSE Drops(<<"package", p>>)
    BY <1>2, <1>5, <1>6 DEF RetireRow
  <2>5. CountPackage(p) => Quiet
    BY <1>5 DEF CountPackage, displayVars
  <2>6. PrintPackage(p) => Says(<<"package", p, Mark(p), count[p]>>)
    BY <1>4, <2>1 DEF PrintPackage
  <2> QED
    BY <2>2, <2>3, <2>4, <2>5, <2>6
<1>15. ASSUME NEW p \in Package
       PROVE  /\ BeginAudit(p) => Adds(<<"phase", p>>)
              /\ EndAudit(p) => Drops(<<"phase", p>>)
              /\ CountAudit(p) => Quiet
              /\ PrintAudit(p) => Says(<<"audit", p, count[p]>>)
  <2>1. <<"audit", p, count[p]>> \in LogLine
    <3>1. count[p] \in Nat
      BY <1>1 DEF TypeOK, SpanTypeOK
    <3> QED
      BY <3>1 DEF LogLine
  <2>2. BeginAudit(p) => Adds(<<"phase", p>>)
    BY <1>2, <1>6 DEF BeginAudit
  <2>3. EndAudit(p) => Drops(<<"phase", p>>)
    BY <1>2, <1>6 DEF EndAudit
  <2>4. CountAudit(p) => Quiet
    BY <1>5 DEF CountAudit, displayVars
  <2>5. PrintAudit(p) => Says(<<"audit", p, count[p]>>)
    BY <1>4, <2>1 DEF PrintAudit
  <2> QED
    BY <2>2, <2>3, <2>4, <2>5
<1>16. ASSUME NEW t \in Ticker PROVE Tick(t) \/ Repainter(t) => Quiet
  BY <1>1, TickerFacts DEF Repainter, Quiet
<1>17. UNCHANGED vars => Quiet
  BY <1>5 DEF vars
<1> QED
  BY <1>7, <1>8, <1>9, <1>10, <1>11, <1>12, <1>13, <1>14, <1>15, <1>16, <1>17
-----------------------------------------------------------------------------
(* The spans. *)

\* Every action keeps the types of the spans.
LEMMA SpansTyped ==
  ASSUME Inv, [Next]_vars
  PROVE  SpanTypeOK'
<1>1. SpanTypeOK /\ \A p \in Package : package[p] # "waiting" => p \in members
  BY DEF Inv, TypeOK, NestingInv
<1>2. CASE BeginLocal
  BY <1>1, <1>2 DEF BeginLocal, SpanTypeOK
<1>3. CASE EndLocal
  BY <1>1, <1>3 DEF EndLocal, SpanTypeOK
<1>4. ASSUME NEW n \in Node, BeginNode(n) \/ EndNode(n) PROVE SpanTypeOK'
  BY <1>1, <1>4 DEF BeginNode, EndNode, SpanTypeOK
<1>5. CASE BeginBatch
  BY <1>1, <1>5 DEF BeginBatch, SpanTypeOK
<1>6. CASE EndBatch
  BY <1>1, <1>6 DEF EndBatch, SpanTypeOK
<1>7. CASE Log
  BY <1>1, <1>7 DEF Log, SpanTypeOK
<1>8. CASE End
  BY <1>1, <1>8 DEF End, SpanTypeOK
<1>9. ASSUME NEW p \in Package, BeginPackage(p) PROVE SpanTypeOK'
  BY <1>1, <1>9 DEF BeginPackage, SpanTypeOK
<1>10. ASSUME NEW p \in Package, FetchReturns(p) PROVE SpanTypeOK'
  <2>1. failed' \subseteq members
    BY <1>1, <1>10 DEF FetchReturns, SpanTypeOK
  <2> QED
    BY <1>1, <1>10, <2>1 DEF FetchReturns, SpanTypeOK
<1>11. ASSUME NEW p \in Package, RetireRow(p) PROVE SpanTypeOK'
  BY <1>1, <1>11 DEF RetireRow, SpanTypeOK
<1>12. ASSUME NEW p \in Package, CountPackage(p) PROVE SpanTypeOK'
  BY <1>1, <1>12 DEF CountPackage, SpanTypeOK
<1>13. ASSUME NEW p \in Package, PrintPackage(p) PROVE SpanTypeOK'
  BY <1>1, <1>13 DEF PrintPackage, SpanTypeOK
<1>14. ASSUME NEW p \in Package, BeginAudit(p) \/ EndAudit(p) PROVE SpanTypeOK'
  BY <1>1, <1>14 DEF BeginAudit, EndAudit, SpanTypeOK
<1>15. ASSUME NEW p \in Package, CountAudit(p) PROVE SpanTypeOK'
  BY <1>1, <1>15 DEF CountAudit, SpanTypeOK
<1>16. ASSUME NEW p \in Package, PrintAudit(p) PROVE SpanTypeOK'
  BY <1>1, <1>16 DEF PrintAudit, SpanTypeOK
<1>17. CASE UNCHANGED spanVars
  BY <1>1, <1>17 DEF spanVars, SpanTypeOK
<1> QED
  BY <1>2, <1>3, <1>4, <1>5, <1>6, <1>7, <1>8, <1>9, <1>10, <1>11, <1>12, <1>13, <1>14, <1>15,
     <1>16, <1>17 DEF Next, Reporting, Auditor, Ended, vars

\* Every action keeps the spans within their parents.
LEMMA SpansNested ==
  ASSUME Inv, [Next]_vars
  PROVE  NestingInv'
<1>1. /\ NestingInv /\ SpanTypeOK /\ Local \notin Package
      /\ Fetcher \in Node
  BY DisplayAssumption DEF Inv, TypeOK, Node
<1>2. CASE BeginLocal
  BY <1>1, <1>2 DEF BeginLocal, SpanTypeOK, NestingInv
<1>3. CASE EndLocal
  BY <1>1, <1>3 DEF EndLocal, SpanTypeOK, NestingInv
<1>4. ASSUME NEW n \in Node, BeginNode(n) \/ EndNode(n) PROVE NestingInv'
  BY <1>1, <1>4 DEF BeginNode, EndNode, SpanTypeOK, NestingInv
<1>5. CASE BeginBatch
  BY <1>1, <1>5 DEF BeginBatch, SpanTypeOK, NestingInv
<1>6. CASE EndBatch
  BY <1>1, <1>6 DEF EndBatch, SpanTypeOK, NestingInv
<1>7. CASE Log
  BY <1>1, <1>7 DEF Log, SpanTypeOK, NestingInv
<1>8. CASE End
  BY <1>1, <1>8 DEF End, SpanTypeOK, NestingInv
<1>9. ASSUME NEW p \in Package, BeginPackage(p) PROVE NestingInv'
  BY <1>1, <1>9 DEF BeginPackage, SpanTypeOK, NestingInv
<1>10. ASSUME NEW p \in Package, FetchReturns(p) PROVE NestingInv'
  BY <1>1, <1>10 DEF FetchReturns, SpanTypeOK, NestingInv
<1>11. ASSUME NEW p \in Package, RetireRow(p) PROVE NestingInv'
  BY <1>1, <1>11 DEF RetireRow, SpanTypeOK, NestingInv
<1>12. ASSUME NEW p \in Package, CountPackage(p) \/ PrintPackage(p) PROVE NestingInv'
  BY <1>1, <1>12 DEF CountPackage, PrintPackage, SpanTypeOK, NestingInv
<1>13. ASSUME NEW p \in Package, BeginAudit(p) \/ EndAudit(p) PROVE NestingInv'
  BY <1>1, <1>13 DEF BeginAudit, EndAudit, SpanTypeOK, NestingInv
<1>14. ASSUME NEW p \in Package, CountAudit(p) \/ PrintAudit(p) PROVE NestingInv'
  BY <1>1, <1>14 DEF CountAudit, PrintAudit, SpanTypeOK, NestingInv
<1>15. CASE UNCHANGED spanVars
  BY <1>1, <1>15 DEF spanVars, NestingInv
<1> QED
  BY <1>2, <1>3, <1>4, <1>5, <1>6, <1>7, <1>8, <1>9, <1>10, <1>11, <1>12, <1>13, <1>14, <1>15
  DEF Next, Reporting, Auditor, Ended, vars

-----------------------------------------------------------------------------
(* The rows. *)

\* The rows of the spans that are open.
Open ==
  {<<"phase", x>> : x \in {y \in DOMAIN phase : phase[y] = "open"}}
  \union {<<"package", p>> : p \in {q \in Package : ~Silent /\ package[q] \in {"open", "fetched"}}}

RowsInv ==
  /\ ToSet(rows) = (IF enabled THEN Open ELSE {})
  /\ IsInjective(rows)
  /\ active = (IF enabled /\ phase[Local] = "open" THEN {n \in Node : node[n] = "open"} ELSE {})

LEMMA OpenRows == RowsAreOpenSpans <=> RowsInv
BY DEF RowsAreOpenSpans, RowsInv, Open

\* A step that neither opens nor closes a span with a row.
SameRows ==
  /\ DOMAIN phase' = DOMAIN phase /\ Silent' = Silent
  /\ \A x \in DOMAIN phase : phase'[x] = "open" <=> phase[x] = "open"
  /\ \A p \in Package : package'[p] \in {"open", "fetched"} <=> package[p] \in {"open", "fetched"}

LEMMA SameOpen ==
  ASSUME SameRows
  PROVE  Open' = Open
BY DEF SameRows, Open

\* A step that keeps the rows and the activity of the phase.
LEMMA RowsKept ==
  ASSUME RowsAreOpenSpans, UNCHANGED <<enabled, rows, active>>, SameRows,
         phase'[Local] = "open" <=> phase[Local] = "open",
         \A n \in Node : node'[n] = "open" <=> node[n] = "open"
  PROVE  RowsAreOpenSpans'
<1>1. Open' = Open
  BY SameOpen
<1>2. {n \in Node : node'[n] = "open"} = {n \in Node : node[n] = "open"}
  OBVIOUS
<1>3. RowsInv'
  BY <1>1, <1>2, OpenRows DEF RowsInv
<1> QED
  BY <1>3, OpenRows, PTL

\* One more row, of a span that opens.
LEMMA RowAdded ==
  ASSUME RowsAreOpenSpans, rows \in Seq(Row), NEW row, row \notin Open,
         UNCHANGED enabled, rows' = IF enabled THEN Append(rows, row) ELSE rows,
         Open' = Open \union {row}
  PROVE  IsInjective(rows') /\ ToSet(rows') = (IF enabled' THEN Open' ELSE {})
<1>1. CASE ~enabled
  BY <1>1, OpenRows DEF RowsInv
<1>2. CASE enabled
  <2> DEFINE n == Len(rows)
  <2>1. ToSet(rows) = Open /\ IsInjective(rows) /\ rows' = Append(rows, row)
    BY <1>2, OpenRows DEF RowsInv
  <2>2. /\ n \in Nat /\ DOMAIN rows = 1 .. n /\ DOMAIN rows' = 1 .. n + 1
        /\ \A i \in 1 .. n : rows'[i] = rows[i]
        /\ rows'[n + 1] = row
    BY <2>1
  <2> HIDE DEF n
  <2>3. \A i \in 1 .. n : rows[i] # row
    BY <2>1, <2>2 DEF ToSet
  <2>4. \A i \in 1 .. n + 1 : i \in 1 .. n \/ i = n + 1
    BY <2>2
  <2>5. IsInjective(rows')
    BY <2>1, <2>2, <2>3, <2>4 DEF IsInjective
  <2>6. ToSet(rows') = ToSet(rows) \union {row}
    <3>1. \A i \in 1 .. n : i \in 1 .. n + 1
      BY <2>2
    <3>2. n + 1 \in 1 .. n + 1
      BY <2>2
    <3> QED
      BY <2>2, <2>4, <3>1, <3>2 DEF ToSet
  <2> QED
    BY <1>2, <2>1, <2>5, <2>6
<1> QED
  BY <1>1, <1>2

\* One row less, of a span that closes.
LEMMA RowDropped ==
  ASSUME RowsAreOpenSpans, rows \in Seq(Row), NEW row,
         UNCHANGED enabled, rows' = IF enabled THEN RemoveFirst(rows, row) ELSE rows,
         Open' = Open \ {row}
  PROVE  IsInjective(rows') /\ ToSet(rows') = (IF enabled' THEN Open' ELSE {})
<1>1. IsInjective(rows) /\ ToSet(rows) = (IF enabled THEN Open ELSE {})
  BY OpenRows DEF RowsInv
<1>2. /\ ToSet(RemoveFirst(rows, row)) = ToSet(rows) \ {row}
      /\ IsInjective(RemoveFirst(rows, row))
  BY <1>1, RemoveFacts
<1> QED
  BY <1>1, <1>2

\* A phase that opens has a row of its own, and takes it along when it closes.
LEMMA PhaseRow ==
  ASSUME SpanTypeOK, NEW x \in {Local} \union Package, UNCHANGED <<members, package>>,
         NEW v \in {"open", "scored", "ended"}, phase' = [phase EXCEPT ![x] = v]
  PROVE  /\ phase[x] = "waiting" /\ v = "open" =>
              <<"phase", x>> \notin Open /\ Open' = Open \union {<<"phase", x>>}
         /\ phase[x] = "open" /\ v # "open" => Open' = Open \ {<<"phase", x>>}
<1>1. /\ DOMAIN phase = {Local} \union Package /\ DOMAIN phase' = {Local} \union Package
      /\ \A y \in {Local} \union Package : phase'[y] = IF y = x THEN v ELSE phase[y]
      /\ package' = package /\ Silent' = Silent
  BY DEF SpanTypeOK, Silent
<1> DEFINE P == {y \in DOMAIN phase : phase[y] = "open"}
           Q == {y \in DOMAIN phase' : phase'[y] = "open"}
           R == {<<"package", p>> : p \in
                   {q \in Package : ~Silent /\ package[q] \in {"open", "fetched"}}}
<1>2. Open = {<<"phase", y>> : y \in P} \union R
  BY DEF Open
<1>3. Open' = {<<"phase", y>> : y \in Q} \union R
  BY <1>1 DEF Open
<1>4. \A r \in R : r # <<"phase", x>>
  OBVIOUS
<1>5. \A y \in P : <<"phase", y>> = <<"phase", x>> <=> y = x
  OBVIOUS
<1>6. phase[x] = "waiting" /\ v = "open" => x \notin P /\ Q = P \union {x}
  BY <1>1
<1>7. phase[x] = "open" /\ v # "open" => Q = P \ {x}
  BY <1>1
<1> HIDE DEF P, Q, R
<1> QED
  BY <1>2, <1>3, <1>4, <1>5, <1>6, <1>7

\* And so has the fetch of a package, unless its batch is silent.
LEMMA PackageRow ==
  ASSUME SpanTypeOK, NEW x \in Package, ~Silent, UNCHANGED <<members, phase>>,
         NEW v \in {"open", "retired"}, package' = [package EXCEPT ![x] = v]
  PROVE  /\ package[x] = "waiting" /\ v = "open" =>
              <<"package", x>> \notin Open /\ Open' = Open \union {<<"package", x>>}
         /\ package[x] = "fetched" /\ v = "retired" => Open' = Open \ {<<"package", x>>}
<1>1. /\ \A y \in Package : package'[y] = IF y = x THEN v ELSE package[y]
      /\ phase' = phase /\ Silent' = Silent
  BY DEF SpanTypeOK, Silent
<1> DEFINE P == {q \in Package : package[q] \in {"open", "fetched"}}
           Q == {q \in Package : package'[q] \in {"open", "fetched"}}
           R == {<<"phase", y>> : y \in {z \in DOMAIN phase : phase[z] = "open"}}
<1>2. Open = R \union {<<"package", p>> : p \in P}
  BY DEF Open
<1>3. Open' = R \union {<<"package", p>> : p \in Q}
  BY <1>1 DEF Open
<1>4. \A r \in R : r # <<"package", x>>
  OBVIOUS
<1>5. \A y \in P : <<"package", y>> = <<"package", x>> <=> y = x
  OBVIOUS
<1>6. package[x] = "waiting" /\ v = "open" => x \notin P /\ Q = P \union {x}
  BY <1>1
<1>7. package[x] = "fetched" /\ v = "retired" => Q = P \ {x}
  BY <1>1
<1> HIDE DEF P, Q, R
<1> QED
  BY <1>2, <1>3, <1>4, <1>5, <1>6, <1>7

\* Every action keeps the rows those of the open spans, and the activity of the
\* phase the nodes in flight.
LEMMA RowsRight ==
  ASSUME Inv, [Next]_vars
  PROVE  RowsAreOpenSpans'
<1>1. /\ SpanTypeOK /\ NestingInv /\ RowsAreOpenSpans /\ RowsInv
      /\ rows \in Seq(Row) /\ Local \notin Package
  BY OpenRows, DisplayAssumption DEF Inv, TypeOK, DisplayTypeOK
<1>2. RowsInv' => RowsAreOpenSpans'
  BY OpenRows, PTL
<1>3. CASE BeginLocal
  <2>1. /\ Adds(<<"phase", Local>>) /\ phase[Local] = "waiting"
        /\ phase' = [phase EXCEPT ![Local] = "open"]
        /\ UNCHANGED <<members, package, node>>
    BY <1>3, Effects DEF BeginLocal
  <2>2. <<"phase", Local>> \notin Open /\ Open' = Open \union {<<"phase", Local>>}
    BY <1>1, <2>1, PhaseRow
  <2>3. IsInjective(rows') /\ ToSet(rows') = (IF enabled' THEN Open' ELSE {})
    BY <1>1, <2>1, <2>2, RowAdded DEF Adds
  <2>4. active = {} /\ {n \in Node : node[n] = "open"} = {}
    BY <1>1, <2>1 DEF RowsInv, NestingInv
  <2>5. active' = {} /\ {n \in Node : node'[n] = "open"} = {}
    BY <2>1, <2>4 DEF Adds
  <2> QED
    BY <1>2, <2>3, <2>5 DEF RowsInv
<1>4. CASE EndLocal
  <2>1. /\ Drops(<<"phase", Local>>) /\ phase[Local] = "open"
        /\ phase' = [phase EXCEPT ![Local] = "ended"]
        /\ UNCHANGED <<members, package>>
    BY <1>4, Effects DEF EndLocal
  <2>2. Open' = Open \ {<<"phase", Local>>}
    BY <1>1, <2>1, PhaseRow
  <2>3. IsInjective(rows') /\ ToSet(rows') = (IF enabled' THEN Open' ELSE {})
    BY <1>1, <2>1, <2>2, RowDropped DEF Drops
  <2>4. active' = {} /\ phase'[Local] # "open"
    BY <1>1, <2>1 DEF Drops, RowsInv, SpanTypeOK
  <2> QED
    BY <1>2, <2>3, <2>4 DEF RowsInv
<1>5. ASSUME NEW n \in Node, BeginNode(n) \/ EndNode(n) PROVE RowsAreOpenSpans'
  <2> DEFINE v == IF BeginNode(n) THEN "open" ELSE "ended"
             nodes == IF BeginNode(n) THEN active \union {n} ELSE active \ {n}
  <2>1. Activates(nodes) /\ UNCHANGED <<phase, members, package>>
    BY <1>5, Effects DEF BeginNode, EndNode
  <2>2. node' = [node EXCEPT ![n] = v] /\ phase[Local] = "open"
    <3>1. CASE BeginNode(n)
      BY <3>1 DEF BeginNode
    <3>2. CASE ~BeginNode(n)
      <4>1. EndNode(n)
        BY <1>5, <3>2
      <4>2. node[n] = "open" /\ node' = [node EXCEPT ![n] = "ended"]
        BY <4>1 DEF EndNode
      <4>3. phase[Local] = "open"
        BY <1>1, <4>2 DEF NestingInv
      <4> QED
        BY <3>2, <4>2, <4>3
    <3> QED
      BY <3>1, <3>2
  <2>3. Open' = Open
    BY <2>1, SameOpen DEF SameRows, Silent
  <2>4. {m \in Node : node'[m] = "open"} =
          IF v = "open" THEN {m \in Node : node[m] = "open"} \union {n}
          ELSE {m \in Node : node[m] = "open"} \ {n}
    <3> HIDE DEF v
    <3> QED
      BY <1>1, <2>2 DEF SpanTypeOK
  <2>5. active' = IF enabled THEN nodes ELSE active
    BY <2>1 DEF Activates
  <2>6. active = IF enabled THEN {m \in Node : node[m] = "open"} ELSE {}
    BY <1>1, <2>2 DEF RowsInv
  <2>7. active' = IF enabled THEN {m \in Node : node'[m] = "open"} ELSE {}
    <3>1. CASE BeginNode(n)
      BY <2>4, <2>5, <2>6, <3>1
    <3>2. CASE ~BeginNode(n)
      BY <2>4, <2>5, <2>6, <3>2
    <3> QED
      BY <3>1, <3>2
  <2>8. UNCHANGED <<enabled, rows, phase>>
    BY <2>1 DEF Activates
  <2> HIDE DEF v, nodes
  <2> QED
    BY <1>1, <1>2, <2>2, <2>3, <2>7, <2>8 DEF RowsInv
<1>6. CASE BeginBatch \/ EndBatch \/ Log
  <2>1. UNCHANGED <<enabled, rows, active, phase, node, package, members>>
    BY <1>6, Effects DEF Quiet, Says, BeginBatch, EndBatch, Log
  <2> QED
    BY <1>1, <2>1, RowsKept DEF SameRows, Silent
<1>7. CASE End
  <2>1. UNCHANGED <<phase, node, package, members>> /\ phase[Local] = "ended"
    BY <1>7 DEF End
  <2>2. CASE failed = {}
    <3>1. Clears /\ \A p \in Package : phase[p] = "ended"
      BY <1>7, <2>2, Effects DEF End
    <3>2. node[Fetcher] = "ended" /\ Fetcher \in Node
      BY <1>1, <2>1 DEF NestingInv, Node
    <3>3. batch = "ended"
      BY <1>1, <3>2 DEF NestingInv
    <3>4. \A p \in Package : package[p] = "waiting" \/ package[p] = "ended"
      BY <1>1, <3>3 DEF NestingInv
    <3>5. \A x \in DOMAIN phase : phase[x] # "open"
      BY <1>1, <2>1, <3>1 DEF SpanTypeOK
    <3>6. Open = {}
      BY <3>4, <3>5 DEF Open
    <3>7. Open' = Open
      BY <2>1, SameOpen DEF SameRows, Silent
    <3>8. IsInjective(rows') /\ ToSet(rows') = {}
      BY <3>1 DEF Clears, IsInjective, ToSet
    <3>9. active' = {} /\ phase'[Local] # "open"
      BY <1>1, <2>1, <3>1 DEF Clears, RowsInv
    <3> QED
      BY <1>2, <3>6, <3>7, <3>8, <3>9 DEF RowsInv
  <2>3. CASE failed # {}
    <3>1. Quiet
      BY <1>7, <2>3, Effects
    <3> QED
      BY <1>1, <2>1, <3>1, RowsKept DEF Quiet, SameRows, Silent
  <2> QED
    BY <2>2, <2>3
<1>8. ASSUME NEW p \in Package, BeginPackage(p) PROVE RowsAreOpenSpans'
  <2>1. /\ package[p] = "waiting" /\ package' = [package EXCEPT ![p] = "open"]
        /\ UNCHANGED <<members, phase, node>>
    BY <1>8 DEF BeginPackage
  <2>2. CASE Silent
    <3>1. Quiet /\ Silent'
      BY <1>8, <2>1, <2>2, Effects DEF Silent
    <3>2. Open' = Open
      BY <2>1, <2>2, <3>1 DEF Open
    <3> QED
      BY <1>1, <1>2, <2>1, <3>1, <3>2 DEF Quiet, RowsInv
  <2>3. CASE ~Silent
    <3>1. Adds(<<"package", p>>)
      BY <1>8, <2>3, Effects
    <3>2. <<"package", p>> \notin Open /\ Open' = Open \union {<<"package", p>>}
      BY <1>1, <2>1, <2>3, PackageRow
    <3>3. IsInjective(rows') /\ ToSet(rows') = (IF enabled' THEN Open' ELSE {})
      BY <1>1, <3>1, <3>2, RowAdded DEF Adds
    <3> QED
      BY <1>1, <1>2, <2>1, <3>1, <3>3 DEF Adds, RowsInv
  <2> QED
    BY <2>2, <2>3
<1>9. ASSUME NEW p \in Package, FetchReturns(p) PROVE RowsAreOpenSpans'
  <2>1. UNCHANGED <<enabled, rows, active>>
    BY <1>9, Effects DEF Quiet, Says
  <2>2. /\ package[p] = "open" /\ package' = [package EXCEPT ![p] = "fetched"]
        /\ UNCHANGED <<members, phase, node>>
    BY <1>9 DEF FetchReturns
  <2> QED
    BY <1>1, <2>1, <2>2, RowsKept DEF SameRows, Silent, SpanTypeOK
<1>10. ASSUME NEW p \in Package, RetireRow(p) PROVE RowsAreOpenSpans'
  <2>1. /\ package[p] = "fetched" /\ UNCHANGED <<members, phase, node>>
    BY <1>10 DEF RetireRow
  <2>2. CASE Silent
    <3>1. Quiet /\ Silent'
      BY <1>10, <2>1, <2>2, Effects DEF Silent
    <3>2. Open' = Open
      BY <2>1, <2>2, <3>1 DEF Open
    <3> QED
      BY <1>1, <1>2, <2>1, <3>1, <3>2 DEF Quiet, RowsInv
  <2>3. CASE ~Silent
    <3>1. Drops(<<"package", p>>) /\ package' = [package EXCEPT ![p] = "retired"]
      BY <1>10, <2>3, Effects DEF RetireRow
    <3>2. Open' = Open \ {<<"package", p>>}
      BY <1>1, <2>1, <2>3, <3>1, PackageRow
    <3>3. IsInjective(rows') /\ ToSet(rows') = (IF enabled' THEN Open' ELSE {})
      BY <1>1, <3>1, <3>2, RowDropped DEF Drops
    <3>4. active' = active /\ enabled' = enabled
      BY <3>1 DEF Drops
    <3> QED
      BY <1>1, <1>2, <2>1, <3>3, <3>4 DEF RowsInv
  <2> QED
    BY <2>2, <2>3
<1>11. ASSUME NEW p \in Package, CountPackage(p) \/ PrintPackage(p) PROVE RowsAreOpenSpans'
  <2>1. UNCHANGED <<enabled, rows, active>>
    BY <1>11, Effects DEF Quiet, Says
  <2>2. PICK v \in {"counted", "ended"} :
          /\ package[p] \in {"retired", "counted"} /\ package' = [package EXCEPT ![p] = v]
          /\ UNCHANGED <<members, phase, node>>
    BY <1>11 DEF CountPackage, PrintPackage
  <2> QED
    BY <1>1, <2>1, <2>2, RowsKept DEF SameRows, Silent, SpanTypeOK
<1>12. ASSUME NEW p \in Package, BeginAudit(p) PROVE RowsAreOpenSpans'
  <2>1. /\ Adds(<<"phase", p>>) /\ phase[p] = "waiting" /\ phase[Local] = "ended"
        /\ phase' = [phase EXCEPT ![p] = "open"]
        /\ UNCHANGED <<members, package, node>>
    BY <1>12, Effects DEF BeginAudit
  <2>2. <<"phase", p>> \notin Open /\ Open' = Open \union {<<"phase", p>>}
    BY <1>1, <2>1, PhaseRow
  <2>3. IsInjective(rows') /\ ToSet(rows') = (IF enabled' THEN Open' ELSE {})
    BY <1>1, <2>1, <2>2, RowAdded DEF Adds
  <2>4. phase'[Local] = "ended"
    BY <1>1, <2>1 DEF SpanTypeOK
  <2>5. active' = {}
    BY <1>1, <2>1 DEF Adds, RowsInv
  <2> QED
    BY <1>2, <2>3, <2>4, <2>5 DEF RowsInv
<1>13. ASSUME NEW p \in Package, EndAudit(p) PROVE RowsAreOpenSpans'
  <2>1. /\ Drops(<<"phase", p>>) /\ phase[p] = "open"
        /\ phase' = [phase EXCEPT ![p] = "scored"]
        /\ UNCHANGED <<members, package>>
    BY <1>13, Effects DEF EndAudit
  <2>2. Open' = Open \ {<<"phase", p>>}
    BY <1>1, <2>1, PhaseRow
  <2>3. IsInjective(rows') /\ ToSet(rows') = (IF enabled' THEN Open' ELSE {})
    BY <1>1, <2>1, <2>2, RowDropped DEF Drops
  <2>4. phase[Local] = "ended" /\ phase'[Local] = "ended"
    BY <1>1, <2>1 DEF SpanTypeOK, NestingInv
  <2>5. active' = {}
    BY <1>1, <2>1, <2>4 DEF Drops, RowsInv
  <2> QED
    BY <1>2, <2>3, <2>4, <2>5 DEF RowsInv
<1>14. ASSUME NEW p \in Package, CountAudit(p) \/ PrintAudit(p) PROVE RowsAreOpenSpans'
  <2>1. UNCHANGED <<enabled, rows, active>>
    BY <1>14, Effects DEF Quiet, Says
  <2>2. PICK v \in {"counted", "ended"} :
          /\ phase[p] \in {"scored", "counted"} /\ phase' = [phase EXCEPT ![p] = v]
          /\ UNCHANGED <<members, package, node>>
    BY <1>14 DEF CountAudit, PrintAudit
  <2>3. phase'[Local] = phase[Local]
    BY <1>1, <2>2 DEF SpanTypeOK
  <2> QED
    BY <1>1, <2>1, <2>2, <2>3, RowsKept DEF SameRows, Silent, SpanTypeOK
<1>15. ASSUME UNCHANGED spanVars,
              UNCHANGED vars \/ \E t \in Ticker : Tick(t) \/ Repainter(t)
       PROVE  RowsAreOpenSpans'
  <2>1. Quiet
    BY <1>15, Effects
  <2> QED
    BY <1>1, <1>15, <2>1, RowsKept DEF Quiet, spanVars, SameRows, Silent
<1> QED
  BY <1>3, <1>4, <1>5, <1>6, <1>7, <1>8, <1>9, <1>10, <1>11, <1>12, <1>13, <1>14, <1>15
  DEF Next, Reporting, Auditor, Ended, vars
-----------------------------------------------------------------------------
(* The lines that count. *)

\* A line that was printed stays where it is.
LEMMA Appended ==
  ASSUME log \in Seq(LogLine), NEW line, log' = Append(log, line)
  PROVE  /\ Len(log) \in Nat /\ DOMAIN log = 1 .. Len(log) /\ DOMAIN log' = 1 .. Len(log) + 1
         /\ \A i \in 1 .. Len(log) : log'[i] = log[i]
         /\ log'[Len(log) + 1] = line
OBVIOUS

\* A step that prints nothing, or a line that is not of this kind.
PrintsNo(tag) == log' = log \/ \E line \in LogLine : line[1] # tag /\ log' = Append(log, line)

LEMMA NoneAdded ==
  ASSUME log \in Seq(LogLine), NEW tag, PrintsNo(tag)
  PROVE  /\ {i \in DOMAIN log' : log'[i][1] = tag} = {i \in DOMAIN log : log[i][1] = tag}
         /\ \A i \in DOMAIN log' : log'[i][1] = tag => i \in DOMAIN log
         /\ \A i \in DOMAIN log : i \in DOMAIN log' /\ log'[i] = log[i]
<1>1. CASE log' = log
  BY <1>1
<1>2. ASSUME NEW line \in LogLine, line[1] # tag, log' = Append(log, line)
      PROVE  /\ {i \in DOMAIN log' : log'[i][1] = tag} = {i \in DOMAIN log : log[i][1] = tag}
             /\ \A i \in DOMAIN log' : log'[i][1] = tag => i \in DOMAIN log
             /\ \A i \in DOMAIN log : i \in DOMAIN log' /\ log'[i] = log[i]
  <2> DEFINE n == Len(log)
  <2>1. /\ n \in Nat /\ DOMAIN log = 1 .. n /\ DOMAIN log' = 1 .. n + 1
        /\ \A i \in 1 .. n : log'[i] = log[i]
        /\ log'[n + 1] = line
    BY <1>2, Appended
  <2> HIDE DEF n
  <2>2. \A i \in 1 .. n + 1 : i \in 1 .. n \/ i = n + 1
    BY <2>1
  <2>3. \A i \in 1 .. n : i \in 1 .. n + 1
    BY <2>1
  <2> QED
    BY <1>2, <2>1, <2>2, <2>3
<1> QED
  BY <1>1, <1>2 DEF PrintsNo

\* Lines are finitely many.
LEMMA LinesFinite ==
  ASSUME log \in Seq(LogLine), NEW tag
  PROVE  LET lines == {i \in DOMAIN log : log[i][1] = tag}
         IN  IsFiniteSet(lines) /\ Cardinality(lines) \in Nat
<1>1. DOMAIN log = 1 .. Len(log) /\ Len(log) \in Nat
  OBVIOUS
<1>2. IsFiniteSet(1 .. Len(log))
  BY <1>1, FS_Interval
<1> QED
  BY <1>1, <1>2, FS_Subset, FS_CardinalityType

\* A step that prints no line of an audit and leaves the mutex alone.
LEMMA AuditsKept ==
  ASSUME AuditInv, log \in Seq(LogLine), PrintsNo("audit"), UNCHANGED <<mu, auditDone>>,
         \A p \in mu : phase'[p] = phase[p] /\ count'[p] = count[p]
  PROVE  AuditInv'
<1>1. /\ {i \in DOMAIN log' : log'[i][1] = "audit"} = {i \in DOMAIN log : log[i][1] = "audit"}
      /\ \A i \in DOMAIN log' : log'[i][1] = "audit" => i \in DOMAIN log
      /\ \A i \in DOMAIN log : i \in DOMAIN log' /\ log'[i] = log[i]
  BY NoneAdded
<1>2. ASSUME NEW i \in DOMAIN log', log'[i][1] = "audit"
      PROVE  log'[i][3] = Cardinality({j \in 1 .. i : log'[j][1] = "audit"})
  <2>1. i \in DOMAIN log /\ log'[i] = log[i]
    BY <1>1, <1>2
  <2>2. \A j \in 1 .. i : j \in DOMAIN log
    BY <2>1
  <2>3. {j \in 1 .. i : log'[j][1] = "audit"} = {j \in 1 .. i : log[j][1] = "audit"}
    BY <1>1, <2>2
  <2> QED
    BY <1>2, <2>1, <2>3 DEF AuditInv, AuditLinesInOrder
<1>3. AuditLinesInOrder'
  BY <1>2 DEF AuditLinesInOrder
<1> QED
  BY <1>1, <1>3 DEF AuditInv

\* Every action keeps the audits counted and printed in one order.
LEMMA AuditsRight ==
  ASSUME Inv, [Next]_vars
  PROVE  AuditInv'
<1>1. /\ SpanTypeOK /\ NestingInv /\ AuditInv /\ log \in Seq(LogLine) /\ Local \notin Package
      /\ \A p \in mu : p \in Package /\ phase[p] = "counted"
  BY DisplayAssumption DEF Inv, TypeOK, DisplayTypeOK, AuditInv, SpanTypeOK
<1>2. CASE BeginLocal \/ EndLocal
  <2>1. PICK v \in {"open", "ended"} :
          phase' = [phase EXCEPT ![Local] = v] /\ UNCHANGED <<mu, auditDone, count>>
    BY <1>2 DEF BeginLocal, EndLocal
  <2>2. PrintsNo("audit")
    BY <1>2, Effects DEF Adds, Drops, PrintsNo
  <2> QED
    BY <1>1, <2>1, <2>2, AuditsKept DEF SpanTypeOK
<1>3. ASSUME NEW n \in Node, BeginNode(n) \/ EndNode(n) PROVE AuditInv'
  <2>1. PrintsNo("audit")
    BY <1>3, Effects DEF Activates, PrintsNo
  <2> QED
    BY <1>1, <1>3, <2>1, AuditsKept DEF BeginNode, EndNode
<1>4. CASE BeginBatch \/ EndBatch
  <2>1. PrintsNo("audit")
    BY <1>4, Effects DEF Quiet, Says, PrintsNo
  <2> QED
    BY <1>1, <1>4, <2>1, AuditsKept DEF BeginBatch, EndBatch
<1>5. CASE Log
  <2>1. PrintsNo("audit")
    BY <1>5, Effects DEF Says, PrintsNo
  <2> QED
    BY <1>1, <1>5, <2>1, AuditsKept DEF Log
<1>6. CASE End
  <2>1. PrintsNo("audit")
    BY <1>6, Effects DEF Clears, Quiet, PrintsNo
  <2> QED
    BY <1>1, <1>6, <2>1, AuditsKept DEF End
<1>7. ASSUME NEW p \in Package, BeginPackage(p) \/ RetireRow(p) PROVE AuditInv'
  <2>1. PrintsNo("audit")
    BY <1>7, Effects DEF Adds, Drops, Quiet, PrintsNo
  <2> QED
    BY <1>1, <1>7, <2>1, AuditsKept DEF BeginPackage, RetireRow
<1>8. ASSUME NEW p \in Package, FetchReturns(p) \/ PrintPackage(p) PROVE AuditInv'
  <2>1. PrintsNo("audit")
    BY <1>8, Effects DEF Quiet, Says, PrintsNo
  <2> QED
    BY <1>1, <1>8, <2>1, AuditsKept DEF FetchReturns, PrintPackage
<1>9. ASSUME NEW p \in Package, CountPackage(p) PROVE AuditInv'
  <2>1. PrintsNo("audit")
    BY <1>9, Effects DEF Quiet, PrintsNo
  <2>2. /\ package[p] = "retired" /\ count' = [count EXCEPT ![p] = batchDone']
        /\ UNCHANGED <<phase, mu, auditDone>>
    BY <1>9 DEF CountPackage
  <2>3. p \notin mu
    <3>1. package[p] # "ended" /\ p \in members /\ batch # "ended"
      BY <1>1, <2>2 DEF NestingInv
    <3>2. node[Fetcher] # "ended" /\ Fetcher \in Node
      BY <1>1, <3>1 DEF NestingInv, Node
    <3>3. phase[Local] # "ended"
      BY <1>1, <3>2 DEF NestingInv
    <3> QED
      BY <1>1, <3>3 DEF NestingInv
  <2>4. \A q \in mu : phase'[q] = phase[q] /\ count'[q] = count[q]
    BY <1>1, <2>2, <2>3 DEF SpanTypeOK
  <2> QED
    BY <1>1, <2>1, <2>2, <2>4, AuditsKept
<1>10. ASSUME NEW p \in Package, BeginAudit(p) \/ EndAudit(p) PROVE AuditInv'
  <2>1. PrintsNo("audit")
    BY <1>10, Effects DEF Adds, Drops, PrintsNo
  <2>2. PICK v : phase[p] \in {"waiting", "open"} /\ phase' = [phase EXCEPT ![p] = v]
                 /\ UNCHANGED <<mu, auditDone, count>>
    BY <1>10 DEF BeginAudit, EndAudit
  <2> QED
    BY <1>1, <2>1, <2>2, AuditsKept DEF SpanTypeOK
<1>11. ASSUME NEW p \in Package, CountAudit(p) PROVE AuditInv'
  <2>1. /\ mu = {} /\ mu' = {p} /\ auditDone' = auditDone + 1 /\ log' = log
        /\ phase' = [phase EXCEPT ![p] = "counted"] /\ count' = [count EXCEPT ![p] = auditDone']
    BY <1>11, Effects DEF CountAudit, Quiet
  <2>2. phase'[p] = "counted" /\ count'[p] = auditDone'
    BY <1>1, <2>1 DEF SpanTypeOK
  <2>3. AuditLinesInOrder'
    BY <1>1, <2>1 DEF AuditInv, AuditLinesInOrder
  <2>4. auditDone = Cardinality({i \in DOMAIN log : log[i][1] = "audit"}) + 0
    BY <1>1, <2>1 DEF AuditInv
  <2>5. auditDone' = Cardinality({i \in DOMAIN log' : log'[i][1] = "audit"}) + 1
    <3>1. Cardinality({i \in DOMAIN log : log[i][1] = "audit"}) \in Nat
      BY <1>1, LinesFinite
    <3> QED
      BY <2>1, <2>4, <3>1
  <2> QED
    BY <2>1, <2>2, <2>3, <2>5 DEF AuditInv
<1>12. ASSUME NEW p \in Package, PrintAudit(p) PROVE AuditInv'
  <2> DEFINE n == Len(log)
             lines == {i \in DOMAIN log : log[i][1] = "audit"}
  <2>1. /\ p \in mu /\ mu = {p} /\ mu' = {} /\ count[p] = auditDone /\ auditDone' = auditDone
        /\ log' = Append(log, <<"audit", p, count[p]>>)
    BY <1>1, <1>12, Effects DEF PrintAudit, Says, AuditInv
  <2>2. /\ n \in Nat /\ DOMAIN log = 1 .. n /\ DOMAIN log' = 1 .. n + 1
        /\ \A i \in 1 .. n : log'[i] = log[i]
        /\ log'[n + 1] = <<"audit", p, auditDone>>
    BY <1>1, <2>1, Appended
  <2>3. IsFiniteSet(lines) /\ Cardinality(lines) \in Nat
    BY <1>1, LinesFinite
  <2>4. auditDone = Cardinality(lines) + 1
    BY <1>1, <2>1 DEF AuditInv
  <2> HIDE DEF n
  <2>5. \A i \in 1 .. n + 1 : i \in 1 .. n \/ i = n + 1
    BY <2>2
  <2>6. n + 1 \in 1 .. n + 1 /\ n + 1 \notin 1 .. n /\ \A i \in 1 .. n : i \in 1 .. n + 1
    BY <2>2
  <2>7. {i \in 1 .. n + 1 : log'[i][1] = "audit"} = lines \union {n + 1}
    BY <2>2, <2>5, <2>6
  <2>8. Cardinality(lines \union {n + 1}) = auditDone
    <3>1. n + 1 \notin lines
      BY <2>2, <2>6
    <3> HIDE DEF lines
    <3> QED
      BY <2>3, <2>4, <3>1, FS_AddElement
  <2>9. AuditLinesInOrder'
    <3> SUFFICES ASSUME NEW i \in 1 .. n + 1, log'[i][1] = "audit"
                 PROVE  log'[i][3] = Cardinality({j \in 1 .. i : log'[j][1] = "audit"})
      BY <2>2 DEF AuditLinesInOrder
    <3>1. CASE i = n + 1
      <4>1. {j \in 1 .. i : log'[j][1] = "audit"} = lines \union {n + 1}
        BY <2>7, <3>1
      <4>2. log'[i][3] = auditDone
        BY <2>2, <3>1
      <4> HIDE DEF lines
      <4> QED
        BY <2>8, <4>1, <4>2
    <3>2. CASE i \in 1 .. n
      <4>1. \A j \in 1 .. i : j \in 1 .. n
        BY <2>2, <3>2
      <4>2. {j \in 1 .. i : log'[j][1] = "audit"} = {j \in 1 .. i : log[j][1] = "audit"}
        BY <2>2, <4>1
      <4> QED
        BY <1>1, <2>2, <3>2, <4>2 DEF AuditInv, AuditLinesInOrder
    <3> QED
      BY <2>5, <3>1, <3>2
  <2>10. auditDone' = Cardinality({i \in DOMAIN log' : log'[i][1] = "audit"}) + 0
    <3>1. auditDone \in Nat
      BY <1>1 DEF SpanTypeOK
    <3>2. {i \in DOMAIN log' : log'[i][1] = "audit"} = lines \union {n + 1}
      BY <2>2, <2>7
    <3> DEFINE all == {i \in DOMAIN log' : log'[i][1] = "audit"}
    <3>3. all = lines \union {n + 1}
      BY <3>2
    <3> HIDE DEF lines, all
    <3>4. auditDone' = Cardinality(all) + 0
      BY <2>1, <2>8, <3>1, <3>3
    <3> QED
      BY <3>4 DEF all
  <2> QED
    BY <2>1, <2>9, <2>10 DEF AuditInv
<1>13. ASSUME UNCHANGED spanVars,
              UNCHANGED vars \/ \E t \in Ticker : Tick(t) \/ Repainter(t)
       PROVE  AuditInv'
  <2>1. PrintsNo("audit")
    BY <1>13, Effects DEF Quiet, PrintsNo
  <2> QED
    BY <1>1, <1>13, <2>1, AuditsKept DEF spanVars
<1> QED
  BY <1>2, <1>3, <1>4, <1>5, <1>6, <1>7, <1>8, <1>9, <1>10, <1>11, <1>12, <1>13
  DEF Next, Reporting, Auditor, Ended, vars

\* A step that counts no package and ends none.
LEMMA CountsKept ==
  ASSUME CountInv, log \in Seq(LogLine), PrintsNo("package"), UNCHANGED <<members, batchDone>>,
         \A p \in members :
           /\ package'[p] \in {"counted", "ended"} <=> package[p] \in {"counted", "ended"}
           /\ package'[p] = "ended" <=> package[p] = "ended"
           /\ package[p] \in {"counted", "ended"} => count'[p] = count[p]
           /\ package[p] = "ended" => (p \in failed' <=> p \in failed)
  PROVE  CountInv'
<1>1. /\ \A i \in DOMAIN log' : log'[i][1] = "package" => i \in DOMAIN log
      /\ \A i \in DOMAIN log : i \in DOMAIN log' /\ log'[i] = log[i]
  BY NoneAdded
<1>2. Counted' = Counted
  BY DEF Counted
<1>3. {count'[p] : p \in Counted} = {count[p] : p \in Counted}
  BY DEF Counted
<1>4. batchDone' = Cardinality(Counted') /\ {count'[p] : p \in Counted'} = 1 .. batchDone'
  BY <1>2, <1>3 DEF CountInv
<1>5. ASSUME NEW i \in DOMAIN log', log'[i][1] = "package"
      PROVE  /\ log'[i][2] \in members' /\ package'[log'[i][2]] = "ended"
             /\ log'[i][3] = IF log'[i][2] \in failed' THEN "error" ELSE "ok"
             /\ log'[i][4] = count'[log'[i][2]]
  <2>1. i \in DOMAIN log /\ log'[i] = log[i]
    BY <1>1, <1>5
  <2>2. /\ log[i][2] \in members /\ package[log[i][2]] = "ended"
        /\ log[i][3] = IF log[i][2] \in failed THEN "error" ELSE "ok"
        /\ log[i][4] = count[log[i][2]]
    BY <1>5, <2>1 DEF CountInv, Mark
  <2> QED
    BY <2>1, <2>2
<1>6. \A i, j \in DOMAIN log' :
        log'[i][1] = "package" /\ log'[j][1] = "package" /\ log'[i][2] = log'[j][2] => i = j
  BY <1>1 DEF CountInv
<1>7. \A p \in members' : package'[p] = "ended" =>
        \E i \in DOMAIN log' : log'[i][1] = "package" /\ log'[i][2] = p
  BY <1>1 DEF CountInv
<1> QED
  BY <1>4, <1>5, <1>6, <1>7 DEF CountInv, Mark

\* The batch is over, and nothing of it changes any more.
LEMMA BatchKept ==
  ASSUME BatchIsCounted, log \in Seq(LogLine), PrintsNo("package"),
         UNCHANGED <<members, failed>>, batch' = "ended" => batch = "ended"
  PROVE  BatchIsCounted'
<1> DEFINE lines == {i \in DOMAIN log : log[i][1] = "package"}
           more == {i \in DOMAIN log' : log'[i][1] = "package"}
<1>1. more = lines /\ \A i \in lines : log'[i] = log[i]
  BY NoneAdded
<1>2. SUFFICES ASSUME batch' = "ended" /\ ~Silent' PROVE BatchIsCounted'
  BY DEF BatchIsCounted
<1>3. batch = "ended" /\ ~Silent
  BY <1>2 DEF Silent
<1>4. /\ Cardinality(lines) = Cardinality(members)
      /\ \A p \in members : \E i \in lines :
           log[i][2] = p /\ log[i][3] = IF p \in failed THEN "error" ELSE "ok"
      /\ {log[i][4] : i \in lines} = 1 .. Cardinality(members)
  BY <1>3 DEF BatchIsCounted, Mark
<1> HIDE DEF lines, more
<1>5. {log'[i][4] : i \in more} = {log[i][4] : i \in lines}
  BY <1>1
<1>6. /\ Cardinality(more) = Cardinality(members')
      /\ \A p \in members' : \E i \in more :
           log'[i][2] = p /\ log'[i][3] = IF p \in failed' THEN "error" ELSE "ok"
      /\ {log'[i][4] : i \in more} = 1 .. Cardinality(members')
  BY <1>1, <1>4, <1>5
<1> QED
  BY <1>6 DEF BatchIsCounted, Mark, more

\* Counting a package gives it the next number.
LEMMA PackageCounted ==
  ASSUME Inv, CountInv, NEW p \in Package, CountPackage(p)
  PROVE  CountInv'
<1>1. /\ SpanTypeOK /\ NestingInv /\ log \in Seq(LogLine) /\ IsFiniteSet(members)
  BY MembersFinite DEF Inv, TypeOK, DisplayTypeOK
<1>2. /\ package[p] = "retired" /\ package' = [package EXCEPT ![p] = "counted"]
      /\ batchDone' = batchDone + 1 /\ count' = [count EXCEPT ![p] = batchDone']
      /\ UNCHANGED <<members, failed, log>> /\ p \in members
  <2>1. p \in members
    BY <1>1 DEF CountPackage, NestingInv
  <2> QED
    BY <2>1, Effects DEF CountPackage, Quiet
<1>3. /\ \A q \in Package : package'[q] = IF q = p THEN "counted" ELSE package[q]
      /\ \A q \in Package : count'[q] = IF q = p THEN batchDone + 1 ELSE count[q]
      /\ members \subseteq Package /\ batchDone \in Nat
  BY <1>1, <1>2 DEF SpanTypeOK
<1>4. p \notin Counted /\ Counted' = Counted \union {p} /\ Counted \subseteq members
  BY <1>2, <1>3 DEF Counted
<1>5. batchDone' = Cardinality(Counted')
  <2>1. IsFiniteSet(Counted)
    BY <1>1, <1>4, FS_Subset
  <2> QED
    BY <1>2, <1>4, <2>1, FS_AddElement DEF CountInv
<1>6. {count'[q] : q \in Counted'} = 1 .. batchDone'
  <2>1. {count'[q] : q \in Counted} = {count[q] : q \in Counted}
    BY <1>3, <1>4
  <2>2. {count'[q] : q \in Counted'} = {count'[q] : q \in Counted} \union {batchDone + 1}
    BY <1>3, <1>4
  <2>3. {count[q] : q \in Counted} = 1 .. batchDone
    BY DEF CountInv
  <2>4. 1 .. batchDone + 1 = (1 .. batchDone) \union {batchDone + 1}
    BY <1>3
  <2> QED
    BY <1>2, <2>1, <2>2, <2>3, <2>4
<1>7. \A i \in DOMAIN log : log[i][1] = "package" =>
        /\ log[i][2] \in members /\ log[i][2] # p /\ package[log[i][2]] = "ended"
        /\ log[i][3] = (IF log[i][2] \in failed THEN "error" ELSE "ok")
        /\ log[i][4] = count[log[i][2]]
  BY <1>2 DEF CountInv, Mark
<1>8. \A i \in DOMAIN log : log[i][1] = "package" =>
        /\ log[i][2] \in members /\ package'[log[i][2]] = "ended"
        /\ log[i][3] = (IF log[i][2] \in failed THEN "error" ELSE "ok")
        /\ log[i][4] = count'[log[i][2]]
  BY <1>3, <1>7
<1>9. \A q \in members : package'[q] = "ended" => package[q] = "ended"
  BY <1>3
<1>10. /\ \A q \in members : package[q] = "ended" =>
            \E i \in DOMAIN log : log[i][1] = "package" /\ log[i][2] = q
       /\ \A i, j \in DOMAIN log :
            log[i][1] = "package" /\ log[j][1] = "package" /\ log[i][2] = log[j][2] => i = j
  BY DEF CountInv
<1> QED
  BY <1>2, <1>5, <1>6, <1>8, <1>9, <1>10 DEF CountInv, Mark

\* Its line has this number, whatever was counted since.
LEMMA PackagePrinted ==
  ASSUME Inv, CountInv, NEW p \in Package, PrintPackage(p)
  PROVE  CountInv'
<1>1. /\ SpanTypeOK /\ NestingInv /\ log \in Seq(LogLine)
  BY DEF Inv, TypeOK, DisplayTypeOK
<1>2. /\ package[p] = "counted" /\ package' = [package EXCEPT ![p] = "ended"]
      /\ UNCHANGED <<members, failed, batchDone, count>> /\ p \in members
      /\ log' = Append(log, <<"package", p, Mark(p), count[p]>>)
  <2>1. p \in members
    BY <1>1 DEF PrintPackage, NestingInv
  <2> QED
    BY <2>1, Effects DEF PrintPackage, Says
<1>3. /\ \A q \in Package : package'[q] = IF q = p THEN "ended" ELSE package[q]
      /\ members \subseteq Package
  BY <1>1, <1>2 DEF SpanTypeOK
<1>4. Counted' = Counted
  BY <1>2, <1>3 DEF Counted
<1>5. batchDone' = Cardinality(Counted') /\ {count'[q] : q \in Counted'} = 1 .. batchDone'
  BY <1>2, <1>4 DEF CountInv
<1> DEFINE n == Len(log)
<1>6. /\ n \in Nat /\ DOMAIN log = 1 .. n /\ DOMAIN log' = 1 .. n + 1
      /\ \A i \in 1 .. n : log'[i] = log[i]
      /\ log'[n + 1] = <<"package", p, Mark(p), count[p]>>
  BY <1>1, <1>2, Appended
<1> HIDE DEF n
<1>7. /\ \A i \in 1 .. n + 1 : i \in 1 .. n \/ i = n + 1
      /\ \A i \in 1 .. n : i \in 1 .. n + 1
      /\ n + 1 \in 1 .. n + 1
  BY <1>6
<1>8. log'[n + 1][1] = "package" /\ log'[n + 1][2] = p
      /\ log'[n + 1][3] = (IF p \in failed THEN "error" ELSE "ok") /\ log'[n + 1][4] = count[p]
  BY <1>6 DEF Mark
<1>9. \A i \in 1 .. n : log[i][1] = "package" =>
        /\ log[i][2] \in members /\ log[i][2] # p /\ package[log[i][2]] = "ended"
        /\ log[i][3] = (IF log[i][2] \in failed THEN "error" ELSE "ok")
        /\ log[i][4] = count[log[i][2]]
  BY <1>2, <1>6 DEF CountInv, Mark
<1>10. \A i \in 1 .. n + 1 : log'[i][1] = "package" =>
        /\ log'[i][2] \in members /\ package'[log'[i][2]] = "ended"
        /\ log'[i][3] = (IF log'[i][2] \in failed THEN "error" ELSE "ok")
        /\ log'[i][4] = count[log'[i][2]]
  BY <1>2, <1>3, <1>6, <1>7, <1>8, <1>9
<1>11. ASSUME NEW i \in 1 .. n + 1, NEW j \in 1 .. n + 1, log'[i][1] = "package",
              log'[j][1] = "package", log'[i][2] = log'[j][2]
       PROVE  i = j
  <2>1. CASE i \in 1 .. n /\ j \in 1 .. n
    BY <1>6, <1>11, <2>1 DEF CountInv
  <2>2. CASE i = n + 1 \/ j = n + 1
    BY <1>6, <1>7, <1>8, <1>9, <1>11, <2>2
  <2> QED
    BY <1>7, <2>1, <2>2
<1>12. ASSUME NEW q \in members, package'[q] = "ended"
       PROVE  \E i \in 1 .. n + 1 : log'[i][1] = "package" /\ log'[i][2] = q
  <2>1. CASE q = p
    BY <1>7, <1>8, <2>1
  <2>2. CASE q # p
    <3>1. PICK i \in 1 .. n : log[i][1] = "package" /\ log[i][2] = q
      BY <1>3, <1>6, <1>12, <2>2 DEF CountInv
    <3> QED
      BY <1>6, <1>7, <3>1
  <2> QED
    BY <2>1, <2>2
<1> QED
  BY <1>2, <1>5, <1>6, <1>10, <1>11, <1>12 DEF CountInv, Mark

\* When every package of the batch has ended, every one was counted.
LEMMA AllCounted ==
  ASSUME Inv, CountInv, \A p \in members : package[p] = "ended",
         UNCHANGED <<members, failed, log>>
  PROVE  BatchIsCounted'
<1> DEFINE lines == {i \in DOMAIN log : log[i][1] = "package"}
<1>1. /\ log \in Seq(LogLine) /\ IsFiniteSet(members)
  BY MembersFinite DEF Inv, TypeOK, DisplayTypeOK
<1>2. IsFiniteSet(lines)
  BY <1>1, LinesFinite
<1>3. /\ \A i \in lines : /\ log[i][2] \in members
                          /\ log[i][3] = (IF log[i][2] \in failed THEN "error" ELSE "ok")
                          /\ log[i][4] = count[log[i][2]]
      /\ \A i, j \in lines : log[i][2] = log[j][2] => i = j
      /\ \A p \in members : \E i \in lines : log[i][2] = p
  BY DEF CountInv, Mark
<1>4. Counted = members
  BY DEF Counted
<1>5. {count[p] : p \in members} = 1 .. Cardinality(members)
  BY <1>4 DEF CountInv
<1> HIDE DEF lines
<1>6. Cardinality(lines) = Cardinality(members)
  <2> DEFINE of == [i \in lines |-> log[i][2]]
  <2>1. of \in Bijection(lines, members)
    BY <1>3 DEF Bijection, Injection, Surjection, IsInjective
  <2>2. ExistsBijection(lines, members)
    BY <2>1 DEF ExistsBijection
  <2> QED
    BY <1>2, <2>2, FS_Bijection
<1>7. {log[i][4] : i \in lines} = {count[p] : p \in members}
  BY <1>3
<1>8. \A p \in members : \E i \in lines :
        log[i][2] = p /\ log[i][3] = (IF p \in failed THEN "error" ELSE "ok")
  BY <1>3
<1> QED
  BY <1>5, <1>6, <1>7, <1>8 DEF BatchIsCounted, Mark, lines

\* Every action keeps the batch counted.
LEMMA BatchRight ==
  ASSUME Inv, [Next]_vars
  PROVE  BatchInv'
<1>1. /\ SpanTypeOK /\ NestingInv /\ BatchInv /\ BatchIsCounted /\ log \in Seq(LogLine)
      /\ Fetcher \in Node /\ (~Silent /\ batch # "ended" => CountInv)
  BY DEF Inv, TypeOK, DisplayTypeOK, BatchInv, Node
<1>2. phase[Local] = "ended" \/ (\E p \in Package : phase[p] # "waiting") => batch = "ended"
  BY <1>1 DEF NestingInv
<1>3. \A p \in Package : package[p] \notin {"waiting", "ended"} => p \in members /\ batch # "ended"
  BY <1>1 DEF NestingInv
<1>4. ASSUME PrintsNo("package"), UNCHANGED <<members, failed, batchDone, package>>,
             batch' = "ended" => batch = "ended",
             batch = "ended" \/ UNCHANGED count, batch = "ended" => batch' = "ended"
      PROVE  BatchInv'
  <2>1. BatchIsCounted'
    BY <1>1, <1>4, BatchKept
  <2>2. ASSUME ~Silent', batch' # "ended" PROVE CountInv'
    <3>1. CountInv /\ UNCHANGED count
      BY <1>1, <1>4, <2>2 DEF Silent
    <3> QED
      BY <1>1, <1>4, <3>1, CountsKept
  <2> QED
    BY <2>1, <2>2 DEF BatchInv
<1>5. ASSUME batch # "ended", UNCHANGED <<members, batch>>, ~Silent /\ CountInv => CountInv'
      PROVE  BatchInv'
  BY <1>1, <1>5 DEF BatchInv, BatchIsCounted, Silent
<1>6. CASE BeginLocal \/ EndLocal \/ BeginBatch \/ Log \/ End
  <2>1. PrintsNo("package")
    BY <1>6, Effects DEF Adds, Drops, Says, Quiet, Clears, PrintsNo
  <2> QED
    BY <1>4, <1>6, <2>1 DEF BeginLocal, EndLocal, BeginBatch, Log, End
<1>7. CASE EndBatch
  <2>1. /\ batch = "open" /\ batch' = "ended" /\ \A p \in members : package[p] = "ended"
        /\ UNCHANGED <<members, failed, log>>
    BY <1>7, Effects DEF EndBatch, Quiet
  <2>2. CASE Silent
    BY <2>1, <2>2 DEF BatchInv, BatchIsCounted, Silent
  <2>3. CASE ~Silent
    <3>1. BatchIsCounted'
      BY <1>1, <2>1, <2>3, AllCounted
    <3> QED
      BY <2>1, <3>1 DEF BatchInv
  <2> QED
    BY <2>2, <2>3
<1>8. ASSUME NEW n \in Node, BeginNode(n) \/ EndNode(n) PROVE BatchInv'
  <2>1. PrintsNo("package")
    BY <1>8, Effects DEF Activates, PrintsNo
  <2> QED
    BY <1>4, <1>8, <2>1 DEF BeginNode, EndNode
<1>9. ASSUME NEW p \in Package, BeginPackage(p) \/ FetchReturns(p) PROVE BatchInv'
  <2>1. /\ package[p] \in {"waiting", "open"} /\ p \in members /\ batch # "ended"
        /\ UNCHANGED <<members, batch, batchDone, count>>
    BY <1>3, <1>9 DEF BeginPackage, FetchReturns
  <2>2. PrintsNo("package")
    BY <1>9, Effects DEF Adds, Quiet, Says, PrintsNo
  <2>3. PICK v \in {"open", "fetched"} : package' = [package EXCEPT ![p] = v]
    BY <1>9 DEF BeginPackage, FetchReturns
  <2>4. failed' = failed \/ failed' = failed \union {p}
    BY <1>9 DEF BeginPackage, FetchReturns
  <2>5. \A q \in members :
          /\ package'[q] \in {"counted", "ended"} <=> package[q] \in {"counted", "ended"}
          /\ package'[q] = "ended" <=> package[q] = "ended"
          /\ package[q] = "ended" => (q \in failed' <=> q \in failed)
    BY <1>1, <2>1, <2>3, <2>4 DEF SpanTypeOK
  <2>6. CountInv => CountInv'
    BY <1>1, <2>1, <2>2, <2>5, CountsKept
  <2> QED
    BY <1>5, <2>1, <2>6
<1>10. ASSUME NEW p \in Package, RetireRow(p) PROVE BatchInv'
  <2>1. /\ package[p] = "fetched" /\ batch # "ended"
        /\ UNCHANGED <<members, failed, batch, batchDone, count>>
    BY <1>3, <1>10 DEF RetireRow
  <2>2. ASSUME ~Silent, CountInv PROVE CountInv'
    <3>1. PrintsNo("package") /\ package' = [package EXCEPT ![p] = "retired"]
      BY <1>10, <2>2, Effects DEF RetireRow, Drops, PrintsNo
    <3>2. \A q \in members :
            /\ package'[q] \in {"counted", "ended"} <=> package[q] \in {"counted", "ended"}
            /\ package'[q] = "ended" <=> package[q] = "ended"
      BY <1>1, <2>1, <3>1 DEF SpanTypeOK
    <3> QED
      BY <1>1, <2>1, <2>2, <3>1, <3>2, CountsKept
  <2> QED
    BY <1>5, <2>1, <2>2
<1>11. ASSUME NEW p \in Package, CountPackage(p) \/ PrintPackage(p) PROVE BatchInv'
  <2>1. batch # "ended" /\ UNCHANGED <<members, batch>>
    BY <1>3, <1>11 DEF CountPackage, PrintPackage
  <2>2. CountInv => CountInv'
    BY <1>11, PackageCounted, PackagePrinted
  <2> QED
    BY <1>5, <2>1, <2>2
<1>12. ASSUME NEW p \in Package, Auditor(p) \/ EndAudit(p) PROVE BatchInv'
  <2>1. PrintsNo("package")
    BY <1>12, Effects DEF Auditor, Adds, Drops, Quiet, Says, PrintsNo
  <2>2. batch = "ended" /\ UNCHANGED <<members, failed, batchDone, package, batch>>
    BY <1>2, <1>12 DEF Auditor, BeginAudit, EndAudit, CountAudit, PrintAudit
  <2> QED
    BY <1>4, <2>1, <2>2
<1>13. ASSUME UNCHANGED spanVars,
              UNCHANGED vars \/ \E t \in Ticker : Tick(t) \/ Repainter(t)
       PROVE  BatchInv'
  <2>1. PrintsNo("package")
    BY <1>13, Effects DEF Quiet, PrintsNo
  <2> QED
    BY <1>4, <1>13, <2>1 DEF spanVars
<1> QED
  BY <1>6, <1>7, <1>8, <1>9, <1>10, <1>11, <1>12, <1>13 DEF Next, Reporting, Ended, vars
-----------------------------------------------------------------------------
(* The theorems. *)

\* At first nothing is printed and no span is open.
LEMMA InitRight == Init => Inv
<1> SUFFICES ASSUME Init PROVE Inv
  OBVIOUS
<1>1. /\ rows = <<>> /\ active = {} /\ painted = 0 /\ losses = 0 /\ log = <<>>
      /\ screen = [lines |-> <<>>, cursor |-> 0] /\ enabled \in BOOLEAN
      /\ running = FALSE /\ ticker = 0 /\ closed = {} /\ goroutine = [t \in Ticker |-> "none"]
  BY DEF Init, DisplayInit
<1>2. /\ members \subseteq Package /\ failed = {} /\ mu = {} /\ auditDone = 0 /\ batchDone = 0
      /\ phase = [x \in {Local} \union Package |-> "waiting"]
      /\ node = [n \in Node |-> "waiting"] /\ batch = "waiting"
      /\ package = [p \in Package |-> "waiting"] /\ count = [p \in Package |-> 0]
      /\ logs = 0 /\ command = "running"
  BY DEF Init
<1>3. <<>> \in Seq(Row) /\ <<>> \in Seq(Line) /\ <<>> \in Seq(LogLine) /\ Len(<<>>) = 0
  BY EmptySeq
<1>4. DisplayTypeOK
  <2>1. screen \in [lines : Seq(Line), cursor : Nat]
    BY <1>1, <1>3
  <2>2. goroutine \in [Ticker -> {"none", "waiting", "ticked", "returned"}]
    BY <1>1
  <2>3. ticker \in 0 .. MaxTickers
    BY <1>1, RowsAssumption
  <2> QED
    BY <1>1, <1>3, <2>1, <2>2, <2>3 DEF DisplayTypeOK
<1>5. TypeOK
  BY <1>2, <1>4 DEF TypeOK, SpanTypeOK
<1>6. NestingInv
  BY <1>2 DEF NestingInv, Node
<1>7. RowsAreOpenSpans
  <2>1. Open = {}
    BY <1>2 DEF Open
  <2>2. ToSet(rows) = {} /\ IsInjective(rows)
    BY <1>1, <1>3 DEF ToSet, IsInjective
  <2>3. phase[Local] # "open"
    BY <1>2
  <2> QED
    BY <1>1, <2>1, <2>2, <2>3, OpenRows DEF RowsInv
<1>8. ScreenInv
  <2>1. Block = <<>>
    <3>1. Drawn(<<>>, {}) = <<>>
      BY <1>3, LineTypes
    <3> QED
      BY <1>1, <3>1 DEF Block
  <2>2. Fits(screen)
    BY <1>1, <1>3 DEF Fits, Screens
  <2>3. Holds(screen, log, Block)
    BY <1>1, <1>3, <2>1, <2>2 DEF Holds, Fits
  <2> QED
    BY <1>1, <1>3, <1>4, <2>2, <2>3, ShowsMeans DEF Shows
<1>9. AuditInv
  <2>1. {i \in DOMAIN log : log[i][1] = "audit"} = {}
    BY <1>1, <1>3
  <2> QED
    BY <1>1, <1>2, <2>1, FS_EmptySet DEF AuditInv, AuditLinesInOrder
<1>10. BatchInv
  <2>1. Counted = {}
    BY <1>2 DEF Counted
  <2>2. batchDone = Cardinality(Counted) /\ {count[p] : p \in Counted} = 1 .. batchDone
    BY <1>2, <2>1, FS_EmptySet
  <2>3. \A p \in members : package[p] # "ended"
    BY <1>2
  <2>4. DOMAIN log = {}
    BY <1>1, <1>3
  <2>5. CountInv
    BY <2>2, <2>3, <2>4 DEF CountInv
  <2>6. BatchIsCounted
    BY <1>2 DEF BatchIsCounted
  <2> QED
    BY <2>5, <2>6 DEF BatchInv
<1> QED
  BY <1>5, <1>6, <1>7, <1>8, <1>9, <1>10 DEF Inv

\* Every step keeps the display as it is between two steps.
LEMMA StepShows ==
  ASSUME Inv, [Next]_vars
  PROVE  Shows'
<1>1. Next \/ UNCHANGED vars
  OBVIOUS
<1>2. ASSUME NEW p \in Package,
             BeginPackage(p) \/ FetchReturns(p) \/ Reporting(p) \/ Auditor(p) \/ EndAudit(p)
      PROVE  Shows'
  BY <1>2, Effects DEF Reporting, Auditor, Adds, Drops, Says, Quiet
<1>3. ASSUME NEW n \in Node, BeginNode(n) \/ EndNode(n) PROVE Shows'
  BY <1>3, Effects DEF Activates
<1>4. CASE BeginLocal \/ EndLocal \/ BeginBatch \/ EndBatch \/ Log \/ End
  BY <1>4, Effects DEF Adds, Drops, Says, Quiet, Clears
<1>5. ASSUME NEW t \in Ticker, Tick(t) \/ Repainter(t) PROVE Shows'
  BY <1>5, Effects DEF Quiet
<1>6. CASE UNCHANGED vars
  BY <1>6, Effects DEF Quiet
<1> QED
  BY <1>1, <1>2, <1>3, <1>4, <1>5, <1>6 DEF Next, Ended

\* The invariant is inductive.
LEMMA StepRight ==
  ASSUME Inv, [Next]_vars
  PROVE  Inv'
<1>1. DisplayTypeOK' /\ ScreenInv'
  <2>1. Shows'
    BY StepShows
  <2>2. DisplayTypeOK'
    BY <2>1 DEF Shows
  <2>3. DisplayTypeOK' => (Shows' <=> ScreenInv')
    BY ShowsMeans, PTL
  <2> QED
    BY <2>1, <2>2, <2>3
<1>2. SpanTypeOK' /\ NestingInv' /\ RowsAreOpenSpans' /\ AuditInv' /\ BatchInv'
  BY SpansTyped, SpansNested, RowsRight, AuditsRight, BatchRight
<1> QED
  BY <1>1, <1>2 DEF Inv, TypeOK

\* What is known of the display, the spans and the counters holds in every
\* state of every run of the command.
THEOREM Invariance == Spec => []Inv
<1>1. Init => Inv
  BY InitRight
<1>2. Inv /\ [Next]_vars => Inv'
  BY StepRight
<1> QED
  BY <1>1, <1>2, PTL DEF Spec

\* Every variable has its type.
THEOREM TypeCorrect == Spec => []TypeOK
<1>1. Inv => TypeOK
  BY DEF Inv
<1> QED
  BY <1>1, Invariance, PTL

\* Ordinary output and the live rows never collide: until a frame is lost, the
\* terminal holds the lines printed, then the rows as they are (ui.go:10-12).
THEOREM ScreenIsRight == Spec => []ScreenIsLogAndRows
<1>1. Inv => ScreenIsLogAndRows
  BY DEF Inv, ScreenInv
<1> QED
  BY <1>1, Invariance, PTL

\* The rows are the spans in flight, each once, and the activity of the phase
\* the nodes in flight (reporter.go:36-139).
THEOREM RowsAreRight == Spec => []RowsAreOpenSpans
<1>1. Inv => RowsAreOpenSpans
  BY DEF Inv
<1> QED
  BY <1>1, Invariance, PTL

\* Every package of a batch is reported once, with its outcome and a number of
\* its own (reporter.go:141-161).
THEOREM BatchesAreCounted == Spec => []BatchIsCounted
<1>1. Inv => BatchIsCounted
  BY DEF Inv, BatchInv
<1> QED
  BY <1>1, Invariance, PTL

\* The audits are numbered in the order they are printed (audit_score.go:71-90).
THEOREM AuditsAreInOrder == Spec => []AuditLinesInOrder
<1>1. Inv => AuditLinesInOrder
  BY DEF Inv, AuditInv
<1> QED
  BY <1>1, Invariance, PTL
=============================================================================
