------------------------------ MODULE ScliProofs ------------------------------
(***************************************************************************)
(* The command line for every line size, argument count and command table: *)
(* the line stays terminated, whatever the sender types, and what is       *)
(* executed was typed in this poll.                                        *)
(***************************************************************************)
EXTENDS Scli, SequenceTheorems, WellFoundedInduction, TLAPS

(* What scliRead hands over: a line terminated in its last cell.           *)
Texts == {text \in [Cells -> Chars] : text[LineSize - 1] = Nul}

CutRecords == {cut \in [from : Cells, to : Cells] : cut.from <= cut.to}

-----------------------------------------------------------------------------
(* Every set of natural numbers that is not empty has a least element.     *)
LEMMA Least ==
  ASSUME NEW S, S \subseteq Nat, S # {}
  PROVE  \E x \in S : \A y \in S : x <= y
<1>1. PICK x \in S : \A y \in S : <<y, x>> \notin OpToRel(<, Nat)
  BY NatLessThanWellFounded, WFMin
<1>2. ASSUME NEW y \in S, y < x PROVE FALSE
  <2>1. <<y, x>> \in OpToRel(<, Nat)
    BY <1>2 DEF OpToRel
  <2>2. QED
    BY <1>1, <2>1
<1>3. QED
  BY <1>2

(* Induction over a set of natural numbers.                                *)
LEMMA Induction ==
  ASSUME NEW S, 0 \in S, \A n \in Nat : n \in S => n + 1 \in S
  PROVE  Nat \subseteq S
<1>1. SUFFICES ASSUME Nat \ S # {} PROVE FALSE
  OBVIOUS
<1>2. PICK x \in Nat \ S : \A y \in Nat \ S : x <= y
  BY <1>1, Least
<1>3. x - 1 \in Nat /\ x - 1 \in S
  BY <1>2
<1>4. QED
  BY <1>2, <1>3

LEMMA MinIsLeast ==
  ASSUME NEW S, S \subseteq Nat, S # {}
  PROVE  Min(S) \in S /\ \A y \in S : Min(S) <= y
<1>1. PICK x \in S : \A y \in S : x <= y
  BY Least
<1>2. QED
  BY <1>1 DEF Min

-----------------------------------------------------------------------------
(* The scans of the tokenizer end inside the line (scliTokenize).          *)
LEMMA ScansEndInside ==
  ASSUME NEW text \in Texts, NEW i \in Cells
  PROVE  /\ StartOf(text, i) \in Cells /\ EndOf(text, i) \in Cells
         /\ i <= StartOf(text, i) /\ i <= EndOf(text, i)
         /\ \A j \in i .. LineSize - 1 :
              /\ text[j] # Space => StartOf(text, i) <= j
              /\ text[j] = Nul => EndOf(text, i) <= j
<1>1. LineSize \in Nat \ {0, 1} /\ Nul # Space
  BY ScliAssumption
<1>2. i \in 0 .. LineSize - 1 /\ LineSize - 1 \in i .. LineSize - 1 /\ text[LineSize - 1] = Nul
  BY <1>1 DEF Cells, Texts
<1> DEFINE words == {j \in i .. LineSize - 1 : text[j] # Space}
           ends  == {j \in i .. LineSize - 1 : text[j] \in {Space, Nul}}
<1>3. words \subseteq Nat /\ LineSize - 1 \in words
      /\ ends \subseteq Nat /\ LineSize - 1 \in ends
  BY <1>1, <1>2
<1>4. /\ Min(words) \in words /\ \A j \in words : Min(words) <= j
      /\ Min(ends) \in ends /\ \A j \in ends : Min(ends) <= j
  BY <1>3, MinIsLeast
<1>5. StartOf(text, i) = Min(words) /\ EndOf(text, i) = Min(ends)
  BY DEF StartOf, EndOf
<1> HIDE DEF words, ends
<1>6. /\ Min(words) \in i .. LineSize - 1 /\ Min(ends) \in i .. LineSize - 1
      /\ \A j \in i .. LineSize - 1 : /\ text[j] # Space => j \in words
                                      /\ text[j] = Nul => j \in ends
  BY <1>4 DEF words, ends
<1>7. QED
  BY <1>1, <1>2, <1>4, <1>5, <1>6 DEF Cells

LEMMA NextCutInside ==
  ASSUME NEW text \in Texts, NEW i \in Cells
  PROVE  /\ NextCut(text, i) \in CutRecords
         /\ i <= NextCut(text, i).from /\ NextCut(text, i).from <= NextCut(text, i).to
         /\ \A j \in i .. LineSize - 1 : text[j] = Nul => NextCut(text, i).to <= j
<1>1. LineSize \in Nat \ {0, 1} /\ Nul # Space
  BY ScliAssumption
<1>2. /\ StartOf(text, i) \in Cells /\ i <= StartOf(text, i)
      /\ \A j \in i .. LineSize - 1 : text[j] = Nul => StartOf(text, i) <= j
  BY <1>1, ScansEndInside
<1>3. PICK from \in Cells : from = StartOf(text, i)
  BY <1>2
<1>4. /\ EndOf(text, from) \in Cells /\ from <= EndOf(text, from)
      /\ \A j \in from .. LineSize - 1 : text[j] = Nul => EndOf(text, from) <= j
  BY ScansEndInside
<1>5. NextCut(text, i) = [from |-> from, to |-> EndOf(text, from)]
  BY <1>3 DEF NextCut
<1>6. QED
  BY <1>1, <1>2, <1>3, <1>4, <1>5 DEF CutRecords, Cells

(* The equation of the function that CutsFrom defines, at one cell.        *)
CutStep(text, cut, i) ==
  IF i = LineSize \/ text[i] = Nul THEN <<>>
  ELSE <<NextCut(text, i)>> \o cut[NextCut(text, i).to + 1]

(* Some function satisfies the equation: from the end of the line to its   *)
(* beginning, each cell adds one case.                                     *)
LEMMA CutsExist ==
  ASSUME NEW text \in Texts
  PROVE  \E cut : cut = [i \in 0 .. LineSize |-> CutStep(text, cut, i)]
<1>1. LineSize \in Nat \ {0, 1}
  BY ScliAssumption
<1> DEFINE Solves(cut, n) ==
             cut = [i \in LineSize - n .. LineSize |-> CutStep(text, cut, i)]
           Solved == {n \in Nat : n <= LineSize => \E cut : Solves(cut, n)}
<1>2. 0 \in Solved
  <2> DEFINE last == [i \in LineSize .. LineSize |-> <<>>]
  <2>1. Solves(last, 0)
    BY <1>1 DEF CutStep
  <2>2. QED
    BY <2>1
<1>3. ASSUME NEW n \in Nat, n \in Solved PROVE n + 1 \in Solved
  <2>1. SUFFICES ASSUME n + 1 <= LineSize PROVE \E cut : Solves(cut, n + 1)
    OBVIOUS
  <2>2. PICK cut : Solves(cut, n)
    BY <1>1, <1>3, <2>1
  <2> DEFINE first == LineSize - (n + 1)
             longer == [i \in first .. LineSize |->
                          IF i = first THEN CutStep(text, cut, first) ELSE cut[i]]
  <2>3. first \in Cells /\ first + 1 = LineSize - n
    BY <1>1, <2>1 DEF Cells
  <2>4. ASSUME NEW i \in first .. LineSize, i # LineSize
        PROVE  /\ i \in Cells
               /\ NextCut(text, i).to + 1 \in first + 1 .. LineSize
    <3>1. i \in Cells
      BY <1>1, <2>1, <2>4 DEF Cells
    <3>2. /\ NextCut(text, i).to \in Cells /\ NextCut(text, i).from \in Cells
          /\ i <= NextCut(text, i).from /\ NextCut(text, i).from <= NextCut(text, i).to
      BY <3>1, NextCutInside DEF CutRecords
    <3>3. QED
      BY <1>1, <2>1, <3>1, <3>2 DEF Cells
  <2>5. ASSUME NEW i \in first .. LineSize
        PROVE  longer[i] = CutStep(text, longer, i)
    <3>1. i # LineSize => longer[NextCut(text, i).to + 1] = cut[NextCut(text, i).to + 1]
      BY <1>1, <2>1, <2>4
    <3>2. CutStep(text, longer, i) = CutStep(text, cut, i)
      BY <3>1 DEF CutStep
    <3>3. CASE i = first
      BY <3>2, <3>3
    <3>4. CASE i # first
      <4>1. i \in LineSize - n .. LineSize
        BY <1>1, <2>1, <3>4
      <4>2. QED
        BY <2>2, <3>2, <3>4, <4>1
    <3>5. QED
      BY <3>3, <3>4
  <2>6. longer = [i \in first .. LineSize |-> longer[i]]
    OBVIOUS
  <2> HIDE DEF longer
  <2>7. longer = [i \in first .. LineSize |-> CutStep(text, longer, i)]
    BY <2>5, <2>6
  <2>8. QED
    BY <2>7
<1>4. LineSize \in Solved
  <2> HIDE DEF Solved
  <2>1. QED
    BY <1>1, <1>2, <1>3, Induction
<1>5. PICK cut : Solves(cut, LineSize)
  BY <1>1, <1>4
<1>6. LineSize - LineSize = 0
  BY <1>1
<1>7. QED
  BY <1>5, <1>6

(* So the one that CutsFrom chooses does (scliTokenize's loop).            *)
LEMMA CutsFromStep ==
  ASSUME NEW text \in Texts
  PROVE  CutsFrom(text) = [i \in 0 .. LineSize |-> CutStep(text, CutsFrom(text), i)]
<1> DEFINE Solves(cut) == cut = [i \in 0 .. LineSize |-> CutStep(text, cut, i)]
<1>1. CutsFrom(text) = CHOOSE cut : Solves(cut)
  BY DEF CutsFrom, CutStep
<1>2. \E cut : Solves(cut)
  BY CutsExist
<1> HIDE DEF Solves
<1>3. Solves(CutsFrom(text))
  BY <1>1, <1>2
<1>4. QED
  BY <1>3 DEF Solves

(* What it yields are words inside the line.                               *)
LEMMA CutsFromType ==
  ASSUME NEW text \in Texts, NEW i \in 0 .. LineSize
  PROVE  CutsFrom(text)[i] \in Seq(CutRecords)
<1>1. LineSize \in Nat \ {0, 1}
  BY ScliAssumption
<1> DEFINE cut == CutsFrom(text)
           Typed == {n \in Nat : \A j \in 0 .. LineSize : LineSize - n <= j => cut[j] \in Seq(CutRecords)}
<1>2. \A j \in 0 .. LineSize : cut[j] = CutStep(text, cut, j)
  BY CutsFromStep
<1> HIDE DEF cut
<1>3. cut[LineSize] \in Seq(CutRecords)
  <2>1. cut[LineSize] = CutStep(text, cut, LineSize)
    BY <1>1, <1>2
  <2>2. CutStep(text, cut, LineSize) = <<>>
    BY DEF CutStep
  <2>3. QED
    BY <2>1, <2>2
<1>4. 0 \in Typed
  <2>1. \A j \in 0 .. LineSize : LineSize - 0 <= j => j = LineSize
    BY <1>1
  <2>2. QED
    BY <1>3, <2>1
<1>5. ASSUME NEW n \in Nat, n \in Typed PROVE n + 1 \in Typed
  <2>1. SUFFICES ASSUME NEW j \in 0 .. LineSize, LineSize - (n + 1) <= j
                 PROVE  cut[j] \in Seq(CutRecords)
    OBVIOUS
  <2>2. CASE j = LineSize \/ text[j] = Nul
    <3>1. cut[j] = <<>>
      BY <1>2, <2>2 DEF CutStep
    <3>2. QED
      BY <3>1
  <2>3. CASE ~(j = LineSize \/ text[j] = Nul)
    <3>1. j \in Cells
      BY <1>1, <2>3 DEF Cells
    <3>2. /\ NextCut(text, j) \in CutRecords
          /\ j <= NextCut(text, j).from /\ NextCut(text, j).from <= NextCut(text, j).to
      BY <3>1, NextCutInside
    <3>3. PICK next \in CutRecords : next = NextCut(text, j)
      BY <3>2
    <3>4. next.to + 1 \in 0 .. LineSize /\ LineSize - n <= next.to + 1
      BY <1>1, <2>1, <3>2, <3>3 DEF CutRecords, Cells
    <3>5. cut[next.to + 1] \in Seq(CutRecords)
      BY <1>5, <3>4
    <3>6. cut[j] = <<next>> \o cut[next.to + 1]
      BY <1>2, <2>3, <3>3 DEF CutStep
    <3>7. <<next>> \in Seq(CutRecords)
      OBVIOUS
    <3>8. QED
      BY <3>5, <3>6, <3>7, ConcatProperties
  <2>4. QED
    BY <2>2, <2>3
<1> HIDE DEF Typed
<1>6. LineSize \in Typed
  BY <1>1, <1>4, <1>5, Induction
<1>7. QED
  BY <1>1, <1>6 DEF Typed, cut

-----------------------------------------------------------------------------
(* The words a line is cut into: no more than there is room for, none of   *)
(* them outside the line, and the first one ends before anything that      *)
(* stands behind a terminator.                                             *)
LEMMA CutsType ==
  ASSUME NEW text \in Texts
  PROVE  /\ Cuts(text) \in Seq(CutRecords) /\ Len(Cuts(text)) <= ArgumentMax
         /\ \A i \in Cells : text[i] = Nul /\ Cuts(text) # <<>>
              => i > 0 /\ Cuts(text)[1].to <= i
<1> DEFINE all == CutsFrom(text)[0]
           kept == Min({Len(all), ArgumentMax})
<1>1. LineSize \in Nat \ {0, 1} /\ ArgumentMax \in Nat \ {0} /\ 0 \in 0 .. LineSize /\ 0 \in Cells
  BY ScliAssumption DEF Cells
<1>2. all \in Seq(CutRecords)
  BY <1>1, CutsFromType
<1>3. all = CutStep(text, CutsFrom(text), 0)
  BY <1>1, CutsFromStep
<1>4. Cuts(text) = SubSeq(all, 1, kept)
  BY DEF Cuts
<1> HIDE DEF all
<1>5. Len(all) \in Nat
  BY <1>2, LenProperties
<1>6. kept \in {Len(all), ArgumentMax} /\ kept <= Len(all) /\ kept <= ArgumentMax
  BY <1>1, <1>5, MinIsLeast
<1> HIDE DEF kept
<1>7. kept \in 0 .. Len(all)
  BY <1>1, <1>5, <1>6
<1>8. /\ Cuts(text) \in Seq(CutRecords) /\ Len(Cuts(text)) = kept
      /\ \A k \in 1 .. kept : Cuts(text)[k] = all[k]
  BY <1>2, <1>4, <1>7, SubSeqProperties
<1>9. ASSUME NEW i \in Cells, text[i] = Nul, Cuts(text) # <<>>
      PROVE  i > 0 /\ Cuts(text)[1].to <= i
  <2>1. kept # 0
    BY <1>8, <1>9
  <2>2. all # <<>>
    BY <1>7, <2>1
  <2>3. text[0] # Nul
    BY <1>3, <2>2 DEF CutStep
  <2>4. i > 0
    BY <1>1, <1>9, <2>3 DEF Cells
  <2>5. /\ NextCut(text, 0) \in CutRecords /\ NextCut(text, 0).to <= i
        /\ 0 <= NextCut(text, 0).from /\ NextCut(text, 0).from <= NextCut(text, 0).to
    BY <1>1, <1>9, <2>4, NextCutInside DEF Cells
  <2>6. PICK next \in CutRecords : next = NextCut(text, 0)
    BY <2>5
  <2>7. next.to + 1 \in 0 .. LineSize
    BY <1>1, <2>5, <2>6 DEF CutRecords, Cells
  <2>8. all = <<next>> \o CutsFrom(text)[next.to + 1]
    BY <1>1, <1>3, <2>3, <2>6 DEF CutStep
  <2>9. CutsFrom(text)[next.to + 1] \in Seq(CutRecords) /\ <<next>> \in Seq(CutRecords)
    BY <2>7, CutsFromType
  <2>10. all[1] = next
    BY <2>8, <2>9, ConcatProperties
  <2>11. Cuts(text)[1] = next
    BY <1>7, <1>8, <2>1, <2>10
  <2>12. QED
    BY <2>4, <2>5, <2>6, <2>11
<1>10. QED
  BY <1>6, <1>8, <1>9

(* What the words of a line are made of.                                   *)
LEMMA WordsType ==
  ASSUME NEW text \in Texts, NEW cuts \in Seq(CutRecords)
  PROVE  /\ Words(text, cuts) \in Seq(Seq(Chars))
         /\ Len(Words(text, cuts)) = Len(cuts)
         /\ Words(text, cuts) # <<>> => cuts # <<>>
<1>1. LineSize \in Nat \ {0, 1}
  BY ScliAssumption
<1>2. ASSUME NEW cut \in CutRecords PROVE Word(text, cut) \in Seq(Chars)
  <2>1. cut.to - cut.from \in Nat
    BY <1>1 DEF CutRecords, Cells
  <2>2. \A k \in 1 .. cut.to - cut.from : text[cut.from + k - 1] \in Chars
    BY <1>1 DEF CutRecords, Cells, Texts
  <2>3. Word(text, cut) \in [1 .. cut.to - cut.from -> Chars]
    BY <2>2 DEF Word
  <2>4. QED
    BY <2>1, <2>3, SeqDef
<1>3. /\ Len(cuts) \in Nat /\ DOMAIN cuts = 1 .. Len(cuts)
      /\ \A k \in DOMAIN cuts : cuts[k] \in CutRecords
  OBVIOUS
<1>4. Words(text, cuts) \in [1 .. Len(cuts) -> Seq(Chars)]
  BY <1>2, <1>3 DEF Words
<1>5. Words(text, cuts) \in Seq(Seq(Chars))
  BY <1>3, <1>4, SeqDef
<1>6. Len(Words(text, cuts)) = Len(cuts)
  BY <1>3, <1>4, <1>5, LenProperties
<1>7. QED
  BY <1>3, <1>5, <1>6

-----------------------------------------------------------------------------
(* The invariant: what is in front of the index was read in this poll, and *)
(* scliRead stops behind the first newline.                                *)
ReadsOneLine ==
  /\ place = "wait" => index = 0
  /\ index > 0 => data = line[index - 1]
  /\ \A i \in 0 .. index - 2 : line[i] # Newline

LineInvariant == TypeOK /\ LineIsTerminated /\ ReadsOneLine

LEMMA LineInitially == Init => LineInvariant
<1> SUFFICES ASSUME Init PROVE LineInvariant
  OBVIOUS
<1>1. LineSize \in Nat \ {0, 1} /\ RxCapacity \in Nat /\ ArgumentMax \in Nat
  BY ScliAssumption
<1>2. Nul \in Chars
  BY DEF Chars
<1>3. /\ rx \in Seq(Chars) /\ Len(rx) <= RxCapacity
      /\ argv \in Seq(Seq(Chars)) /\ Len(argv) <= ArgumentMax
  BY <1>1 DEF Init
<1>4. line \in [Cells -> Chars] /\ index \in Cells /\ line[LineSize - 1] = Nul
  BY <1>1, <1>2 DEF Init, Cells
<1>5. TypeOK
  BY <1>2, <1>3, <1>4 DEF Init, TypeOK
<1>6. ReadsOneLine
  BY DEF Init, ReadsOneLine
<1>7. QED
  BY <1>4, <1>5, <1>6 DEF LineInvariant, LineIsTerminated

(* The line scliRead hands over is terminated, and so is what the cuts     *)
(* leave of it.                                                            *)
LEMMA CutType ==
  ASSUME NEW text \in Texts, NEW cuts
  PROVE  Cut(text, cuts) \in Texts
<1>1. LineSize - 1 \in Cells /\ Nul \in Chars
  BY ScliAssumption DEF Cells, Chars
<1>2. QED
  BY <1>1 DEF Cut, Texts

LEMMA TerminatedType ==
  ASSUME TypeOK, LineIsTerminated
  PROVE  Terminated \in Texts /\ Terminated[index] = Nul
<1>1. LineSize - 1 \in Cells /\ Nul \in Chars
  BY ScliAssumption DEF Cells, Chars
<1>2. QED
  BY <1>1 DEF TypeOK, LineIsTerminated, Terminated, Texts

LEMMA ReadByteKeeps ==
  ASSUME LineInvariant, ReadByte
  PROVE  LineInvariant'
<1> USE DEF LineInvariant
<1>1. LineSize \in Nat \ {0, 1}
  BY ScliAssumption
<1>2. /\ rx # <<>> /\ data' = Head(rx) /\ rx' = Tail(rx) /\ data # Newline
      /\ index \in 0 .. LineSize - 2
      /\ line' = [line EXCEPT ![index] = data'] /\ index' = index + 1
      /\ UNCHANGED <<listening, place, argv>> /\ place = "read"
  BY <1>1 DEF ReadByte, ReadsOn, Rx!Take, TypeOK, Cells
<1>3. data' \in Chars /\ rx' \in Seq(Chars) /\ Len(rx') <= RxCapacity
  <2>1. rx \in Seq(Chars) /\ Len(rx) \in Nat /\ Len(rx) <= RxCapacity /\ RxCapacity \in Nat
    BY ScliAssumption DEF TypeOK
  <2>2. Head(rx) \in Chars /\ Tail(rx) \in Seq(Chars) /\ Len(Tail(rx)) = Len(rx) - 1
    BY <1>2, <2>1, HeadTailProperties
  <2>3. QED
    BY <1>2, <2>1, <2>2
<1>4. /\ line' \in [Cells -> Chars] /\ line'[index] = data' /\ index' \in Cells
      /\ \A i \in Cells \ {index} : line'[i] = line[i]
  BY <1>1, <1>2, <1>3 DEF TypeOK, Cells
<1>5. TypeOK'
  BY <1>2, <1>3, <1>4 DEF TypeOK
<1>6. LineIsTerminated'
  BY <1>1, <1>2, <1>4 DEF LineIsTerminated, Cells
<1>7. \A i \in 0 .. index - 1 : line[i] # Newline
  BY <1>1, <1>2 DEF ReadsOneLine
<1>8. ReadsOneLine'
  BY <1>1, <1>2, <1>4, <1>7 DEF ReadsOneLine, Cells
<1>9. QED
  BY <1>5, <1>6, <1>8

LEMMA LineProcessKeeps ==
  ASSUME LineInvariant, LineProcess
  PROVE  LineInvariant'
<1> USE DEF LineInvariant
<1>1. PICK text \in Texts : text = Terminated
  BY TerminatedType
<1>2. PICK tokens \in Tokens(Cuts(text)) :
        argv' = Words(text, tokens) /\ listening' \in BOOLEAN
  BY <1>1 DEF LineProcess, Dispatch, TypeOK
<1>3. tokens \in Seq(CutRecords) /\ Len(tokens) <= ArgumentMax
  <2>1. Len(<<>>) = 0 /\ ArgumentMax \in Nat /\ <<>> \in Seq(CutRecords)
    BY ScliAssumption, EmptySeq
  <2>2. tokens = Cuts(text) \/ tokens = <<>>
    BY DEF Tokens
  <2>3. Cuts(text) \in Seq(CutRecords) /\ Len(Cuts(text)) <= ArgumentMax
    BY CutsType
  <2>4. CASE tokens = Cuts(text)
    BY <2>3, <2>4
  <2>5. CASE tokens = <<>>
    BY <2>1, <2>5
  <2>6. QED
    BY <2>2, <2>4, <2>5
<1>4. argv' \in Seq(Seq(Chars)) /\ Len(argv') <= ArgumentMax
  BY <1>2, <1>3, WordsType
<1>5. line' \in Texts /\ index' = 0 /\ data' = Nul /\ rx' = rx /\ place' = "wait"
  BY <1>1, CutType DEF LineProcess
<1>6. 0 \in Cells /\ Nul \in Chars
  BY ScliAssumption DEF Cells, Chars
<1>7. TypeOK'
  BY <1>2, <1>4, <1>5, <1>6 DEF TypeOK, Texts
<1>8. LineIsTerminated' /\ ReadsOneLine'
  BY <1>5 DEF LineIsTerminated, ReadsOneLine, Texts
<1>9. QED
  BY <1>7, <1>8

LEMMA LineStep ==
  ASSUME LineInvariant, [Next]_vars
  PROVE  LineInvariant'
<1> USE DEF LineInvariant
<1>1. CASE PollBegin
  <2>1. argv' \in Seq(Seq(Chars)) /\ Len(argv') <= ArgumentMax
    BY <1>1, ScliAssumption DEF PollBegin
  <2>2. QED
    BY <1>1, <2>1 DEF PollBegin, TypeOK, LineIsTerminated, ReadsOneLine
<1>2. ASSUME NEW c \in Chars, Receive(c) PROVE LineInvariant'
  <2>1. rx' = Append(rx, c) /\ Len(rx) < RxCapacity
        /\ UNCHANGED <<listening, place, line, index, data, argv>>
    BY <1>2 DEF Receive, Rx!Put
  <2>2. rx' \in Seq(Chars) /\ Len(rx') <= RxCapacity
    BY <2>1, ScliAssumption, AppendProperties DEF TypeOK
  <2>3. QED
    BY <2>1, <2>2 DEF TypeOK, LineIsTerminated, ReadsOneLine
<1>3. CASE UNCHANGED vars
  BY <1>3 DEF vars, TypeOK, LineIsTerminated, ReadsOneLine
<1>4. QED
  BY <1>1, <1>2, <1>3, ReadByteKeeps, LineProcessKeeps DEF Next, Service

LEMMA LineAlways == Spec => []LineInvariant
BY LineInitially, LineStep, PTL DEF Spec

-----------------------------------------------------------------------------
(* No byte goes outside scli_line and no word outside argv, for lines and  *)
(* words of any length (scliRead, scliTokenize).                           *)
THEOREM ScliTypeCorrect == Spec => []TypeOK
<1>1. LineInvariant => TypeOK
  BY DEF LineInvariant
<1>2. QED
  BY <1>1, LineAlways, PTL

(* The last cell of scli_line terminates it, so that no scan of the        *)
(* tokenizer runs out of the line (scliRead).                              *)
THEOREM LineStaysTerminated == Spec => []LineIsTerminated
<1>1. LineInvariant => LineIsTerminated
  BY DEF LineInvariant
<1>2. QED
  BY <1>1, LineAlways, PTL

LEMMA CommandTypedStep ==
  ASSUME LineInvariant, LineProcess
  PROVE  /\ argv' # <<>> => index > 0 /\ Cuts(Terminated)[1].to <= index
         /\ \A i \in 0 .. index - 2 : line[i] # Newline
<1> USE DEF LineInvariant
<1>1. PICK text \in Texts : text = Terminated /\ text[index] = Nul
  BY TerminatedType
<1>2. PICK tokens \in Tokens(Cuts(text)) : argv' = Words(text, tokens)
  BY <1>1 DEF LineProcess, Dispatch
<1>3. tokens = Cuts(text) \/ tokens = <<>>
  BY DEF Tokens
<1>4. Words(text, <<>>) = <<>>
  BY DEF Words
<1>5. argv' # <<>> => Cuts(text) # <<>>
  BY <1>2, <1>3, <1>4
<1>6. argv' # <<>> => index > 0 /\ Cuts(text)[1].to <= index
  BY <1>1, <1>5, CutsType DEF TypeOK
<1>7. QED
  BY <1>1, <1>6 DEF ReadsOneLine

(* A command that is executed was typed in this poll, and no two lines are *)
(* merged into one, whatever older lines have left behind the terminator   *)
(* (scliRead, scliTokenize, scliCommandDispatch).                          *)
THEOREM CommandsAreTyped == Spec => CommandIsTyped
<1>1. LineInvariant /\ [Next]_vars =>
        [LineProcess =>
           /\ argv' # <<>> => index > 0 /\ Cuts(Terminated)[1].to <= index
           /\ \A i \in 0 .. index - 2 : line[i] # Newline]_vars
  BY CommandTypedStep
<1>2. QED
  BY <1>1, LineAlways, PTL DEF Spec, CommandIsTyped
=============================================================================
