---------------------------- MODULE CommandText ----------------------------
(***************************************************************************)
(* What the command line takes as a time, a date and a run level           *)
(* (scli_date.c, scli_thread.c).  A text is a sequence of digits and other *)
(* characters, ended by the cell behind it.                                *)
(***************************************************************************)
EXTENDS DriverControl, SequencesExt

CONSTANTS
  TypedTimes,    \* the numbers typed as a time, as <<hours, minutes, seconds>>
  TypedDates,    \* and as a date, as <<day, month, year>>
  MaxTypos       \* bound: characters mistyped

ASSUME TextAssumption ==
  /\ TypedTimes \subseteq (0 .. 99) \X (0 .. 99) \X (0 .. 99)
  /\ TypedDates \subseteq (0 .. 99) \X (0 .. 99) \X (0 .. 9999)
  /\ MaxTypos \in Nat

VARIABLES
  form,     \* what the text is typed as
  text,     \* the text
  typos     \* bound: characters mistyped so far

textVars == <<form, text, typos>>

Digits     == 0 .. 9
Characters == {0, 1, 9, 10, 11}     \* 10 stands for ":", 11 for "/"
Colon == 10
Slash == 11
EndOfText == 12                     \* the terminator

TextSizeMax    == 11    \* SCLIDATE_TEXT_SIZE_MAX
LevelDigitsMax == 3     \* SCLITHREAD_COUNT_RUNLEVELDIGITS

TextTypeOK ==
  /\ form \in {"time", "date", "level"}
  /\ text \in Seq(0 .. 11)
  /\ typos \in 0 .. MaxTypos

CharAt(index) == IF index < Len(text) THEN text[index + 1] ELSE EndOfText

-----------------------------------------------------------------------------
(* dateParseField: the digits from an index on, at least and at most so    *)
(* many of them, and the separator behind them.                            *)
Unreadable == [ok |-> FALSE, index |-> 0, value |-> 0]

AddDigit(value, digit) == value * 10 + digit
ValueOf(digits) == FoldLeft(AddDigit, 0, digits)

DigitCount(index, most) ==
  CHOOSE count \in 0 .. most :
    /\ \A i \in index .. index + count - 1 : i < TextSizeMax /\ CharAt(i) \in Digits
    /\ \/ count = most \/ index + count >= TextSizeMax
       \/ CharAt(index + count) \notin Digits

ParseField(field, separator, least, most) ==
  LET count == DigitCount(field.index, most)
      next  == field.index + count
  IN  IF ~field.ok \/ count < least \/ next >= TextSizeMax \/ CharAt(next) # separator
      THEN Unreadable
      ELSE [ok |-> TRUE, index |-> next + 1,
            value |-> ValueOf([i \in 1 .. count |-> CharAt(field.index + i - 1)])]

FirstField == [ok |-> TRUE, index |-> 0, value |-> 0]

Refused == <<>>

(* dateParseTime and dateParseDate: the numbers stored, if any. *)
ParseTime ==
  LET hours   == ParseField(FirstField, Colon, 2, 2)
      minutes == ParseField(hours, Colon, 2, 2)
      seconds == ParseField(minutes, EndOfText, 2, 2)
  IN  IF seconds.ok /\ hours.value <= 23 /\ minutes.value <= 59 /\ seconds.value <= 59
      THEN <<hours.value, minutes.value, seconds.value>> ELSE Refused

ParseDate ==
  LET day   == ParseField(FirstField, Slash, 1, 2)
      month == ParseField(day, Slash, 1, 2)
      year  == ParseField(month, EndOfText, 4, 4)
  IN  IF year.ok /\ year.value \in 2000 .. 2099 /\ month.value \in 1 .. 12
      THEN <<day.value, month.value, year.value - 2000>> ELSE Refused

(* threadRunLevelParse. *)
ParseLevel ==
  LET count == CHOOSE n \in 0 .. LevelDigitsMax :
                 /\ \A i \in 0 .. n - 1 : CharAt(i) \in Digits
                 /\ n = LevelDigitsMax \/ CharAt(n) \notin Digits
      value == ValueOf(SubSeq(text, 1, count))
  IN  IF count > 0 /\ CharAt(count) = EndOfText /\ value \in 1 .. LevelCount - 1
      THEN <<value>> ELSE Refused

-----------------------------------------------------------------------------
(* datePrint. *)
TwoDigits(number) == <<(number \div 10) % 10, number % 10>>

TimeText(hours, minutes, seconds) ==
  TwoDigits(hours) \o <<Colon>> \o TwoDigits(minutes) \o <<Colon>> \o TwoDigits(seconds)

DateText(day, month, year) ==
  TwoDigits(day) \o <<Slash>> \o TwoDigits(month) \o <<Slash>>
    \o TwoDigits(year \div 100) \o TwoDigits(year % 100)

TextInit ==
  /\ form \in {"time", "date", "level"}
  /\ text \in CASE form = "time"  -> {TimeText(t[1], t[2], t[3]) : t \in TypedTimes}
                [] form = "date"  -> {DateText(d[1], d[2], d[3]) : d \in TypedDates}
                [] form = "level" -> {<<1>>, TwoDigits(LevelCount), <<0, 0, 1>>, <<2, 5, 6>>}
  /\ typos = 0

Mistype ==
  /\ typos < MaxTypos /\ typos' = typos + 1
  /\ \/ \E i \in 1 .. Len(text) : text' = RemoveAt(text, i)
     \/ \E c \in Characters :
          \/ \E i \in 1 .. Len(text) + 1 : text' = InsertAt(text, i, c)
          \/ \E i \in 1 .. Len(text) : text' = ReplaceAt(text, i, c)
  /\ UNCHANGED form

TextNext == Mistype

TextSpec == TextInit /\ [][TextNext]_textVars

-----------------------------------------------------------------------------
(* What the text says if it is nothing but three numbers with separators   *)
(* between them, of these lengths.                                         *)
Readings(separator, least, most) ==
  LET Part(from, to) == SubSeq(text, from + 1, to - 1)
      Parts(cut) == <<Part(0, cut[1]), Part(cut[1], cut[2]), Part(cut[2], Len(text) + 1)>>
      cuts == {cut \in (DOMAIN text) \X (DOMAIN text) :
                 /\ cut[1] < cut[2] /\ text[cut[1]] = separator /\ text[cut[2]] = separator
                 /\ \A k \in 1 .. 3 : Parts(cut)[k] \in Seq(Digits)
                                    /\ Len(Parts(cut)[k]) \in least[k] .. most[k]}
  IN  {[k \in 1 .. 3 |-> ValueOf(Parts(cut)[k])] : cut \in cuts}

Meant ==
  CASE form = "time" ->
         {t \in Readings(Colon, <<2, 2, 2>>, <<2, 2, 2>>) :
            t[1] < 24 /\ t[2] < 60 /\ t[3] < 60}
    [] form = "date" ->
         {<<d[1], d[2], d[3] - 2000>> : d \in
            {r \in Readings(Slash, <<1, 1, 4>>, <<2, 2, 4>>) :
               r[2] \in 1 .. 12 /\ r[3] \div 100 = 20}}
    [] form = "level" ->
         {<<n>> : n \in {level \in 1 .. LevelCount - 1 :
                         /\ text \in Seq(Digits) /\ Len(text) \in 1 .. 3
                         /\ level = ValueOf(text)}}

Parsed ==
  CASE form = "time" -> ParseTime [] form = "date" -> ParseDate [] form = "level" -> ParseLevel

(* A text is accepted exactly if it is one of the form asked for, from its *)
(* first to its last character, and is taken for the numbers it shows: "a  *)
(* time hh:mm:ss, a date day/month/year (2000-2099)" (scli_date.c).        *)
TextIsUnderstood ==
  Meant = IF Parsed = Refused THEN {} ELSE {Parsed}
=============================================================================
