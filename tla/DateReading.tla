---------------------------- MODULE DateReading ----------------------------
(***************************************************************************)
(* How the normalizer reads the dates of a sentence.  A sentence mentions  *)
(* dates in the order of the text; a mention is                            *)
(*   form   how it is written: one of Forms                                *)
(*   day    the day of the year it names                                   *)
(*   year   the year it states: a set of at most one                       *)
(*   role   what a reader takes it for, "start" or "end" (the code does    *)
(*          not look at it)                                                *)
(* A year that is not stated is guessed from the day of evaluation.        *)
(***************************************************************************)
EXTENDS Calendar, Sequences

CONSTANT BackdateTolerance   \* how long past a date may be and still be this year's

Forms == <<"iso", "month_day", "day_month", "numeric">>

LOCAL Single(s) == CHOOSE x \in s : TRUE

ResolveYear(m, asOf) ==
  LET candidate == [year |-> asOf.year, day |-> m.day]
  IN  IF m.year # {} THEN Single(m.year)
      ELSE IF DateExists(candidate) /\ Ordinal(asOf) - Ordinal(candidate) > BackdateTolerance
      THEN asOf.year + 1
      ELSE asOf.year

ParseDate(m, asOf) == [year |-> ResolveYear(m, asOf), day |-> m.day]

NoSpan == [starts |-> {}, ends |-> {}]

(* Mutant: a window that crosses the turn of the year is read backwards.    *)
MonthDaySpan_Collapsed(mentions, asOf) ==
  LET date == [i \in DOMAIN mentions |-> ParseDate(mentions[i], asOf)]
  IN  IF Len(mentions) < 2 THEN NoSpan ELSE [starts |-> {date[1]}, ends |-> {date[2]}]

(* The mentions that name a date of the calendar.                           *)
Readable(date) == {i \in DOMAIN date : DateExists(date[i])}

(* Only the dates of the first form that occurs are looked at.              *)
Rank(form) == CHOOSE k \in DOMAIN Forms : Forms[k] = form
OfFirstForm(read, mentions) ==
  {i \in read : \A j \in read : Rank(mentions[i].form) <= Rank(mentions[j].form)}

Forward(start, end) ==
  IF Ordinal(end) < Ordinal(start) THEN Later(end, YearDays - 1) ELSE end

First(found) == CHOOSE i \in found : \A j \in found : i <= j

(* The first date and the next different one, or one date, taken for the    *)
(* end.                                                                     *)
SpanOf(found, date) ==
  LET first  == date[First(found)]
      others == {i \in found : date[i] # first}
  IN  IF found = {} THEN NoSpan
      ELSE IF others = {} THEN [NoSpan EXCEPT !.ends = {first}]
      ELSE [starts |-> {first}, ends |-> {Forward(first, date[First(others)])}]

MonthDaySpan(mentions, asOf) ==
  LET date == [i \in DOMAIN mentions |-> ParseDate(mentions[i], asOf)]
  IN  SpanOf(OfFirstForm(Readable(date), mentions), date)

YearIsExplicit(mentions) == \E i \in DOMAIN mentions : mentions[i].year # {}

=============================================================================
