--------------------------- MODULE ClaimTruthProofs ---------------------------
(***************************************************************************)
(* Theorems about what the verdicts of the deterministic layer mean: they  *)
(* are those a careful reader of the whole record would reach.             *)
(*                                                                         *)
(* ClaimMeaning judges a sentence by its topic, the rules compare a claim  *)
(* with the evidence they are shown.  What ties the two together is how    *)
(* the sentence was read (ReadAs) and what the evidence shows of the       *)
(* record (InHand); with that, each rule that concludes something of a     *)
(* claim is right about the value it compares (the lemmas ...Truthful) or  *)
(* about the window (WindowFalse, OfferFalse), and when no rule objects,   *)
(* there is one that found the value to be as stated.                      *)
(***************************************************************************)
EXTENDS CandidateReuse, ClaimPipelineProofs, FiniteSetTheorems

-----------------------------------------------------------------------------
(* Dates.                                                                   *)

(* The years before the n-th that have no leap day.                         *)
Short(n) == {y \in 0..n : y \notin LeapYears /\ y < n}

LEMMA ShortYears ==
  ASSUME NEW n \in Nat
  PROVE  /\ IsFiniteSet(Short(n)) /\ Cardinality(Short(n)) \in Nat
         /\ Cardinality(Short(n + 1))
              = Cardinality(Short(n)) + (IF n \in LeapYears THEN 0 ELSE 1)
<1>1. \A k \in Nat : IsFiniteSet(Short(k)) /\ Cardinality(Short(k)) \in Nat
  <2> TAKE k \in Nat
  <2>1. IsFiniteSet(0..k) BY FS_Interval
  <2>2. Short(k) \subseteq 0..k BY DEF Short
  <2> QED BY <2>1, <2>2, FS_Subset, FS_CardinalityType
<1>2. n \notin Short(n) BY DEF Short
<1>3. CASE n \in LeapYears
  <2>1. Short(n + 1) = Short(n) BY <1>3 DEF Short
  <2> QED BY <1>1, <1>3, <2>1
<1>4. CASE n \notin LeapYears
  <2>1. Short(n + 1) = Short(n) \cup {n} BY <1>4 DEF Short
  <2>2. Cardinality(Short(n) \cup {n}) = Cardinality(Short(n)) + 1
    BY <1>1, <1>2, FS_AddElement
  <2> QED BY <1>1, <1>4, <2>1, <2>2
<1> QED BY <1>1, <1>3, <1>4

LEMMA OrdinalCounts ==
  ASSUME NEW d, d.year \in Nat, d.day \in Nat
  PROVE  Ordinal(d) = d.year * YearDays + d.day
                        - (Cardinality(Short(d.year))
                             + (IF d.year \notin LeapYears /\ d.day > LeapDay THEN 1 ELSE 0))
<1> DEFINE missed == {y \in 0..d.year : y \notin LeapYears /\ (y < d.year \/ d.day > LeapDay)}
<1>1. CASE d.year \notin LeapYears /\ d.day > LeapDay
  <2>1. missed = Short(d.year + 1) BY <1>1 DEF Short
  <2>2. Cardinality(missed) = Cardinality(Short(d.year)) + 1 BY <1>1, <2>1, ShortYears
  <2> QED BY <1>1, <2>2 DEF Ordinal
<1>2. CASE ~(d.year \notin LeapYears /\ d.day > LeapDay)
  <2>1. missed = Short(d.year) BY <1>2 DEF Short
  <2>2. Cardinality(Short(d.year)) \in Nat BY ShortYears
  <2>3. Ordinal(d) = d.year * YearDays + d.day - Cardinality(Short(d.year)) BY <2>1 DEF Ordinal
  <2> QED BY <1>2, <2>2, <2>3
<1> QED BY <1>1, <1>2

LEMMA OrdinalInteger ==
  ASSUME NEW d, d.year \in Nat, d.day \in Nat
  PROVE  Ordinal(d) \in Int
<1>1. Cardinality(Short(d.year)) \in Nat BY ShortYears
<1>2. YearDays \in Nat BY CalendarAssumption
<1>3. d.year * YearDays \in Nat BY <1>2
<1> QED BY <1>1, <1>3, OrdinalCounts

(* The dates of a year come after those of the year before.                 *)
LEMMA NextYearLater ==
  ASSUME NEW d, NEW e, d.year \in Nat, e.year = d.year + 1, DateExists(d), DateExists(e)
  PROVE  Ordinal(d) < Ordinal(e)
<1>1. /\ YearDays \in Nat /\ LeapDay \in 1..YearDays BY CalendarAssumption
<1>2. d.day \in 1..YearDays /\ e.day \in 1..YearDays BY DEF DateExists
<1>3. PICK k \in Nat : k = Cardinality(Short(d.year)) BY ShortYears
<1>4. PICK total \in Nat : total = d.year * YearDays BY <1>1
<1>5. e.year * YearDays = total + YearDays BY <1>1, <1>4
<1>6. Ordinal(d) = total + d.day
                     - (k + (IF d.year \notin LeapYears /\ d.day > LeapDay THEN 1 ELSE 0))
  BY <1>1, <1>2, <1>3, <1>4, OrdinalCounts
<1>7. Ordinal(e) = total + YearDays + e.day
                     - (k + (IF d.year \in LeapYears THEN 0 ELSE 1)
                          + (IF e.year \notin LeapYears /\ e.day > LeapDay THEN 1 ELSE 0))
  BY <1>1, <1>2, <1>3, <1>5, OrdinalCounts, ShortYears
<1>8. d.day = LeapDay => d.year \in LeapYears BY DEF DateExists
<1>9. PICK i, j, n \in 0..1 :
        /\ i = IF d.year \notin LeapYears /\ d.day > LeapDay THEN 1 ELSE 0
        /\ j = IF e.year \notin LeapYears /\ e.day > LeapDay THEN 1 ELSE 0
        /\ n = IF d.year \in LeapYears THEN 0 ELSE 1
  OBVIOUS
<1>10. d.day - i + n <= YearDays
  BY <1>1, <1>2, <1>8, <1>9
<1>11. e.day - j >= 1 BY <1>1, <1>2, <1>9
<1>12. /\ Ordinal(d) = total + d.day - (k + i)
       /\ Ordinal(e) = total + YearDays + e.day - (k + n + j)
  BY <1>6, <1>7, <1>9
<1> QED BY <1>1, <1>2, <1>10, <1>11, <1>12

LEMMA SameYear ==
  ASSUME NEW d, NEW e, d \in Dates, DateExists(e), e.year \in {d.year - 1, d.year, d.year + 1},
         Ordinal(e) = Ordinal(d)
  PROVE  e.year = d.year
<1>1. d.year \in Nat \ {0} /\ DateExists(d) /\ d.day \in Nat BY DEF Dates
<1>2. e.day \in Nat BY CalendarAssumption DEF DateExists
<1>3. Ordinal(d) \in Int BY <1>1, OrdinalInteger
<1>4. CASE e.year = d.year - 1
  <2>1. e.year \in Nat /\ d.year = e.year + 1 BY <1>1, <1>4
  <2>2. Ordinal(e) < Ordinal(d) BY <1>1, <2>1, NextYearLater
  <2> QED BY <1>3, <2>2
<1>5. CASE e.year = d.year + 1
  <2>1. Ordinal(d) < Ordinal(e) BY <1>1, <1>5, NextYearLater
  <2> QED BY <1>3, <2>1
<1> QED BY <1>4, <1>5

LEMMA SameDayOfYear ==
  ASSUME NEW d, NEW e, d.year \in Nat, d.day \in Nat, e.year = d.year, e.day = d.day
  PROVE  Ordinal(d) = Ordinal(e)
BY DEF Ordinal

(* What a claim keeps of a date the sentence mentions.                      *)
KeptDate(claimed, m, inferred) ==
  /\ claimed.day = m.day
  /\ inferred => m.year = {}
  /\ ~inferred => m.year # {} /\ \A y \in m.year : claimed = [year |-> y, day |-> m.day]

LEMMA DaysCompared ==
  ASSUME NEW m, m.day \in Nat, OneOf(m.year, Nat), NEW d \in Dates, NEW claimed,
         NEW inferred \in BOOLEAN, KeptDate(claimed, m, inferred),
         NEW cfg, cfg.grace \in Nat, OneYear(m, d, cfg)
  PROVE  /\ SameDate(m, d, cfg) => DatesAgree(claimed, d, cfg.grace, inferred)
         /\ DateExists(claimed) /\ DatesAgree(claimed, d, cfg.grace, inferred) =>
              SameDate(m, d, cfg)
<1>1. d.year \in Nat \ {0} /\ DateExists(d) /\ d.day \in Nat BY DEF Dates
<1>2. Ordinal(d) \in Int BY <1>1, OrdinalInteger
<1>3. \A e : e.year \in Nat /\ e.day \in Nat =>
        /\ Ordinal(d) - Ordinal(e) \in -cfg.grace..cfg.grace <=> DaysApart(e, d) <= cfg.grace
        /\ DaysApart(e, d) \in Nat /\ (Ordinal(d) = Ordinal(e) => DaysApart(e, d) = 0)
  <2> TAKE e
  <2> HAVE e.year \in Nat /\ e.day \in Nat
  <2>1. Ordinal(e) \in Int BY OrdinalInteger
  <2> QED BY <1>2, <2>1 DEF DaysApart
<1>4. CASE ~inferred
  <2>1. PICK y \in Nat : m.year = {y} /\ claimed = [year |-> y, day |-> m.day]
    BY <1>4 DEF KeptDate, OneOf
  <2>2. SameDate(m, d, cfg) <=> DateExists(claimed) /\ DaysApart(claimed, d) <= cfg.grace
    BY <2>1 DEF SameDate
  <2>3. DatesAgree(claimed, d, cfg.grace, inferred) <=>
          Ordinal(d) - Ordinal(claimed) \in -cfg.grace..cfg.grace
    BY <1>4 DEF DatesAgree
  <2>4. claimed.year \in Nat /\ claimed.day \in Nat BY <2>1
  <2> QED BY <1>3, <2>2, <2>3, <2>4
<1>5. CASE inferred
  <2> DEFINE on(y) == [year |-> y, day |-> m.day]
  <2>1. m.year = {} /\ claimed.day = m.day BY <1>5 DEF KeptDate
  <2>2. SameDate(m, d, cfg) <=>
          \/ m.day = d.day
          \/ \E y \in {d.year - 1, d.year, d.year + 1} :
               DateExists(on(y)) /\ DaysApart(on(y), d) <= cfg.grace
    BY <2>1 DEF SameDate
  <2>3. DatesAgree(claimed, d, cfg.grace, inferred) <=>
          IF DateExists(on(d.year)) THEN Ordinal(d) - Ordinal(on(d.year)) \in -cfg.grace..cfg.grace
          ELSE m.day = d.day
    BY <1>5, <2>1 DEF DatesAgree
  <2>4. \A y \in {d.year - 1, d.year, d.year + 1} : on(y).year \in Nat /\ on(y).day \in Nat
    BY <1>1
  <2>5. \A y \in {d.year - 1, d.year, d.year + 1} :
          DateExists(on(y)) /\ DaysApart(on(y), d) <= cfg.grace => y = d.year
    <3> TAKE y \in {d.year - 1, d.year, d.year + 1}
    <3>1. y # d.year /\ DateExists(on(y)) => DaysApart(on(y), d) > cfg.grace
      BY <2>1 DEF OneYear
    <3>2. DaysApart(on(y), d) \in Nat BY <1>3, <2>4
    <3> QED BY <3>1, <3>2
  <2>6. m.day = d.day => Ordinal(d) = Ordinal(on(d.year)) BY <1>1, SameDayOfYear
  <2> HIDE DEF on
  <2> QED BY <1>3, <2>2, <2>3, <2>4, <2>5, <2>6
<1> QED BY <1>4, <1>5
LEMMA SpanShape ==
  ASSUME NEW mentions, NEW asOf, NEW span, span = MonthDaySpan(mentions, asOf),
         DOMAIN mentions = 1..Len(mentions), Len(mentions) \in Nat
  PROVE  /\ \A d, e \in span.ends : d = e
         /\ \A d, e \in span.starts : d = e
         /\ span # NoSpan => span.ends # {}
         /\ Len(mentions) = 0 => span = NoSpan
         /\ Len(mentions) <= 1 /\ span # NoSpan =>
              /\ DOMAIN mentions = {1} /\ span.starts = {}
              /\ span.ends = {ParseDate(mentions[1], asOf)}
              /\ DateExists(ParseDate(mentions[1], asOf))
<1> DEFINE date == [i \in DOMAIN mentions |-> ParseDate(mentions[i], asOf)]
           found == OfFirstForm(Readable(date), mentions)
           first == date[First(found)]
           others == {i \in found : date[i] # first}
<1>1. span = SpanOf(found, date) BY DEF MonthDaySpan
<1>2. \/ found = {} /\ span = NoSpan
      \/ found # {} /\ others = {} /\ span = [starts |-> {}, ends |-> {first}]
      \/ /\ found # {} /\ others # {}
         /\ span = [starts |-> {first}, ends |-> {Forward(first, date[First(others)])}]
  BY <1>1 DEF SpanOf, NoSpan
<1>3. \A i \in found : i \in DOMAIN mentions /\ DateExists(date[i])
  BY DEF OfFirstForm, Readable
<1>4. \A i \in DOMAIN mentions : date[i] = ParseDate(mentions[i], asOf) OBVIOUS
<1> HIDE DEF date, found, first, others
<1>5. NoSpan.ends = {} /\ NoSpan.starts = {} BY DEF NoSpan
<1>6. Len(mentions) = 0 => found = {} BY <1>3
<1>7. ASSUME Len(mentions) <= 1, span # NoSpan
      PROVE  /\ DOMAIN mentions = {1} /\ span.starts = {}
             /\ span.ends = {ParseDate(mentions[1], asOf)}
             /\ DateExists(ParseDate(mentions[1], asOf))
  <2>1. found # {} BY <1>2, <1>7
  <2>2. Len(mentions) = 1 BY <1>6, <1>7, <2>1
  <2>3. DOMAIN mentions = {1} BY <2>2
  <2>4. found = {1} BY <1>3, <2>1, <2>3
  <2>5. First(found) = 1
    <3>1. 1 \in found /\ \A i \in found : i = 1 /\ 1 <= 1 BY <2>4
    <3> QED BY <3>1 DEF First
  <2>6. first = ParseDate(mentions[1], asOf) BY <1>4, <2>3, <2>5 DEF first
  <2>7. others = {} BY <2>4, <2>5 DEF others, first
  <2>8. DateExists(ParseDate(mentions[1], asOf)) BY <1>3, <1>4, <2>4
  <2>9. span.starts = {} /\ span.ends = {first}
    <3>1. span = [starts |-> {}, ends |-> {first}] BY <1>2, <2>1, <2>7
    <3> QED BY <3>1
  <2> QED BY <2>3, <2>6, <2>8, <2>9
<1>8. /\ \A d, e \in span.ends : d = e
      /\ \A d, e \in span.starts : d = e
      /\ span # NoSpan => span.ends # {}
  <2>1. CASE span = NoSpan BY <1>5, <2>1
  <2>2. CASE span # NoSpan
    <3>1. CASE span = [starts |-> {}, ends |-> {first}] BY <3>1
    <3>2. CASE span = [starts |-> {first}, ends |-> {Forward(first, date[First(others)])}]
      BY <3>2
    <3> QED BY <1>2, <2>2, <3>1, <3>2
  <2> QED BY <2>1, <2>2
<1> QED BY <1>2, <1>6, <1>7, <1>8

(* The dates of the span are those the sentence gives to the role.          *)
Side(role, span) == IF role = "end" THEN span.ends ELSE span.starts

LEMMA RoleRead ==
  ASSUME NEW r, DatesRead(r), WellFormed(r.sentence), NEW role \in {"start", "end"},
         NEW span, span = MonthDaySpan(r.sentence.dates, r.asOf), span # NoSpan,
         NEW claimed \in Side(role, span), NEW inferred,
         inferred <=> ~YearIsExplicit(r.sentence.dates)
  PROVE  \E i \in DOMAIN r.sentence.dates :
           r.sentence.dates[i].role = role /\ KeptDate(claimed, r.sentence.dates[i], inferred)
<1> DEFINE dates == r.sentence.dates
           Days(who) == {dates[i].day : i \in {j \in DOMAIN dates : dates[j].role = who}}
<1>1. DOMAIN dates = 1..Len(dates) /\ Len(dates) \in Nat BY DEF WellFormed
<1>2. \A d \in Side(role, span) : d = claimed BY <1>1, SpanShape DEF Side
<1>3. /\ Days("start") = {d.day : d \in span.starts}
      /\ Days("end") = {d.day : d \in span.ends}
      /\ \A i \in DOMAIN dates : \A y \in dates[i].year :
           [year |-> y, day |-> dates[i].day] \in Side(dates[i].role, span)
      /\ \A i, j \in DOMAIN dates : dates[i].year = {} => dates[j].year = {}
  BY DEF DatesRead, Side
<1>4. claimed.day \in Days(role) BY <1>3 DEF Side
<1>5. PICK i \in DOMAIN dates : dates[i].role = role /\ dates[i].day = claimed.day BY <1>4
<1>6. \A y \in dates[i].year : [year |-> y, day |-> dates[i].day] = claimed BY <1>2, <1>3, <1>5
<1>7. inferred => dates[i].year = {} BY DEF YearIsExplicit
<1>8. ~inferred => dates[i].year # {} BY <1>3 DEF YearIsExplicit
<1>9. KeptDate(claimed, dates[i], inferred) BY <1>5, <1>6, <1>7, <1>8 DEF KeptDate
<1> QED BY <1>5, <1>9

(* Evidence shows a column of the record or leaves it out.                  *)
Partial(e, record) == \A a \in Attributes : e.fields[a] = {} \/ e.fields[a] = record[a]

LEMMA OneDateJudged ==
  ASSUME NEW m, m.day \in Nat, OneOf(m.year, Nat), m.role \in {"start", "end"},
         NEW record, OneValued(record), NEW cfg, cfg.grace \in Nat,
         NEW column, column = IF m.role = "end" THEN "offer_end" ELSE "offer_start",
         record[column] # {}, \A d \in record[column] : OneYear(m, d, cfg), NEW claimed, NEW inferred \in BOOLEAN,
         KeptDate(claimed, m, inferred)
  PROVE  /\ ~DatesAgree(claimed, Only(record[column]), cfg.grace, inferred) =>
              OneDate(m, record, cfg) = "false"
         /\ DateExists(claimed) /\ DatesAgree(claimed, Only(record[column]), cfg.grace, inferred) =>
              OneDate(m, record, cfg) = "true"
<1> DEFINE d == Only(record[column])
<1>1. d \in Dates /\ OneYear(m, d, cfg)
  <2>1. OneOf(record[column], Dates) BY DEF OneValued
  <2>2. d \in record[column] BY OnlyOne
  <2> HIDE DEF d
  <2> QED BY <2>1, <2>2 DEF OneOf
<1>2. OneDate(m, record, cfg) = Judge(SameDate(m, d, cfg)) BY DEF OneDate
<1>3. /\ SameDate(m, d, cfg) => DatesAgree(claimed, d, cfg.grace, inferred)
      /\ DateExists(claimed) /\ DatesAgree(claimed, d, cfg.grace, inferred) => SameDate(m, d, cfg)
  BY <1>1, DaysCompared
<1> QED BY <1>2, <1>3 DEF Judge

(* Only a grace brings the turn of the year into it: what is proved below   *)
(* of sentences with no turn near holds of all of them where there is none. *)
LEMMA NoGraceNoTurn ==
  ASSUME NEW r \in Requests, NEW p, p.grace = 0, NEW record, OneValued(record)
  PROVE  NoTurnNear(r.sentence, record, p)
<1> DEFINE s == r.sentence
<1> SUFFICES ASSUME NEW i \in DOMAIN s.dates,
                    NEW d \in record["offer_start"] \cup record["offer_end"],
                    NEW y \in {d.year - 1, d.year + 1},
                    NEW e, e = [year |-> y, day |-> s.dates[i].day], DateExists(e)
             PROVE  DaysApart(e, d) > 0
  BY DEF NoTurnNear, OneYear
<1>1. d \in Dates BY DEF OneValued, OneOf
<1>2. d.year \in Nat \ {0} /\ d.day \in Nat BY <1>1 DEF Dates
<1>3. e.year \in {d.year - 1, d.year, d.year + 1} /\ e.year # d.year BY <1>2
<1>4. Ordinal(e) # Ordinal(d) BY <1>1, <1>3, SameYear
<1>5. e.year \in Nat /\ e.day \in Nat BY <1>2, <1>3, CalendarAssumption DEF DateExists
<1>6. Ordinal(d) \in Int /\ Ordinal(e) \in Int BY <1>2, <1>5, OrdinalInteger
<1> QED BY <1>4, <1>6 DEF DaysApart

(* A window that the rule finds to differ is one a reader finds to differ.  *)
LEMMA WindowContradicts ==
  ASSUME NEW r \in Requests, NEW p, NEW c, NEW x, InContextOf(c, x, r.sentence, r.asOf, p),
         DatesRead(r), p.grace \in Nat, NEW record, OneValued(record),
         NoTurnNear(r.sentence, record, p),
         NEW e, Partial(e, record), ~(Expired(c) /\ e.fields["offer_end"] # {}),
         PromotionWindow(c, e, p, r.asOf).verdict = "CONTRADICTED"
  PROVE  StatedWindow(r.sentence, record, p) = "false"
<1> DEFINE s == r.sentence
           span == StatedSpan(s, r.asOf)
           guessed == ~YearIsExplicit(s.dates)
<1>1. WellFormed(s) BY RequestAssumption
<1>2. \A role, column : role \in {"start", "end"}
        /\ column = (IF role = "end" THEN "offer_end" ELSE "offer_start")
        /\ Side(role, span) # {} /\ record[column] # {}
        /\ ~DatesAgree(Only(Side(role, span)), Only(record[column]), p.grace, c.inferred)
        => StatedWindow(s, record, p) = "false"
  <2> SUFFICES ASSUME NEW role \in {"start", "end"}, NEW column,
                      column = (IF role = "end" THEN "offer_end" ELSE "offer_start"),
                      Side(role, span) # {}, record[column] # {},
                      ~DatesAgree(Only(Side(role, span)), Only(record[column]), p.grace, c.inferred)
               PROVE  StatedWindow(s, record, p) = "false"
    OBVIOUS
  <2>1. span # NoSpan BY DEF Side, NoSpan
  <2>2. span = MonthDaySpan(s.dates, r.asOf) BY <2>1 DEF StatedSpan
  <2>3. c.inferred <=> guessed BY <2>1 DEF InContextOf
  <2>4. PICK claimed \in Side(role, span) : claimed = Only(Side(role, span)) BY OnlyOne
  <2>5. ~DatesAgree(claimed, Only(record[column]), p.grace, guessed)
    BY <2>3, <2>4 DEF DatesAgree
  <2>6. PICK i \in DOMAIN s.dates : s.dates[i].role = role /\ KeptDate(claimed, s.dates[i], guessed)
    BY <1>1, <2>1, <2>2, RoleRead
  <2>7. s.dates[i].day \in Nat /\ OneOf(s.dates[i].year, Nat)
    <3>1. s.dates \in Seq(Mentions) /\ OneOf(s.dates[i].year, Nat) BY <1>1 DEF WellFormed
    <3>2. s.dates[i] \in Mentions BY <3>1
    <3> QED BY <3>1, <3>2 DEF Mentions
  <2>8. OneDate(s.dates[i], record, p) = "false"
    <3>1. \A d \in record[column] : OneYear(s.dates[i], d, p) BY <2>6 DEF NoTurnNear
    <3> QED BY <2>5, <2>6, <2>7, <3>1, OneDateJudged
  <2>9. "false" \in {OneDate(s.dates[j], record, p) : j \in DOMAIN s.dates} BY <2>8
  <2> QED BY <2>9 DEF StatedWindow, Together
<1>3. c.starts = span.starts /\ c.ends = span.ends BY DEF InContextOf
<1>4. /\ {"offer_start", "offer_end"} \subseteq Attributes
      /\ \A a \in {"offer_start", "offer_end"} : e.fields[a] # {} => e.fields[a] = record[a]
  BY DEF Partial, Attributes
<1>5. \/ /\ c.ends # {} /\ e.fields["offer_end"] # {}
         /\ ~DatesAgree(Only(c.ends), Only(e.fields["offer_end"]), p.grace, c.inferred)
      \/ /\ c.starts # {} /\ e.fields["offer_start"] # {}
         /\ ~DatesAgree(Only(c.starts), Only(e.fields["offer_start"]), p.grace, c.inferred)
  BY DEF PromotionWindow, Supported, Contradicted, Abstain, Fired
<1> HIDE DEF span
<1>6. CASE /\ c.ends # {} /\ e.fields["offer_end"] # {}
           /\ ~DatesAgree(Only(c.ends), Only(e.fields["offer_end"]), p.grace, c.inferred)
  <2>1. Side("end", span) = c.ends /\ record["offer_end"] = e.fields["offer_end"]
    BY <1>3, <1>4, <1>6 DEF Side
  <2> QED BY <1>2, <1>6, <2>1
<1>7. CASE /\ c.starts # {} /\ e.fields["offer_start"] # {}
           /\ ~DatesAgree(Only(c.starts), Only(e.fields["offer_start"]), p.grace, c.inferred)
  <2>1. Side("start", span) = c.starts /\ record["offer_start"] = e.fields["offer_start"]
    BY <1>3, <1>4, <1>7 DEF Side
  <2> QED BY <1>2, <1>7, <2>1
<1> QED BY <1>5, <1>6, <1>7

(* A single date the rule does not object to is the one of the record, if   *)
(* the record has it.                                                       *)
LEMMA WindowAgrees ==
  ASSUME NEW r \in Requests, NEW p, NEW c, NEW x, InContextOf(c, x, r.sentence, r.asOf, p),
         DatesRead(r), DatesNoticed(r), DatedOnce(r), p.grace \in Nat,
         NEW record, OneValued(record), NoTurnNear(r.sentence, record, p), NEW e,
         c.ends # {} => e.fields["offer_end"] = record["offer_end"] /\ ~Expired(c),
         c.ends # {} /\ record["offer_end"] # {} =>
           PromotionWindow(c, e, p, r.asOf).verdict # "CONTRADICTED"
  PROVE  /\ StatedWindow(r.sentence, record, p) # "false"
         /\ c.ends # {} /\ record["offer_end"] # {} =>
              StatedWindow(r.sentence, record, p) = "true"
         /\ c.starts \cup c.ends = {} <=> r.sentence.dates = <<>>
<1> DEFINE s == r.sentence
           span == StatedSpan(s, r.asOf)
           guessed == ~YearIsExplicit(s.dates)
<1>1. WellFormed(s) BY RequestAssumption
<1>2. s.dates \in Seq(Mentions) /\ \A i \in DOMAIN s.dates : OneOf(s.dates[i].year, Nat)
  BY <1>1 DEF WellFormed
<1>3. DOMAIN s.dates = 1..Len(s.dates) /\ Len(s.dates) \in Nat BY <1>2
<1>4. c.starts = span.starts /\ c.ends = span.ends BY DEF InContextOf
<1>5. CASE s.dates = <<>>
  <2>1. MonthDaySpan(s.dates, r.asOf) = NoSpan BY <1>3, <1>5, SpanShape
  <2>2. c.starts = {} /\ c.ends = {} BY <1>4, <2>1 DEF StatedSpan, NoSpan
  <2>3. {OneDate(s.dates[i], record, p) : i \in DOMAIN s.dates} = {} BY <1>3, <1>5
  <2>4. StatedWindow(s, record, p) = "open" BY <2>3 DEF StatedWindow, Together
  <2> QED BY <1>5, <2>2, <2>4
<1>6. CASE s.dates # <<>>
  <2>1. span = MonthDaySpan(s.dates, r.asOf) /\ span # NoSpan
    BY <1>6 DEF DatesNoticed, StatedSpan
  <2>2. PICK claimed : claimed = ParseDate(s.dates[1], r.asOf) OBVIOUS
  <2>3. DOMAIN s.dates = {1} /\ span.ends = {claimed} /\ DateExists(claimed)
    BY <1>3, <2>1, <2>2, SpanShape DEF DatedOnce
  <2>4. claimed \in Side("end", span) BY <2>3 DEF Side
  <2>5. \E i \in DOMAIN s.dates :
          s.dates[i].role = "end" /\ KeptDate(claimed, s.dates[i], guessed)
    BY <1>1, <2>1, <2>4, RoleRead
  <2>6. s.dates[1].role = "end" /\ KeptDate(claimed, s.dates[1], guessed) BY <2>3, <2>5
  <2>7. s.dates[1].day \in Nat /\ OneOf(s.dates[1].year, Nat)
    <3>1. s.dates[1] \in Mentions BY <1>2, <2>3
    <3> QED BY <1>2, <2>3, <3>1 DEF Mentions
  <2>8. {OneDate(s.dates[i], record, p) : i \in DOMAIN s.dates} = {OneDate(s.dates[1], record, p)}
    BY <2>3
  <2>9. CASE record["offer_end"] = {}
    <3>1. OneDate(s.dates[1], record, p) = "open" BY <2>6, <2>9 DEF OneDate
    <3>2. StatedWindow(s, record, p) = "open" BY <2>8, <3>1 DEF StatedWindow, Together
    <3> QED BY <1>4, <1>6, <2>3, <2>9, <3>2
  <2>10. CASE record["offer_end"] # {}
    <3>1. c.inferred <=> guessed BY <2>1 DEF InContextOf
    <3>2. Only(c.ends) = claimed /\ c.ends # {} BY <1>4, <2>3 DEF Only
    <3>3. DatesAgree(claimed, Only(record["offer_end"]), p.grace, c.inferred)
      <4>1. /\ e.fields["offer_end"] = record["offer_end"] /\ ~Expired(c)
            /\ PromotionWindow(c, e, p, r.asOf).verdict # "CONTRADICTED"
        BY <2>10, <3>2
      <4> QED BY <2>10, <3>2, <4>1 DEF PromotionWindow, Contradicted, Fired
    <3>4. DatesAgree(claimed, Only(record["offer_end"]), p.grace, guessed)
      BY <3>1, <3>3 DEF DatesAgree
    <3>5. OneDate(s.dates[1], record, p) = "true"
      <4>1. \A d \in record["offer_end"] : OneYear(s.dates[1], d, p) BY <2>3 DEF NoTurnNear
      <4> QED BY <2>3, <2>6, <2>7, <2>10, <3>4, <4>1, OneDateJudged
    <3>6. StatedWindow(s, record, p) = "true" BY <2>8, <3>5 DEF StatedWindow, Together
    <3> QED BY <1>6, <3>2, <3>6
  <2> QED BY <2>9, <2>10
<1> QED BY <1>5, <1>6

-----------------------------------------------------------------------------
(* What a definite conclusion rests on.                                     *)
LEMMA DefiniteConclusion ==
  ASSUME NEW rules, NEW c, c.conf \in 0..100, NEW e, NEW p, NEW day,
         NEW f, f = ConcludedOn(rules, c, e, p, day), f.verdict \in Definite
  PROVE  /\ \E x \in rules : Applies(x, c, e) /\ Evaluate(x, c, e, p, day).verdict = f.verdict
         /\ \A x \in rules : Applies(x, c, e) => ~Closes(Evaluate(x, c, e, p, day))
         /\ f.verdict = "SUPPORTED" =>
              \A x \in rules : Applies(x, c, e) =>
                Evaluate(x, c, e, p, day).verdict \notin {"CONTRADICTED", "INSUFFICIENT_EVIDENCE"}
         /\ f.conf <= c.conf /\ (~f.escalate => f.conf >= p.minConf)
<1> DEFINE tried == Tried(rules, c, e, p, day)
           gates == {o \in tried : Closes(o)}
           against == Having("CONTRADICTED", tried)
           open == Having("INSUFFICIENT_EVIDENCE", tried)
           for == Having("SUPPORTED", tried)
           n == Cardinality(tried)
<1>1. \A o, m : Abstained(o, m).verdict = "INSUFFICIENT_EVIDENCE"
  BY DEF Abstained, RuleResult
<1>2. gates = {} /\ f = Reconciled(tried, c, p)
  BY <1>1 DEF ConcludedOn, Definite
<1>3. \/ /\ against # {}
         /\ f = Gated("CONTRADICTED", Highest(against), Codes(against), n, c,
                      p.allowContradicted, p.minConf)
      \/ /\ against = {} /\ open # {}
         /\ f = Abstained(Only({o \in open : o.conf = Highest(open)}), n)
      \/ /\ against = {} /\ open = {} /\ for # {}
         /\ f = Gated("SUPPORTED", Lowest(for), Codes(for), n, c, p.allowSupported, p.minConf)
      \/ f = RuleResult("none", 0, {}, n, TRUE)
  BY <1>2 DEF Reconciled
<1>4. RuleResult("none", 0, {}, n, TRUE).verdict = "none" BY DEF RuleResult
<1> HIDE DEF against, open, for, n
<1> DEFINE Firm(g, v) == /\ g.verdict = v /\ g.conf <= c.conf
                         /\ ~g.escalate => g.conf >= p.minConf
<1>5. \A v, k, codes, m, allowed : Firm(Gated(v, k, codes, m, c, allowed, p.minConf), v)
  <2> TAKE v, k, codes, m, allowed
  <2> DEFINE g == Gated(v, k, codes, m, c, allowed, p.minConf)
             terminal == allowed /\ Weaker(k, c.conf) >= p.minConf
  <2>1. g.verdict = v /\ g.conf = Weaker(k, c.conf) /\ g.escalate = ~terminal
    BY DEF Gated, RuleResult
  <2>2. Weaker(k, c.conf) <= c.conf BY DEF Weaker
  <2> HIDE DEF g
  <2>3. ~g.escalate => Weaker(k, c.conf) >= p.minConf BY <2>1
  <2>4. Firm(g, v) BY <2>1, <2>2, <2>3
  <2> QED BY <2>4 DEF g
<1> HIDE DEF Firm
<1>s. \/ against # {} /\ Firm(f, "CONTRADICTED")
      \/ against = {} /\ open = {} /\ for # {} /\ Firm(f, "SUPPORTED")
  BY <1>1, <1>3, <1>4, <1>5 DEF Definite
<1>6. \/ against # {} /\ f.verdict = "CONTRADICTED"
      \/ against = {} /\ open = {} /\ for # {} /\ f.verdict = "SUPPORTED"
  BY <1>s DEF Firm
<1>7. f.conf <= c.conf /\ (~f.escalate => f.conf >= p.minConf)
  BY <1>s DEF Firm
<1>8. \A x \in rules : Applies(x, c, e) => Evaluate(x, c, e, p, day) \in tried BY DEF Tried
<1>9. \A o \in tried : \E x \in rules : Applies(x, c, e) /\ Evaluate(x, c, e, p, day) = o
  BY DEF Tried
<1>10. \A x \in rules : Applies(x, c, e) => ~Closes(Evaluate(x, c, e, p, day))
  BY <1>2, <1>8
<1>11. \E o \in tried : o.verdict = f.verdict
  BY <1>6 DEF against, for, Having
<1>12. \E x \in rules : Applies(x, c, e) /\ Evaluate(x, c, e, p, day).verdict = f.verdict
  BY <1>9, <1>11
<1>13. f.verdict = "SUPPORTED" =>
         \A o \in tried : o.verdict \notin {"CONTRADICTED", "INSUFFICIENT_EVIDENCE"}
  BY <1>6 DEF against, open, Having
<1> QED BY <1>7, <1>8, <1>10, <1>12, <1>13

(* Without a record no rule says anything definite.                         *)
LEMMA NothingKnown ==
  ASSUME NEW rule \in RuleNames, NEW c, NEW e, e = NoEvidence(c), NEW p, NEW day,
         Applies(rule, c, e)
  PROVE  Evaluate(rule, c, e, p, day).verdict \notin Definite
<1>1. \A a : ~Has(e, a) BY DEF NoEvidence, Has
<1>2. ~e.found /\ \A a \in Attributes : e.fields[a] = {} BY DEF NoEvidence
<1>3. IsEmpty(e) /\ ~HasWindow(e) BY <1>1, <1>2 DEF IsEmpty, HasWindow
<1>4. {"free_shipping", "shipping_cost", "included_features", "excluded_features"}
        \subseteq Attributes
  BY DEF Attributes, NumericAttributes, MoneyAttributes
<1>5. \/ rule = "entity_resolution" \/ rule = "free_shipping" \/ rule = "feature_membership"
  BY <1>1, <1>3, KnownRules DEF Applies
<1>6. CASE rule = "entity_resolution"
  BY <1>3, <1>6 DEF Evaluate, EntityResolution, Insufficient, Fired, Definite
<1>7. CASE rule = "free_shipping"
  BY <1>2, <1>4, <1>7 DEF Evaluate, FreeShipping, Abstain, Fired, Definite
<1>8. CASE rule = "feature_membership"
  BY <1>2, <1>4, <1>8 DEF Evaluate, FeatureMembership, Insufficient, Fired, Definite
<1> QED BY <1>5, <1>6, <1>7, <1>8

(* The column a claim is compared with.                                     *)
LEMMA ColumnRead ==
  ASSUME NEW c, NEW record, c.attribute # "unknown"
  PROVE  EffectiveAttribute(c, record)
           = IF c.attribute \in {"price", "subscription_price"}
             THEN PriceColumn(c.attribute, record) ELSE c.attribute
<1>1. Fallback(c.attribute) = c.attribute \/ c.attribute \in {"price", "subscription_price"}
  BY DEF Fallback
<1>2. Fallback("price") # "price" /\ Fallback("subscription_price") # "subscription_price"
  BY DEF Fallback
<1> QED BY <1>1, <1>2 DEF EffectiveAttribute, PriceColumn

(* A claim that passes field presence is about a column the record has.     *)
LEMMA ColumnPresent ==
  ASSUME NEW c, NEW record, NEW offer, NEW p, NEW day, NEW e, e = Evidence(c, record, offer, p),
         IsParsed(c), c.attribute \in Columns,
         Applies("field_presence", c, e) => ~Closes(Evaluate("field_presence", c, e, p, day))
  PROVE  /\ Partial(e, record) /\ ~IsEmpty(e)
         /\ e.attribute = EffectiveAttribute(c, record) /\ e.attribute \in Columns
         /\ \/ e.fields[e.attribute] # {}
            \/ e.attribute = "free_shipping" /\ e.fields["shipping_cost"] # {}
<1>1. PICK effective : effective = EffectiveAttribute(c, record) OBVIOUS
<1>2. effective \in Columns
  <2>1. effective \in {c.attribute, Fallback(c.attribute)} BY <1>1 DEF EffectiveAttribute
  <2>2. Fallback(c.attribute) \in {c.attribute, "price", "subscription_price"} BY DEF Fallback
  <2>3. {"price", "subscription_price"} \subseteq Columns
    BY DEF Columns, Attributes, NumericAttributes, MoneyAttributes
  <2> QED BY <2>1, <2>2, <2>3
<1>3. Presents(e, offer, effective) BY <1>1, ScopeShown
<1>4. effective \in Attributes /\ effective # "unknown"
  BY <1>2 DEF Columns, Attributes, NumericAttributes, MoneyAttributes
<1>5. ~IsEmpty(e) BY <1>3, <1>4 DEF IsEmpty, Absent, Presents
<1>6. Partial(e, record) BY DEF Partial, Evidence
<1>7. e.attribute = effective BY <1>3 DEF Presents
<1>8. ~Closes(FieldPresence(c, e))
  <2>1. Applies("field_presence", c, e) BY <1>4, <1>5, <1>7 DEF Applies
  <2> QED BY <2>1 DEF Evaluate
<1>9. Has(e, e.attribute) \/ (e.attribute = "free_shipping" /\ Has(e, "shipping_cost"))
  BY <1>8 DEF FieldPresence, Closes, GateRules, Insufficient, Fired
<1> QED BY <1>1, <1>2, <1>5, <1>6, <1>7, <1>9 DEF Has

-----------------------------------------------------------------------------
(* Silence.                                                                 *)
Featured == {"FEATURE_INCLUSION", "FEATURE_EXCLUSION"}

LEMMA ParseTypes ==
  \A t, a, o, k, n, u, m, w :
    /\ Parsed(t, a, o, k).type = t /\ Number(Parsed(t, a, o, k), n, u).type = t
    /\ Money(Parsed(t, a, o, k), m).type = t /\ Word(Parsed(t, a, o, k), w).type = t
    /\ Flag(Parsed(t, a, o, k), w).type = t
BY ParseFields DEF Says

(* Only the last matcher reads features.                                    *)
LEMMA LastMatcher ==
  ASSUME NEW s, NEW negated, NEW asOf, NEW i \in 1..9, NEW x \in Cascade(s, negated, asOf)[i]
  PROVE  x.type \notin Featured
<1> DEFINE Other(parses) == \A y \in parses : y.type \notin Featured
<1>1. Other(MatchTrial(s, negated)) BY ParseTypes DEF MatchTrial, Featured
<1>2. Other(MatchShipping(s, negated))
  <2> SUFFICES ASSUME NEW y \in MatchShipping(s, negated) PROVE y.type \notin Featured
    OBVIOUS
  <2>1. \/ \E o, w : y = Flag(Parsed("SHIPPING", "free_shipping", o, 95), w)
        \/ \E m : y = Money(Parsed("SHIPPING", "shipping_cost", "EQUALS", 90), m)
        \/ y = Parsed("UNKNOWN", "unknown", "EQUALS", 0)
    BY DEF MatchShipping, Unclassified
  <2>2. y.type \in {"SHIPPING", "UNKNOWN"} BY <2>1, ParseTypes
  <2> QED BY <2>2 DEF Featured
<1>3. Other(MatchMinimumPurchase(s, negated))
  BY ParseTypes DEF MatchMinimumPurchase, Featured
<1>4. Other(MatchDiscount(s)) BY ParseTypes DEF MatchDiscount, Featured
<1>5. Other(MatchRegion(s, negated)) BY ParseTypes DEF MatchRegion, Featured
<1>6. Other(MatchAvailability(s, negated)) BY ParseTypes DEF MatchAvailability, Featured
<1>7. Other(MatchSubscription(s)) BY ParseTypes DEF MatchSubscription, Featured
<1>8. Other(MatchPrice(s)) BY ParseTypes DEF MatchPrice, Featured
<1>9. Other(MatchPromotionDates(s, asOf))
  <2> SUFFICES ASSUME NEW y \in MatchPromotionDates(s, asOf) PROVE y.type \notin Featured
    OBVIOUS
  <2> DEFINE Dated(a) == [Parsed("PROMOTION_DATES", a, "EQUALS", 92) EXCEPT !.kind = "date",
                                                                          !.unit = "date"]
             Over == [Parsed("PROMOTION_DATES", "offer_end", "LESS_THAN", 85)
                        EXCEPT !.kind = "date"]
  <2>1. y \in {Dated("offer_end"), Dated("offer_start"), Over}
    BY DEF MatchPromotionDates, DatesClaim
  <2>2. (\A a : Dated(a).type = "PROMOTION_DATES") /\ Over.type = "PROMOTION_DATES"
    BY DEF Parsed
  <2> HIDE DEF Dated, Over
  <2> QED BY <2>1, <2>2 DEF Featured
<1> HIDE DEF Other
<1>10. \A j \in 1..9 : Other(Cascade(s, negated, asOf)[j])
  BY <1>1, <1>2, <1>3, <1>4, <1>5, <1>6, <1>7, <1>8, <1>9 DEF Cascade
<1> QED BY <1>10 DEF Other

(* So a claim about a feature states no dates.                              *)
LEMMA FeatureUndated ==
  ASSUME NEW s, NEW asOf, NEW p, NEW c, c = Normalize(s, asOf, p), c.type \in Featured
  PROVE  c.starts = {} /\ c.ends = {}
<1> DEFINE x == Classify(s, Negated(s, p), asOf)
           parses == Cascade(s, Negated(s, p), asOf)
           hits == {i \in DOMAIN parses : parses[i] # {}}
           first == CHOOSE i \in hits : \A j \in hits : i <= j
           span == StatedSpan(s, asOf)
<1>1. p.parsing
  <2>1. ~p.parsing => c.type = "UNKNOWN"
    BY DEF Normalize, Unparsed, InContext, Unclassified, Parsed
  <2> QED BY <2>1 DEF Featured
<1>2. c = InContext(s, Settled(s, x, p), Hedge(s, p), Negated(s, p), asOf)
  BY <1>1 DEF Normalize
<1>3. c.starts = span.starts /\ c.ends = span.ends BY <1>2 DEF InContext
<1>4. Settled(s, x, p).type = c.type BY <1>2 DEF InContext
<1>5. Settled(s, x, p).type = x.type
  <2> HIDE DEF x
  <2> QED BY DEF Settled
<1>6. hits # {}
  <2>1. hits = {} => x.type = "UNKNOWN" BY DEF Classify, Unclassified, Parsed
  <2> QED BY <1>4, <1>5, <2>1 DEF Featured
<1>7. DOMAIN parses = 1..10 BY DEF Cascade
<1>8. hits \in SUBSET (1..10) BY <1>7
<1>9. first \in hits /\ \A j \in hits : first <= j BY <1>6, <1>8, FirstHit
<1>10. x = CHOOSE y \in parses[first] : TRUE BY <1>6 DEF Classify, TheOne
<1> HIDE DEF first, x
<1>11. x \in parses[first] BY <1>9, <1>10
<1>12. first \notin 1..9 BY <1>4, <1>5, <1>11, LastMatcher
<1>13. 9 \notin hits BY <1>8, <1>9, <1>12
<1>14. parses[9] = {} BY <1>7, <1>13
<1>15. MatchPromotionDates(s, asOf) = {} BY <1>14 DEF Cascade
<1>16. "date" \notin s.cues \/ (span.ends = {} /\ span.starts = {})
  BY <1>15 DEF MatchPromotionDates, DatesClaim
<1>17. span.ends = {} /\ span.starts = {}
  <2>1. "date" \notin s.cues => span = NoSpan BY DEF StatedSpan
  <2> QED BY <1>16, <2>1 DEF NoSpan
<1> QED BY <1>3, <1>17

-----------------------------------------------------------------------------
(* Which judgements leave nothing open.                                     *)
Known == {"true", "false"}

Polarized(s, j) == IF Denied(s) THEN Opposite(j) ELSE j

LEMMA KnownJudgements ==
  /\ \A b : Judge(b) \in Known
  /\ \A s, j : j \in Known => Polarized(s, j) \in Known /\ Opposite(j) \in Known
  /\ \A parts : (\E j \in parts : j \in Known) => Together(parts) \in Known
  /\ \A said, column, s, record, cfg :
       record[column] # {} => Amount(said, column, s, record, cfg) \in Known
  /\ \A m, column, s, record, cfg :
       record[column] # {} => Cost(m, column, s, record, cfg) \in Known
<1>1. \A b : Judge(b) \in Known BY DEF Judge, Known
<1>2. \A s, j : j \in Known => Polarized(s, j) \in Known /\ Opposite(j) \in Known
  BY DEF Known, Polarized, Opposite
<1>3. \A parts : (\E j \in parts : j \in Known) => Together(parts) \in Known
  BY DEF Known, Together
<1>4. ASSUME NEW said, NEW column, NEW s, NEW record, NEW cfg, record[column] # {}
      PROVE  Amount(said, column, s, record, cfg) \in Known
  BY <1>1, <1>4 DEF Amount
<1>5. ASSUME NEW m, NEW column, NEW s, NEW record, NEW cfg, record[column] # {}
      PROVE  Cost(m, column, s, record, cfg) \in Known
  <2>1. Amount(m.amount, column, s, record, cfg) \in Known BY <1>4, <1>5
  <2> DEFINE parts == {Amount(m.amount, column, s, record, cfg), SameCurrency(m, record)}
  <2>2. \E j \in parts : j \in Known BY <2>1
  <2>3. Cost(m, column, s, record, cfg) = Together(parts) BY <1>5 DEF Cost
  <2> HIDE DEF parts
  <2> QED BY <1>3, <2>2, <2>3
<1> QED BY <1>1, <1>2, <1>3, <1>4, <1>5

(* What each topic is judged by.                                            *)
LEMMA Values ==
  ASSUME NEW s, NEW record, NEW cfg, NEW today
  PROVE  /\ Value("price", s, record, cfg, today)
              = Polarized(s, Cost(Only(s.money), PriceColumn("price", record), s, record, cfg))
         /\ Value("plan_price", s, record, cfg, today)
              = Polarized(s, Cost(Only(s.money), PriceColumn("subscription_price", record), s,
                                  record, cfg))
         /\ Value("shipping_cost", s, record, cfg, today)
              = Polarized(s, Cost(Only(s.money), "shipping_cost", s, record, cfg))
         /\ Value("minimum", s, record, cfg, today)
              = Polarized(s, Cost(Only(s.money), "minimum_purchase", s, record, cfg))
         /\ Value("no_minimum", s, record, cfg, today)
              = Amount(0, "minimum_purchase", s, record, cfg)
         /\ Value("trial", s, record, cfg, today)
              = Polarized(s, Amount(Only(s.days), "trial_days", s, record, cfg))
         /\ record["trial_days"] # {} =>
              Value("some_trial", s, record, cfg, today)
                = Polarized(s, Judge(0 \notin record["trial_days"]))
         /\ Value("free_shipping", s, record, cfg, today) = Polarized(s, ShippingIsFree(record))
         /\ Value("no_charge", s, record, cfg, today) = ShippingIsFree(record)
         /\ Value("paid_shipping", s, record, cfg, today) = Opposite(ShippingIsFree(record))
         /\ record["billing_period"] # {} =>
              Value("billing", s, record, cfg, today)
                = Polarized(s, Judge(s.period \subseteq record["billing_period"]))
         /\ Value("availability", s, record, cfg, today)
              = Polarized(s, Stocked(Either(s.phrase = {}, "in_stock", Only(s.phrase)), record))
         /\ Value("region", s, record, cfg, today) = Polarized(s, Sold(Only(s.region), record))
         /\ Value("feature", s, record, cfg, today)
              = Polarized(s, FeatureIsIncluded(Only(s.feature).key, record))
         /\ Value("dates", s, record, cfg, today) = Polarized(s, StatedWindow(s, record, cfg))
         /\ record["offer_end"] # {} =>
              Value("expired", s, record, cfg, today)
                = Judge(Ordinal(Only(record["offer_end"])) < Ordinal(today))
         /\ Value("discount", s, record, cfg, today)
              = Polarized(s, Amount(Only(s.percent), "discount_percent", s, record, cfg))
BY DEF Value, Polarized, Either

(* What the record has a value for is judged.                               *)
LEMMA ValueKnown ==
  ASSUME NEW topic, topic \notin {"dates", "feature"},
         NEW x, NEW s, NEW negated, NEW span, ReadAs(topic, x, s, negated, span),
         NEW record, NEW cfg, NEW today, NEW column,
         column = IF x.attribute \in {"price", "subscription_price"}
                  THEN PriceColumn(x.attribute, record) ELSE x.attribute,
         record[column] # {} \/ (column = "free_shipping" /\ record["shipping_cost"] # {})
  PROVE  Value(topic, s, record, cfg, today) \in Known
<1> DEFINE value == Value(topic, s, record, cfg, today)
<1>1. \/ topic = "trial" /\ x.attribute = "trial_days"
      \/ topic = "some_trial" /\ x.attribute = "trial_days"
      \/ topic \in {"no_charge", "free_shipping", "paid_shipping"}
           /\ x.attribute = "free_shipping"
      \/ topic = "shipping_cost" /\ x.attribute = "shipping_cost"
      \/ topic \in {"minimum", "no_minimum"} /\ x.attribute = "minimum_purchase"
      \/ topic = "discount" /\ x.attribute = "discount_percent"
      \/ topic = "region" /\ x.attribute = "eligible_regions"
      \/ topic = "availability" /\ x.attribute = "inventory_status"
      \/ topic = "plan_price" /\ x.attribute = "subscription_price"
      \/ topic = "billing" /\ x.attribute = "billing_period"
      \/ topic = "price" /\ x.attribute = "price"
      \/ topic = "expired" /\ x.attribute = "offer_end"
  BY DEF ReadAs, SaysMoney, Says
<1>2. CASE topic \in {"trial", "some_trial"} /\ x.attribute = "trial_days"
  <2>1. record["trial_days"] # {} BY <1>2
  <2>2. Amount(Only(s.days), "trial_days", s, record, cfg) \in Known BY <2>1, KnownJudgements
  <2> QED BY <1>2, <2>1, <2>2, KnownJudgements, Values
<1>3. CASE topic \in {"no_charge", "free_shipping", "paid_shipping"}
             /\ x.attribute = "free_shipping"
  <2>1. record["free_shipping"] # {} \/ record["shipping_cost"] # {} BY <1>3
  <2>2. ShippingIsFree(record) \in Known BY <2>1, KnownJudgements DEF ShippingIsFree
  <2> QED BY <1>3, <2>2, KnownJudgements, Values
<1>4. CASE topic \in {"minimum", "no_minimum"} /\ x.attribute = "minimum_purchase"
  <2>1. record["minimum_purchase"] # {} BY <1>4
  <2>2. /\ Cost(Only(s.money), "minimum_purchase", s, record, cfg) \in Known
        /\ Amount(0, "minimum_purchase", s, record, cfg) \in Known
    BY <2>1, KnownJudgements
  <2> QED BY <1>4, <2>2, KnownJudgements, Values
<1>5. CASE topic \in {"shipping_cost", "price", "plan_price"}
             /\ x.attribute \in {"shipping_cost", "price", "subscription_price"}
  <2>1. record[column] # {}
    BY <1>5 DEF PriceColumn, Fallback
  <2>2. Cost(Only(s.money), column, s, record, cfg) \in Known BY <2>1, KnownJudgements
  <2>3. value = Polarized(s, Cost(Only(s.money), column, s, record, cfg))
    BY <1>1, <1>5, Values
  <2> QED BY <2>2, <2>3, KnownJudgements
<1>6. CASE topic = "discount" /\ x.attribute = "discount_percent"
  <2>1. record["discount_percent"] # {} BY <1>6
  <2>2. Amount(Only(s.percent), "discount_percent", s, record, cfg) \in Known
    BY <2>1, KnownJudgements
  <2> QED BY <1>6, <2>2, KnownJudgements, Values
<1>7. CASE topic = "region" /\ x.attribute = "eligible_regions"
  <2>1. record["eligible_regions"] # {} BY <1>7
  <2>2. Sold(Only(s.region), record) \in Known BY <2>1, KnownJudgements DEF Sold
  <2> QED BY <1>7, <2>2, KnownJudgements, Values
<1>8. CASE topic = "availability" /\ x.attribute = "inventory_status"
  <2>1. record["inventory_status"] # {} BY <1>8
  <2>2. \A status : Stocked(status, record) \in Known BY <2>1, KnownJudgements DEF Stocked
  <2> QED BY <1>8, <2>2, KnownJudgements, Values
<1>9. CASE topic = "billing" /\ x.attribute = "billing_period"
  BY <1>9, KnownJudgements, Values
<1>10. CASE topic = "expired" /\ x.attribute = "offer_end"
  BY <1>10, KnownJudgements, Values
<1> QED BY <1>1, <1>2, <1>3, <1>4, <1>5, <1>6, <1>7, <1>8, <1>9, <1>10

LEMMA DatesKnown ==
  ASSUME NEW r \in Requests, DatesRead(r), NEW role \in {"start", "end"},
         NEW span, span = StatedSpan(r.sentence, r.asOf), Side(role, span) # {},
         NEW record, NEW cfg, NEW column,
         column = IF role = "end" THEN "offer_end" ELSE "offer_start", record[column] # {}
  PROVE  StatedWindow(r.sentence, record, cfg) \in Known
<1> DEFINE s == r.sentence
           parts == {OneDate(s.dates[i], record, cfg) : i \in DOMAIN s.dates}
<1>1. WellFormed(s) BY RequestAssumption
<1>2. span # NoSpan BY DEF Side, NoSpan
<1>3. span = MonthDaySpan(s.dates, r.asOf) BY <1>2 DEF StatedSpan
<1>4. PICK claimed : claimed \in Side(role, span) OBVIOUS
<1>5. PICK inferred : inferred <=> ~YearIsExplicit(s.dates) OBVIOUS
<1>6. PICK i \in DOMAIN s.dates : s.dates[i].role = role
  BY <1>1, <1>2, <1>3, <1>4, <1>5, RoleRead
<1>7. OneDate(s.dates[i], record, cfg) \in Known BY <1>6, KnownJudgements DEF OneDate
<1>8. \E j \in parts : j \in Known BY <1>6, <1>7
<1>9. StatedWindow(s, record, cfg) = Together(parts) BY DEF StatedWindow
<1> HIDE DEF parts
<1> QED BY <1>8, <1>9, KnownJudgements

(* Of a feature only the rule for features says anything definite.          *)
LEMMA FeatureKnown ==
  ASSUME NEW c, c.type \in Featured, c.attribute \in {"included_features", "excluded_features"},
         c.starts = {}, c.ends = {}, NEW e, e.attribute = c.attribute,
         NEW record, Partial(e, record), NEW rule \in RuleNames, NEW p, NEW day,
         Applies(rule, c, e), Evaluate(rule, c, e, p, day).verdict \in Definite
  PROVE  c.word \in record["included_features"] \/ c.word \in record["excluded_features"]
<1>1. ~Expired(c) BY DEF Expired, Featured
<1>2. e.attribute \notin NumericAttributes \cup MoneyAttributes
  BY DEF NumericAttributes, MoneyAttributes
<1>3. rule \notin {"currency_match", "numeric_comparison", "free_shipping", "availability",
                   "region_eligibility", "billing_period", "promotion_window",
                   "active_offer_window"}
  BY <1>1, <1>2 DEF Applies, Featured
<1>4. EntityResolution(c, e).verdict \notin Definite
  BY DEF EntityResolution, Insufficient, Abstain, Fired, Definite
<1>5. FieldPresence(c, e).verdict \notin Definite
  BY DEF FieldPresence, Insufficient, Abstain, Fired, Definite
<1>6. rule = "feature_membership" BY <1>3, <1>4, <1>5, KnownRules DEF Evaluate
<1>7. FeatureMembership(c, e).verdict \in Definite BY <1>6 DEF Evaluate
<1>8. c.word \in e.fields["included_features"] \cup e.fields["excluded_features"]
  BY <1>7 DEF FeatureMembership, Insufficient, Fired, Definite
<1>9. {"included_features", "excluded_features"} \subseteq Attributes BY DEF Attributes
<1> QED BY <1>8, <1>9 DEF Partial

(* A definite conclusion is about something the record says.                *)
LEMMA SilenceKept ==
  ASSUME NEW r \in Requests, NEW p \in Profiles, NEW c, c = Normalize(r.sentence, r.asOf, p),
         IsParsed(c), c.conf \in 0..100, NEW e, e = EvidenceOf(r, c, p),
         NEW rules \in SUBSET RuleNames, "field_presence" \in rules, DatesRead(r),
         ConcludedOn(rules, c, e, p, r.asOf).verdict \in Definite
  PROVE  /\ r.entry # {}
         /\ Judgement(r.topic, r.sentence, Only(r.entry), p, r.asOf) \in Known
<1> DEFINE s == r.sentence
           span == StatedSpan(s, r.asOf)
           record == Only(r.entry).values
           value == Value(r.topic, s, record, p, r.asOf)
<1>1. PICK f : f = ConcludedOn(rules, c, e, p, r.asOf) OBVIOUS
<1>2. /\ \E rule \in rules : /\ Applies(rule, c, e)
                             /\ Evaluate(rule, c, e, p, r.asOf).verdict \in Definite
      /\ \A rule \in rules : Applies(rule, c, e) => ~Closes(Evaluate(rule, c, e, p, r.asOf))
  BY <1>1, DefiniteConclusion
<1>3. r.entry # {}
  <2>1. r.entry = {} => e = NoEvidence(c) BY DEF EvidenceOf
  <2> QED BY <1>2, <2>1, NothingKnown
<1>4. e = Evidence(c, record, Only(r.entry).offer, p) BY <1>3 DEF EvidenceOf
<1>5. c.type # "UNKNOWN" /\ c.attribute # "unknown" BY DEF IsParsed
<1>6. PICK x : /\ ReadAs(r.topic, x, s, Negated(s, p), span)
               /\ InContextOf(c, x, s, r.asOf, p)
  BY <1>5, NormalizeReads
<1>7. x.attribute = c.attribute /\ x.type = c.type /\ x.word = c.word
      /\ c.starts = span.starts /\ c.ends = span.ends
  BY <1>6 DEF InContextOf
<1>8. c.attribute \in Columns
  BY <1>6, <1>7 DEF ReadAs, SaysMoney, Says, Columns, Attributes, NumericAttributes,
                    MoneyAttributes
<1>9. PICK column : column = EffectiveAttribute(c, record) OBVIOUS
<1> HIDE DEF s, span, record
<1>10. /\ Partial(e, record) /\ e.attribute = column /\ column \in Columns
       /\ \/ e.fields[column] # {}
          \/ column = "free_shipping" /\ e.fields["shipping_cost"] # {}
  BY <1>2, <1>4, <1>8, <1>9, ColumnPresent
<1>11. /\ column \in Attributes /\ "shipping_cost" \in Attributes
  BY <1>10 DEF Columns, Attributes, NumericAttributes, MoneyAttributes
<1>12. record[column] # {} \/ (column = "free_shipping" /\ record["shipping_cost"] # {})
  BY <1>10, <1>11 DEF Partial
<1>13. column = IF x.attribute \in {"price", "subscription_price"}
                THEN PriceColumn(x.attribute, record) ELSE x.attribute
  BY <1>5, <1>7, <1>9, ColumnRead
<1>14. value \in Known
  <2>1. CASE r.topic \notin {"dates", "feature"}
    BY <1>6, <1>12, <1>13, <2>1, ValueKnown
  <2>2. CASE r.topic = "dates"
    <3>1. \/ c.attribute = "offer_end" /\ span.ends # {}
          \/ c.attribute = "offer_start" /\ span.starts # {}
      BY <1>6, <1>7, <2>2 DEF ReadAs, Says, SaysMoney
    <3>2. record[c.attribute] # {} BY <1>7, <1>12, <1>13, <3>1
    <3>3. StatedWindow(s, record, p) \in Known
      <4>1. CASE c.attribute = "offer_end" /\ span.ends # {}
        BY <3>2, <4>1, DatesKnown DEF Side, s, span
      <4>2. CASE c.attribute = "offer_start" /\ span.starts # {}
        BY <3>2, <4>2, DatesKnown DEF Side, s, span
      <4> QED BY <3>1, <4>1, <4>2
    <3> QED BY <2>2, <3>3, KnownJudgements, Values
  <2>3. CASE r.topic = "feature"
    <3>1. /\ c.type \in Featured /\ c.attribute \in {"included_features", "excluded_features"}
          /\ c.word = Only(s.feature).key
      BY <1>6, <1>7, <2>3 DEF ReadAs, Says, SaysMoney, Featured
    <3>2. c.starts = {} /\ c.ends = {} BY <3>1, FeatureUndated
    <3>3. e.attribute = c.attribute BY <1>7, <1>10, <1>13, <3>1
    <3>4. c.word \in record["included_features"] \/ c.word \in record["excluded_features"]
      BY <1>2, <1>10, <3>1, <3>2, <3>3, FeatureKnown
    <3>5. FeatureIsIncluded(Only(s.feature).key, record) \in Known
      BY <3>1, <3>4 DEF FeatureIsIncluded, Known
    <3> QED BY <2>3, <3>5, KnownJudgements, Values
  <2> QED BY <2>1, <2>2, <2>3
<1>15. Judgement(r.topic, s, Only(r.entry), p, r.asOf) \in {"false", value}
  BY DEF Judgement, record
<1> QED BY <1>3, <1>14, <1>15 DEF Known, s

(* What the rules say of a claim that was not extracted, in one place.      *)
LEMMA ReadOnly ==
  ASSUME ReadingInv, Evaluated, ~extracted
  PROVE  /\ request \in Requests /\ profile \in Profiles
         /\ RulesOf(profile) \in SUBSET RuleNames
         /\ claim = Normalize(request.sentence, request.asOf, profile)
         /\ IsParsed(claim) /\ claim.conf \in 0..100
         /\ evidence = EvidenceOf(request, claim, profile)
         /\ result.verdict = ConcludedOn(RulesOf(profile), claim, evidence, profile,
                                         request.asOf).verdict
         /\ result.conf = ConcludedOn(RulesOf(profile), claim, evidence, profile,
                                      request.asOf).conf
         /\ result.escalate = ConcludedOn(RulesOf(profile), claim, evidence, profile,
                                          request.asOf).escalate
<1>1. claim = Normalize(request.sentence, request.asOf, profile)
  BY DEF ReadingInv, ClaimRead, Evaluated
<1>2. claim.conf \in 0..100 BY DEF ReadingInv, PipelineInv, Placed, Bounded, Sure
<1> QED BY <1>1, <1>2, EvaluatedClaim, Reported

(* Where the record is silent no rules say SUPPORTED or CONTRADICTED, at    *)
(* any confidence, of any sentence whose dates are read as they are said:   *)
(* library.py "Absent is not false".                                        *)
THEOREM SilenceIsLeftOpen == Spec => []SilenceIsNotDenial
<1>1. ASSUME ReadingInv PROVE SilenceIsNotDenial
  <2> SUFFICES ASSUME Evaluated, ~extracted, result.verdict \in Definite, DatesRead(request),
                      "field_presence" \in RulesOf(profile)
               PROVE  Judged # "open"
    BY DEF SilenceIsNotDenial
  <2>1. /\ request.entry # {}
        /\ Judgement(request.topic, request.sentence, Only(request.entry), profile,
                     request.asOf) \in Known
    BY <1>1, ReadOnly, SilenceKept
  <2> QED BY <2>1 DEF Judged, Known
<1> QED BY <1>1, ReadingInvariant, PTL

-----------------------------------------------------------------------------
(* Numbers.                                                                 *)
LEMMA SameSlack ==
  ASSUME NEW column, NEW reference \in Nat, NEW q, NEW p \in Profiles, p.priceRelative = 0
  PROVE  /\ Slack(column, reference, q, p) = Tolerance(column, reference, q, p)
         /\ Tolerance(column, reference, q, p) \in Nat
         /\ column = "trial_days" /\ q = "NONE" /\ p.trialTolerance = 0 =>
              Tolerance(column, reference, q, p) = 0
<1>1. /\ p.priceAbsolute \in Nat /\ p.percentTolerance \in Nat /\ p.trialTolerance \in Nat
      /\ p.approximate \in Nat
  BY ToleranceAssumption
<1>2. p.priceRelative * reference = 0 OBVIOUS
<1>3. PICK wide \in Nat : wide = p.approximate * reference BY <1>1
<1>4. PICK noise \in Nat :
        noise = CASE column = "trial_days" -> 100 * p.trialTolerance
                  [] column = "discount_percent" -> 100 * p.percentTolerance
                  [] OTHER -> 100 * p.priceAbsolute
  BY <1>1
<1>5. Slack(column, reference, q, p) = IF q = "APPROXIMATELY" THEN Larger(noise, wide) ELSE noise
  BY <1>1, <1>2, <1>3, <1>4 DEF Slack, Larger
<1>6. Tolerance(column, reference, q, p)
        = IF q = "APPROXIMATELY" THEN Larger(noise, wide) ELSE noise
  BY <1>1, <1>2, <1>3, <1>4 DEF Tolerance
<1>7. Larger(noise, wide) \in Nat BY DEF Larger
<1>8. column = "trial_days" /\ p.trialTolerance = 0 => noise = 0 BY <1>4
<1> QED BY <1>5, <1>6, <1>7, <1>8

(* A number is as stated exactly when the rule finds it to match.           *)
LEMMA NumbersCompared ==
  ASSUME NEW said \in Nat, NEW reference \in Nat, NEW q, NEW t \in Nat
  PROVE  AsStated(said, reference, q, t)
           <=> Matches(said, reference, ResolveOperator("EQUALS", q), t)
<1> DEFINE low == 100 * reference - t
           high == 100 * reference + t
<1>0. low \in Int /\ high \in Int /\ low <= high OBVIOUS
<1>1. CASE q \in {"UP_TO", "AT_MOST"}
  <2>1. Matches(said, reference, ResolveOperator("EQUALS", q), t) <=> low <= 100 * said
    BY <1>1 DEF Matches, ResolveOperator, OperatorFor
  <2>2. AsStated(said, reference, q, t) <=> \E r \in low..high : r <= 100 * said
    BY <1>1 DEF AsStated
  <2>3. (\E r \in low..high : r <= 100 * said) <=> low <= 100 * said
    <3> HIDE DEF low, high
    <3> QED BY <1>0
  <2> QED BY <2>1, <2>2, <2>3
<1>2. CASE q \in {"STARTING_AT", "AT_LEAST"}
  <2>1. Matches(said, reference, ResolveOperator("EQUALS", q), t) <=> high >= 100 * said
    BY <1>2 DEF Matches, ResolveOperator, OperatorFor
  <2>2. AsStated(said, reference, q, t) <=> \E r \in low..high : r >= 100 * said
    BY <1>2 DEF AsStated
  <2>3. (\E r \in low..high : r >= 100 * said) <=> high >= 100 * said
    <3> HIDE DEF low, high
    <3> QED BY <1>0
  <2> QED BY <2>1, <2>2, <2>3
<1>3. CASE q \notin {"UP_TO", "AT_MOST", "STARTING_AT", "AT_LEAST"}
  <2>1. ResolveOperator("EQUALS", q) = "EQUALS" BY <1>3 DEF ResolveOperator, OperatorFor
  <2>2. Matches(said, reference, ResolveOperator("EQUALS", q), t)
          <=> low <= 100 * said /\ 100 * said <= high
    BY <2>1 DEF Matches
  <2>3. AsStated(said, reference, q, t) <=> \E r \in low..high : r = 100 * said
    BY <1>3 DEF AsStated
  <2>4. (\E r \in low..high : r = 100 * said) <=> low <= 100 * said /\ 100 * said <= high
    <3> HIDE DEF low, high
    <3> QED BY <1>0
  <2> QED BY <2>2, <2>3, <2>4
<1> QED BY <1>1, <1>2, <1>3

-----------------------------------------------------------------------------
(* A claim in hand: how it was read, and what of the record it is shown.    *)
InHand(r, p, c, x, e, record) ==
  /\ ReadAs(r.topic, x, r.sentence, Negated(r.sentence, p), StatedSpan(r.sentence, r.asOf))
  /\ InContextOf(c, x, r.sentence, r.asOf, p)
  /\ Negated(r.sentence, p) <=> Denied(r.sentence)
  /\ "excludes" \in r.sentence.cues => Denied(r.sentence)
  /\ c.qualifier = r.sentence.qualifier
  /\ OneValued(record)
  /\ Partial(e, record) /\ e.attribute \in Columns
  /\ Shows(e, record, Scope(c, e.attribute) \cap Columns)
  /\ e.attribute = IF x.attribute \in {"price", "subscription_price"}
                   THEN PriceColumn(x.attribute, record) ELSE x.attribute
  /\ \/ record[e.attribute] # {}
     \/ e.attribute = "free_shipping" /\ record["shipping_cost"] # {}

Truthful(o, value) ==
  /\ o.verdict = "CONTRADICTED" => value = "false"
  /\ o.verdict = "SUPPORTED" => value = "true"

Priced == {"price", "plan_price", "shipping_cost", "minimum"}

LEMMA AmountJudged ==
  ASSUME NEW said \in Nat, NEW column \in NumericAttributes, NEW record, OneValued(record),
         record[column] # {}, NEW s, NEW p \in Profiles, p.priceRelative = 0,
         NEW reference, reference = Only(record[column])
  PROVE  /\ reference \in Nat /\ record[column] = {reference}
         /\ Amount(said, column, s, record, p)
              = Judge(Matches(said, reference, ResolveOperator("EQUALS", s.qualifier),
                              Tolerance(column, reference, s.qualifier, p)))
<1>1. OneOf(record[column], Nat) BY DEF OneValued
<1>2. reference \in Nat /\ record[column] = {reference} BY <1>1, OnlyOne DEF OneOf
<1>3. Amount(said, column, s, record, p)
        = Judge(AsStated(said, reference, s.qualifier, Slack(column, reference, s.qualifier, p)))
  BY DEF Amount
<1>4. PICK t : t = Tolerance(column, reference, s.qualifier, p) OBVIOUS
<1>5. t \in Nat /\ Slack(column, reference, s.qualifier, p) = t BY <1>2, <1>4, SameSlack
<1>6. AsStated(said, reference, s.qualifier, t)
        <=> Matches(said, reference, ResolveOperator("EQUALS", s.qualifier), t)
  BY <1>2, <1>5, NumbersCompared
<1> QED BY <1>2, <1>3, <1>4, <1>5, <1>6 DEF Judge

(* The judgement of a price is that of its amount, unless it is in another  *)
(* currency.                                                                *)
LEMMA CostJudged ==
  ASSUME NEW m, NEW column, NEW s, NEW record, NEW p, record[column] # {}
  PROVE  /\ Amount(m.amount, column, s, record, p) = "false" \/ SameCurrency(m, record) = "false"
              => Cost(m, column, s, record, p) = "false"
         /\ Amount(m.amount, column, s, record, p) = "true" /\ SameCurrency(m, record) # "false"
              => Cost(m, column, s, record, p) = "true"
BY DEF Cost, Together

(* How a number is read.                                                    *)
LEMMA NumberRead ==
  ASSUME NEW r \in Requests, NEW p \in Profiles, NEW c, NEW x, NEW e, NEW record,
         InHand(r, p, c, x, e, record), c.kind = "number"
  PROVE  /\ c.number \in Nat
         /\ \/ /\ r.topic \in Priced /\ c.unit = Only(r.sentence.money).currency
               /\ c.number = Only(r.sentence.money).amount
            \/ r.topic = "trial" /\ c.number = Only(r.sentence.days)
                 /\ e.attribute = "trial_days" /\ c.unit = "days"
            \/ r.topic = "discount" /\ c.number = Only(r.sentence.percent)
                 /\ e.attribute = "discount_percent" /\ c.unit = "percent"
            \/ r.topic = "no_minimum" /\ c.number = 0 /\ e.attribute = "minimum_purchase"
                 /\ c.unit = "none"
            \/ r.topic = "some_trial" /\ c.number = 0 /\ e.attribute = "trial_days"
                 /\ c.unit = "days"
         /\ r.topic # "some_trial" => c.operator = ResolveOperator("EQUALS", r.sentence.qualifier)
         /\ r.topic = "some_trial" =>
              c.operator = ResolveOperator(Either(Denied(r.sentence), "EQUALS", "GREATER_THAN"),
                                           r.sentence.qualifier)
<1> DEFINE s == r.sentence
<1>1. /\ OneOf(s.money, Amounts) /\ OneOf(s.percent, 0..100) /\ OneOf(s.days, Nat)
  BY RequestAssumption DEF WellFormed, Percents, Durations
<1>2. /\ c.kind = x.kind /\ c.number = x.number /\ c.unit = x.unit
      /\ c.operator = ResolveOperator(x.operator, s.qualifier)
  BY DEF InHand, InContextOf
<1>3. \A m \in s.money : m.amount \in Nat BY <1>1 DEF OneOf, Amounts
<1>4. /\ s.money # {} => Only(s.money).amount \in Nat
      /\ s.percent # {} => Only(s.percent) \in Nat
      /\ s.days # {} => Only(s.days) \in Nat
  BY <1>1, <1>3, OnlyOne DEF OneOf
<1>5. PICK negated : /\ negated <=> Denied(s)
                     /\ ReadAs(r.topic, x, s, negated, StatedSpan(s, r.asOf))
  BY DEF InHand
<1>6. x.kind = "number" BY <1>2
<1>7. \/ /\ r.topic \in Priced /\ s.money # {} /\ x.operator = "EQUALS"
         /\ x.number = Only(s.money).amount /\ x.unit = Only(s.money).currency
      \/ /\ r.topic = "trial" /\ s.days # {} /\ x.operator = "EQUALS"
         /\ x.number = Only(s.days) /\ x.unit = "days" /\ x.attribute = "trial_days"
      \/ /\ r.topic = "discount" /\ s.percent # {} /\ x.operator = "EQUALS"
         /\ x.number = Only(s.percent) /\ x.unit = "percent" /\ x.attribute = "discount_percent"
      \/ /\ r.topic = "no_minimum" /\ x.operator = "EQUALS" /\ x.number = 0
         /\ x.attribute = "minimum_purchase" /\ x.unit = "none"
      \/ /\ r.topic = "some_trial" /\ x.operator = Either(negated, "EQUALS", "GREATER_THAN")
         /\ x.number = 0 /\ x.attribute = "trial_days" /\ x.unit = "days"
  BY <1>5, <1>6 DEF ReadAs, SaysMoney, Says, Priced
<1>8. Either(negated, "EQUALS", "GREATER_THAN") = Either(Denied(s), "EQUALS", "GREATER_THAN")
  BY <1>5 DEF Either
<1>9. x.attribute \notin {"price", "subscription_price"} => e.attribute = x.attribute
  BY DEF InHand
<1> HIDE DEF s
<1> QED BY <1>2, <1>4, <1>7, <1>8, <1>9 DEF Priced, s

LEMMA PriceRead ==
  ASSUME NEW r, NEW p, NEW c, NEW x, NEW e, NEW record, NEW day,
         InHand(r, p, c, x, e, record), r.topic \in Priced
  PROVE  /\ e.attribute \in MoneyAttributes /\ record[e.attribute] # {}
         /\ c.kind = "number" /\ c.unit = Only(r.sentence.money).currency
         /\ r.topic \in {"price", "plan_price"} => "currency" \in Projection(c.type)
         /\ Value(r.topic, r.sentence, record, p, day)
              = Polarized(r.sentence,
                          Cost(Only(r.sentence.money), e.attribute, r.sentence, record, p))
<1> DEFINE s == r.sentence
           value == Value(r.topic, s, record, p, day)
           cost(column) == Cost(Only(s.money), column, s, record, p)
<1>1. /\ c.kind = x.kind /\ c.unit = x.unit /\ c.type = x.type BY DEF InHand, InContextOf
<1>2. PICK negated : ReadAs(r.topic, x, s, negated, StatedSpan(s, r.asOf)) BY DEF InHand
<1>3. /\ x.kind = "number" /\ x.unit = Only(s.money).currency
      /\ \/ r.topic = "price" /\ x.attribute = "price" /\ x.type = "PRICE"
         \/ /\ r.topic = "plan_price" /\ x.attribute = "subscription_price"
            /\ x.type = "SUBSCRIPTION_TERMS"
         \/ r.topic = "shipping_cost" /\ x.attribute = "shipping_cost"
         \/ r.topic = "minimum" /\ x.attribute = "minimum_purchase"
  BY <1>2 DEF ReadAs, SaysMoney, Says, Priced
<1>4. e.attribute = IF x.attribute \in {"price", "subscription_price"}
                    THEN PriceColumn(x.attribute, record) ELSE x.attribute
  BY DEF InHand
<1>5. e.attribute \in MoneyAttributes
  BY <1>3, <1>4 DEF PriceColumn, Fallback, MoneyAttributes
<1>6. record[e.attribute] # {} BY <1>5 DEF InHand, MoneyAttributes
<1>7. value = Polarized(s, cost(e.attribute))
  <2>1. CASE r.topic = "price" BY <1>3, <1>4, <2>1, Values
  <2>2. CASE r.topic = "plan_price" BY <1>3, <1>4, <2>2, Values
  <2>3. CASE r.topic = "shipping_cost" BY <1>3, <1>4, <2>3, Values
  <2>4. CASE r.topic = "minimum" BY <1>3, <1>4, <2>4, Values
  <2> QED BY <1>3, <2>1, <2>2, <2>3, <2>4
<1>8. r.topic \in {"price", "plan_price"} => "currency" \in Projection(c.type)
  BY <1>1, <1>3 DEF Projection
<1> QED BY <1>1, <1>3, <1>5, <1>6, <1>7, <1>8

(* The comparison of numbers is truthful, but for the currency.             *)
LEMMA NumberTruthful ==
  ASSUME NEW r \in Requests, NEW p \in Profiles, NEW c, NEW x, NEW e, NEW record, NEW day,
         InHand(r, p, c, x, e, record), Understood(r, p), Applies("numeric_comparison", c, e),
         NEW o, o = NumericComparison(c, e, p), NEW value,
         value = Value(r.topic, r.sentence, record, p, day)
  PROVE  /\ o.verdict = "CONTRADICTED" => value = "false"
         /\ /\ o.verdict = "SUPPORTED"
            /\ r.topic \in Priced => SameCurrency(Only(r.sentence.money), record) # "false"
            => value = "true"
<1> DEFINE s == r.sentence
           column == e.attribute
           money == Only(s.money)
<1>1. /\ column \in NumericAttributes /\ e.fields[column] # {} /\ c.kind = "number"
  BY DEF Applies, Has
<1>2. column \in Attributes BY <1>1 DEF Attributes
<1>3. e.fields[column] = record[column] /\ record[column] # {}
  BY <1>1, <1>2 DEF InHand, Partial
<1>4. OneValued(record) /\ c.qualifier = s.qualifier BY DEF InHand
<1>5. /\ p.priceRelative = 0 /\ PolarityRead(r) /\ HedgeHarmless(r, p) BY DEF Understood
<1>6. PICK reference : reference = Only(record[column]) OBVIOUS
<1>7. PICK tolerance : tolerance = Tolerance(column, reference, s.qualifier, p) OBVIOUS
<1>8. PICK agree \in BOOLEAN : agree <=> Matches(c.number, reference, c.operator, tolerance)
  OBVIOUS
<1>9. /\ o.verdict = "CONTRADICTED" <=> ~agree
      /\ o.verdict = "SUPPORTED" <=> agree
  BY <1>3, <1>4, <1>6, <1>7, <1>8 DEF NumericComparison, Contradicted, Supported, Fired
<1>10. CASE r.topic # "some_trial"
  <2>1. c.operator = ResolveOperator("EQUALS", s.qualifier) /\ c.number \in Nat
    BY <1>1, <1>10, NumberRead
  <2>2. Amount(c.number, column, s, record, p) = Judge(agree)
    BY <1>1, <1>3, <1>4, <1>5, <1>6, <1>7, <1>8, <2>1, AmountJudged DEF Judge
  <2>3. CASE r.topic \in Priced
    <3>1. ~Denied(s) BY <1>5, <2>3 DEF PolarityRead, Priced
    <3>2. c.number = money.amount BY <1>1, <2>3, NumberRead DEF Priced
    <3>3. value = Cost(money, column, s, record, p)
      <4>1. Value(r.topic, s, record, p, day) = Polarized(s, Cost(money, column, s, record, p))
        BY <2>3, PriceRead
      <4> QED BY <3>1, <4>1 DEF Polarized
    <3>4. /\ Judge(agree) = "false" => value = "false"
          /\ Judge(agree) = "true" /\ SameCurrency(money, record) # "false" => value = "true"
      BY <1>3, <2>2, <3>2, <3>3, CostJudged
    <3> QED BY <1>9, <2>3, <3>4 DEF Judge
  <2>4. CASE r.topic \in {"trial", "discount"}
    <3>1. ~Denied(s) BY <1>5, <2>4 DEF PolarityRead
    <3>2. value = Amount(c.number, column, s, record, p)
      BY <1>1, <2>4, <3>1, NumberRead, Values DEF Polarized, Priced
    <3> QED BY <1>9, <2>2, <3>2 DEF Judge
  <2>5. CASE r.topic = "no_minimum"
    <3>1. value = Amount(c.number, column, s, record, p)
      BY <1>1, <2>5, NumberRead, Values DEF Priced
    <3> QED BY <1>9, <2>2, <3>1 DEF Judge
  <2> QED BY <1>1, <1>10, <2>3, <2>4, <2>5, NumberRead
<1>11. CASE r.topic = "some_trial"
  <2>1. /\ column = "trial_days" /\ c.number = 0
        /\ c.operator = ResolveOperator(Either(Denied(s), "EQUALS", "GREATER_THAN"), s.qualifier)
    BY <1>1, <1>11, NumberRead DEF Priced
  <2>2. s.qualifier = "NONE" /\ p.trialTolerance = 0 BY <1>5, <1>11 DEF HedgeHarmless
  <2>3. OneOf(record[column], Nat) BY <1>1, <1>4 DEF OneValued
  <2>4. reference \in Nat /\ record[column] = {reference}
    BY <1>3, <1>6, <2>3, OnlyOne DEF OneOf
  <2>5. tolerance = 0 BY <1>5, <1>7, <2>1, <2>2, <2>4, SameSlack
  <2>6. c.operator = Either(Denied(s), "EQUALS", "GREATER_THAN")
    BY <2>1, <2>2 DEF ResolveOperator
  <2>7. agree <=> (Denied(s) <=> reference = 0)
    <3>1. CASE Denied(s)
      <4>1. c.operator = "EQUALS" BY <2>6, <3>1 DEF Either
      <4>2. Matches(0, reference, "EQUALS", 0) <=> reference = 0 BY <2>4 DEF Matches
      <4> QED BY <1>8, <2>1, <2>5, <3>1, <4>1, <4>2
    <3>2. CASE ~Denied(s)
      <4>1. c.operator = "GREATER_THAN" BY <2>6, <3>2 DEF Either
      <4> QED BY <1>8, <2>1, <2>4, <2>5, <3>2, <4>1 DEF Matches
    <3> QED BY <3>1, <3>2
  <2>8. value = Polarized(s, Judge(0 \notin record[column]))
    BY <1>3, <1>11, <2>1, Values
  <2>9. 0 \notin record[column] <=> reference # 0 BY <2>4
  <2> QED BY <1>9, <1>11, <2>7, <2>8, <2>9 DEF Polarized, Judge, Opposite, Priced
<1> QED BY <1>10, <1>11

(* The currency.                                                            *)
LEMMA CurrencyTruthful ==
  ASSUME NEW r \in Requests, NEW p, NEW c, NEW x, NEW e, NEW record, NEW day,
         InHand(r, p, c, x, e, record), Understood(r, p), Applies("currency_match", c, e),
         CurrencyMatch(c, e).verdict = "CONTRADICTED"
  PROVE  Value(r.topic, r.sentence, record, p, day) = "false"
<1> DEFINE s == r.sentence
           money == Only(s.money)
           cost == Cost(money, e.attribute, s, record, p)
<1>1. /\ c.unit \in Currencies /\ e.fields["currency"] # {}
  BY DEF Applies, Has
<1>2. c.unit \notin e.fields["currency"]
  BY DEF CurrencyMatch, Abstain, Fired
<1>3. record["currency"] = e.fields["currency"]
  <2>1. "currency" \in Attributes BY DEF Attributes
  <2> QED BY <1>1, <2>1 DEF InHand, Partial
<1>4. r.topic \in Priced
  <2>1. PICK negated : ReadAs(r.topic, x, s, negated, StatedSpan(s, r.asOf)) BY DEF InHand
  <2>2. x.unit = c.unit BY DEF InHand, InContextOf
  <2>3. x.unit \notin {"days", "none", "percent", "date"} BY <1>1, <2>2 DEF Currencies
  <2> QED BY <2>1, <2>3 DEF ReadAs, SaysMoney, Says, Priced
<1>5. /\ money.currency = c.unit /\ record[e.attribute] # {}
      /\ Value(r.topic, s, record, p, day) = Polarized(s, cost)
  BY <1>4, PriceRead
<1>6. SameCurrency(money, record) = "false"
  BY <1>1, <1>2, <1>3, <1>5 DEF SameCurrency, Judge
<1>7. cost = "false" BY <1>5, <1>6, CostJudged
<1>8. ~Denied(s) BY <1>4 DEF Understood, PolarityRead, Priced
<1> QED BY <1>5, <1>7, <1>8 DEF Polarized

LEMMA CurrencyNoticed ==
  ASSUME NEW r \in Requests, NEW p, NEW c, NEW x, NEW e, NEW record, NEW day,
         InHand(r, p, c, x, e, record), r.topic \in {"price", "plan_price"},
         Applies("currency_match", c, e) => CurrencyMatch(c, e).verdict # "CONTRADICTED"
  PROVE  SameCurrency(Only(r.sentence.money), record) # "false"
<1> DEFINE money == Only(r.sentence.money)
<1>1. /\ money.currency = c.unit /\ "currency" \in Projection(c.type)
      /\ e.attribute \in MoneyAttributes
  BY PriceRead DEF Priced
<1>2. "currency" \in Columns /\ "currency" \in Attributes
  BY DEF Columns, Attributes, NumericAttributes, MoneyAttributes
<1>3. e.fields["currency"] = record["currency"]
  BY <1>1, <1>2 DEF InHand, Shows, Scope
<1> SUFFICES ASSUME c.unit \in Currencies, record["currency"] # {}
             PROVE  SameCurrency(money, record) # "false"
  BY <1>1 DEF SameCurrency
<1>4. Applies("currency_match", c, e) BY <1>1, <1>2, <1>3 DEF Applies, Has
<1>5. c.unit \in record["currency"]
  BY <1>3, <1>4 DEF CurrencyMatch, Contradicted, Fired
<1> QED BY <1>1, <1>5 DEF SameCurrency, Judge

(* Whether shipping is free.                                                *)
LEMMA ShippingTruthful ==
  ASSUME NEW r \in Requests, NEW p, NEW c, NEW x, NEW e, NEW record, NEW day,
         InHand(r, p, c, x, e, record), Applies("free_shipping", c, e)
  PROVE  /\ Truthful(FreeShipping(c, e), Value(r.topic, r.sentence, record, p, day))
         /\ FreeShipping(c, e).verdict \in Definite
<1> DEFINE s == r.sentence
           value == Value(r.topic, s, record, p, day)
           stated == record["free_shipping"]
           cost == record["shipping_cost"]
<1>1. PICK negated : /\ negated <=> Denied(s)
                     /\ ReadAs(r.topic, x, s, negated, StatedSpan(s, r.asOf))
  BY DEF InHand
<1>2. /\ c.kind = "flag" /\ e.attribute = "free_shipping" BY DEF Applies
<1>3. /\ x.kind = c.kind /\ x.word = c.word /\ x.type = c.type BY DEF InHand, InContextOf
<1>4. /\ x.type = "SHIPPING"
      /\ \/ r.topic = "no_charge" /\ x.word = "yes"
         \/ r.topic = "free_shipping" /\ x.word = YesNo(~negated)
         \/ r.topic = "paid_shipping" /\ x.word = "no"
  BY <1>1, <1>2, <1>3 DEF ReadAs, SaysMoney, Says
<1>5. {"free_shipping", "shipping_cost"} \subseteq Scope(c, e.attribute) \cap Columns
  BY <1>3, <1>4 DEF Scope, Projection, Columns, Attributes, NumericAttributes, MoneyAttributes
<1>6. e.fields["free_shipping"] = stated /\ e.fields["shipping_cost"] = cost
  BY <1>5 DEF InHand, Shows
<1>7. stated # {} \/ cost # {} BY <1>2 DEF InHand
<1>8. PICK free \in BOOLEAN : free <=> IF stated # {} THEN "yes" \in stated ELSE 0 \in cost
  OBVIOUS
<1>9. ShippingIsFree(record) = Judge(free) BY <1>7, <1>8 DEF ShippingIsFree, Judge
<1>10. /\ FreeShipping(c, e).verdict = "SUPPORTED" => (free <=> c.word = "yes")
       /\ FreeShipping(c, e).verdict = "CONTRADICTED" => ~(free <=> c.word = "yes")
  BY <1>6, <1>7, <1>8 DEF FreeShipping, Abstain, Supported, Contradicted, Fired
<1>d. FreeShipping(c, e).verdict \in Definite
  BY <1>6, <1>7 DEF FreeShipping, Supported, Contradicted, Fired, Definite
<1>11. CASE r.topic = "no_charge"
  <2>1. value = Judge(free) BY <1>9, <1>11, Values
  <2> QED BY <1>3, <1>4, <1>10, <1>11, <1>d, <2>1 DEF Truthful, Judge
<1>12. CASE r.topic = "free_shipping"
  <2>1. value = Polarized(s, Judge(free)) BY <1>9, <1>12, Values
  <2>2. c.word = "yes" <=> ~Denied(s) BY <1>1, <1>3, <1>4, <1>12 DEF YesNo, Either
  <2> QED BY <1>10, <1>d, <2>1, <2>2 DEF Truthful, Judge, Polarized, Opposite
<1>13. CASE r.topic = "paid_shipping"
  <2>1. value = Opposite(Judge(free)) BY <1>9, <1>13, Values
  <2>2. c.word # "yes" BY <1>3, <1>4, <1>13
  <2> QED BY <1>10, <1>d, <2>1, <2>2 DEF Truthful, Judge, Opposite
<1> QED BY <1>4, <1>d, <1>11, <1>12, <1>13

(* Set membership and flags keep their operator under any hedge.            *)
LEMMA Unhedged ==
  /\ \A q : \A o \in {"INCLUDES", "EXCLUDES", "IS_TRUE", "IS_FALSE"} : ResolveOperator(o, q) = o
  /\ \A o : ResolveOperator(o, "NONE") = o
BY DEF ResolveOperator

(* What is in stock.                                                        *)
LEMMA StockTruthful ==
  ASSUME NEW r \in Requests, NEW p, NEW c, NEW x, NEW e, NEW record, NEW day,
         InHand(r, p, c, x, e, record), Understood(r, p), Applies("availability", c, e)
  PROVE  Truthful(Availability(c, e), Value(r.topic, r.sentence, record, p, day))
<1> DEFINE s == r.sentence
           value == Value(r.topic, s, record, p, day)
           said == Either(s.phrase = {}, "in_stock", Only(s.phrase))
<1>1. PICK negated : /\ negated <=> Denied(s)
                     /\ ReadAs(r.topic, x, s, negated, StatedSpan(s, r.asOf))
  BY DEF InHand
<1>2. /\ c.kind = "word" /\ e.attribute = "inventory_status"
      /\ e.fields["inventory_status"] # {} /\ "inventory_status" \in Attributes
  BY DEF Applies, Has
<1>3. /\ x.kind = c.kind /\ x.word = c.word /\ e.attribute = "inventory_status"
      /\ c.operator = ResolveOperator(x.operator, s.qualifier)
  BY <1>2 DEF InHand, InContextOf
<1>4. x.attribute = "inventory_status"
  BY <1>3 DEF InHand, PriceColumn, Fallback
<1>5. /\ r.topic = "availability" /\ c.word = said
      /\ x.operator = Either(negated, "NOT_EQUALS", "EQUALS")
  BY <1>1, <1>3, <1>4 DEF ReadAs, SaysMoney, Says
<1>6. s.qualifier = "NONE" BY <1>5 DEF Understood, HedgeHarmless
<1>7. c.operator # "NOT_EQUALS" <=> ~Denied(s)
  BY <1>1, <1>3, <1>5, <1>6, Unhedged DEF Either
<1>8. PICK status : record["inventory_status"] = {status}
  <2>1. record["inventory_status"] = e.fields["inventory_status"] BY <1>2 DEF InHand, Partial
  <2>2. OneOf(record["inventory_status"], Statuses) BY DEF InHand, OneValued
  <2> QED BY <1>2, <2>1, <2>2 DEF OneOf
<1>9. e.fields["inventory_status"] = {status} BY <1>2, <1>8 DEF InHand, Partial
<1>10. PICK matched \in BOOLEAN :
         matched <=> status = said \/ (said = "in_stock" /\ status = "limited_stock")
  OBVIOUS
<1>11. Stocked(said, record) = Judge(matched) BY <1>8, <1>10 DEF Stocked, Judge
<1>12. /\ Availability(c, e).verdict = "SUPPORTED" => (matched <=> ~Denied(s))
       /\ Availability(c, e).verdict = "CONTRADICTED" => ~(matched <=> ~Denied(s))
  <2>1. matched <=> e.fields["inventory_status"]
                      \subseteq (IF c.word = "in_stock" THEN {"in_stock", "limited_stock"}
                                 ELSE {c.word})
    BY <1>5, <1>9, <1>10
  <2> QED BY <1>7, <2>1 DEF Availability, Supported, Contradicted, Fired
<1>13. value = Polarized(s, Judge(matched)) BY <1>5, <1>11, Values
<1> QED BY <1>12, <1>13 DEF Truthful, Judge, Polarized, Opposite

(* What is included.                                                        *)
LEMMA FeatureTruthful ==
  ASSUME NEW r \in Requests, NEW p, NEW c, NEW x, NEW e, NEW record, NEW day,
         InHand(r, p, c, x, e, record), Applies("feature_membership", c, e)
  PROVE  Truthful(FeatureMembership(c, e), Value(r.topic, r.sentence, record, p, day))
<1> DEFINE s == r.sentence
           value == Value(r.topic, s, record, p, day)
           included == record["included_features"]
           excluded == record["excluded_features"]
<1>1. PICK negated : /\ negated <=> Denied(s)
                     /\ ReadAs(r.topic, x, s, negated, StatedSpan(s, r.asOf))
  BY DEF InHand
<1>2. /\ x.type \in {"FEATURE_INCLUSION", "FEATURE_EXCLUSION"} /\ x.type = c.type
      /\ x.word = c.word /\ c.operator = ResolveOperator(x.operator, Hedge(s, p))
  BY DEF Applies, InHand, InContextOf
<1>3. /\ r.topic = "feature" /\ x.word = Only(s.feature).key
      /\ \/ (negated \/ "excludes" \in s.cues) /\ x.operator = "EXCLUDES"
         \/ ~negated /\ x.operator = "INCLUDES"
  BY <1>1, <1>2 DEF ReadAs, SaysMoney, Says
<1>4. c.operator # "EXCLUDES" <=> ~Denied(s)
  <2>1. c.operator = x.operator BY <1>2, <1>3, Unhedged
  <2>2. "excludes" \in s.cues => Denied(s) BY DEF InHand
  <2> QED BY <1>1, <1>3, <2>1, <2>2
<1>5. {"included_features", "excluded_features"} \subseteq Scope(c, e.attribute) \cap Columns
  BY <1>2 DEF Scope, Projection, Columns, Attributes
<1>6. e.fields["included_features"] = included /\ e.fields["excluded_features"] = excluded
  BY <1>5 DEF InHand, Shows
<1>7. PICK has \in BOOLEAN : has <=> c.word \in included OBVIOUS
<1>8. /\ FeatureMembership(c, e).verdict = "SUPPORTED" =>
           c.word \in included \cup excluded /\ (has <=> ~Denied(s))
      /\ FeatureMembership(c, e).verdict = "CONTRADICTED" =>
           c.word \in included \cup excluded /\ ~(has <=> ~Denied(s))
  BY <1>4, <1>6, <1>7 DEF FeatureMembership, Insufficient, Supported, Contradicted, Fired
<1>9. c.word \in included \cup excluded => FeatureIsIncluded(c.word, record) = Judge(has)
  BY <1>7 DEF FeatureIsIncluded, Judge
<1>10. value = Polarized(s, FeatureIsIncluded(c.word, record)) BY <1>2, <1>3, Values
<1> QED BY <1>8, <1>9, <1>10 DEF Truthful, Judge, Polarized, Opposite

(* Where it is sold.                                                        *)
LEMMA RegionTruthful ==
  ASSUME NEW r \in Requests, NEW p, NEW c, NEW x, NEW e, NEW record, NEW day,
         InHand(r, p, c, x, e, record), Applies("region_eligibility", c, e)
  PROVE  Truthful(RegionEligibility(c, e), Value(r.topic, r.sentence, record, p, day))
<1> DEFINE s == r.sentence
           value == Value(r.topic, s, record, p, day)
           regions == record["eligible_regions"]
<1>1. PICK negated : /\ negated <=> Denied(s)
                     /\ ReadAs(r.topic, x, s, negated, StatedSpan(s, r.asOf))
  BY DEF InHand
<1>2. /\ x.type = "GEO_ELIGIBILITY" /\ e.fields["eligible_regions"] # {}
      /\ x.word = c.word /\ c.operator = ResolveOperator(x.operator, Hedge(s, p))
  BY DEF Applies, Has, InHand, InContextOf
<1>3. /\ r.topic = "region" /\ x.word = Only(s.region)
      /\ x.operator = Either(negated, "EXCLUDES", "INCLUDES")
  BY <1>1, <1>2 DEF ReadAs, SaysMoney, Says
<1>4. c.operator # "EXCLUDES" <=> ~Denied(s)
  <2>1. c.operator = x.operator BY <1>2, <1>3, Unhedged DEF Either
  <2> QED BY <1>1, <1>3, <2>1 DEF Either
<1>5. e.fields["eligible_regions"] = regions
  <2>1. "eligible_regions" \in Attributes BY DEF Attributes
  <2> QED BY <1>2, <2>1 DEF InHand, Partial
<1>6. PICK sold \in BOOLEAN :
        sold <=> c.word \in regions \/ (c.word \in EUMembers /\ "EU" \in regions)
  OBVIOUS
<1>7. /\ RegionEligibility(c, e).verdict = "SUPPORTED" => (sold <=> ~Denied(s))
      /\ RegionEligibility(c, e).verdict = "CONTRADICTED" => ~(sold <=> ~Denied(s))
  BY <1>4, <1>5, <1>6 DEF RegionEligibility, Supported, Contradicted, Fired
<1>8. Sold(c.word, record) = Judge(sold) BY <1>2, <1>5, <1>6 DEF Sold, Judge
<1>9. value = Polarized(s, Sold(c.word, record)) BY <1>2, <1>3, Values
<1> QED BY <1>7, <1>8, <1>9 DEF Truthful, Judge, Polarized, Opposite

(* How it is billed.                                                        *)
LEMMA BillingTruthful ==
  ASSUME NEW r \in Requests, NEW p, NEW c, NEW x, NEW e, NEW record, NEW day,
         InHand(r, p, c, x, e, record), Understood(r, p), Applies("billing_period", c, e)
  PROVE  Truthful(BillingPeriod(c, e), Value(r.topic, r.sentence, record, p, day))
<1> DEFINE s == r.sentence
           value == Value(r.topic, s, record, p, day)
           periods == record["billing_period"]
<1>1. PICK negated : ReadAs(r.topic, x, s, negated, StatedSpan(s, r.asOf)) BY DEF InHand
<1>2. /\ e.attribute = "billing_period" /\ e.fields["billing_period"] # {} /\ x.word = c.word
  BY DEF Applies, Has, InHand, InContextOf
<1>3. x.attribute = "billing_period" BY <1>2 DEF InHand, PriceColumn, Fallback
<1>4. r.topic = "billing" /\ x.word = Only(s.period) /\ s.period # {}
  BY <1>1, <1>3 DEF ReadAs, SaysMoney, Says
<1>5. e.fields["billing_period"] = periods
  <2>1. "billing_period" \in Attributes BY DEF Attributes
  <2> QED BY <1>2, <2>1 DEF InHand, Partial
<1>6. s.period = {c.word}
  <2>1. OneOf(s.period, Periods) BY RequestAssumption DEF WellFormed
  <2> QED BY <1>2, <1>4, <2>1, OnlyOne DEF OneOf
<1>7. /\ BillingPeriod(c, e).verdict = "SUPPORTED" => s.period \subseteq periods
      /\ BillingPeriod(c, e).verdict = "CONTRADICTED" => ~(s.period \subseteq periods)
  BY <1>5, <1>6 DEF BillingPeriod, Supported, Contradicted, Fired
<1>8. value = Polarized(s, Judge(s.period \subseteq periods)) BY <1>2, <1>4, <1>5, Values
<1>9. ~Denied(s) BY <1>4 DEF Understood, PolarityRead
<1> QED BY <1>7, <1>8, <1>9 DEF Truthful, Judge, Polarized

-----------------------------------------------------------------------------
(* Windows.                                                                 *)
LEMMA DatesTopic ==
  ASSUME NEW r, NEW p, NEW c, NEW x, NEW e, NEW record, InHand(r, p, c, x, e, record)
  PROVE  /\ r.topic # "none"
         /\ Expired(c) => r.topic = "expired"
         /\ r.topic = "expired" =>
              c.starts = {} /\ c.ends = {} /\ e.attribute = "offer_end"
         /\ r.topic = "dates" =>
              /\ c.starts # {} \/ c.ends # {}
              /\ e.attribute = IF c.ends # {} THEN "offer_end" ELSE "offer_start"
<1> DEFINE s == r.sentence
           span == StatedSpan(s, r.asOf)
<1>1. PICK negated : ReadAs(r.topic, x, s, negated, span) BY DEF InHand
<1>2. /\ c.starts = span.starts /\ c.ends = span.ends /\ c.type = x.type
      /\ c.operator = ResolveOperator(x.operator, Hedge(s, p))
  BY DEF InHand, InContextOf
<1>3. x.attribute \notin {"price", "subscription_price"} => e.attribute = x.attribute
  BY DEF InHand
<1>4. r.topic # "none" BY <1>1 DEF ReadAs
<1>5. Expired(c) => r.topic = "expired"
  <2> SUFFICES ASSUME Expired(c) PROVE r.topic = "expired" OBVIOUS
  <2>1. x.type = "PROMOTION_DATES" /\ c.operator = "LESS_THAN" BY <1>2 DEF Expired
  <2>2. x.operator = "EQUALS" => c.operator # "LESS_THAN"
    BY <1>2 DEF ResolveOperator, OperatorFor
  <2> QED BY <1>1, <2>1, <2>2 DEF ReadAs, SaysMoney, Says
<1>6. r.topic = "expired" => span.ends = {} /\ span.starts = {} /\ x.attribute = "offer_end"
  BY <1>1 DEF ReadAs, Says
<1>7. r.topic = "dates" =>
        /\ span.starts # {} \/ span.ends # {}
        /\ x.attribute = IF span.ends # {} THEN "offer_end" ELSE "offer_start"
  BY <1>1 DEF ReadAs, Says
<1> HIDE DEF span
<1> QED BY <1>2, <1>3, <1>4, <1>5, <1>6, <1>7

LEMMA ExpiredTruthful ==
  ASSUME NEW r, NEW p, NEW c, NEW x, NEW e, NEW record, NEW q, NEW o,
         InHand(r, p, c, x, e, record), Expired(c), e.fields["offer_end"] # {},
         o = PromotionWindow(c, e, p, r.asOf)
  PROVE  Truthful(o, Value(r.topic, r.sentence, record, q, r.asOf))
<1>1. r.topic = "expired" BY DatesTopic
<1>2. record["offer_end"] = e.fields["offer_end"]
  <2>1. "offer_end" \in Attributes BY DEF Attributes
  <2> QED BY <2>1 DEF InHand, Partial
<1>3. Value(r.topic, r.sentence, record, q, r.asOf)
        = Judge(Ordinal(Only(record["offer_end"])) < Ordinal(r.asOf))
  BY <1>1, <1>2, Values
<1>4. /\ o.verdict = "SUPPORTED" => Ordinal(Only(record["offer_end"])) < Ordinal(r.asOf)
      /\ o.verdict = "CONTRADICTED" => ~(Ordinal(Only(record["offer_end"])) < Ordinal(r.asOf))
  BY <1>2 DEF PromotionWindow, Supported, Contradicted, Fired
<1> QED BY <1>3, <1>4 DEF Truthful, Judge

(* A window that differs makes the sentence false.                          *)
LEMMA WindowFalse ==
  ASSUME NEW r \in Requests, NEW p \in Profiles, NEW c, NEW x, NEW e, NEW entry \in r.entry,
         InHand(r, p, c, x, e, entry.values), Understood(r, p),
         Applies("promotion_window", c, e),
         PromotionWindow(c, e, p, r.asOf).verdict = "CONTRADICTED"
  PROVE  Judgement(r.topic, r.sentence, entry, p, r.asOf) = "false"
<1> DEFINE s == r.sentence
           record == entry.values
           value == Value(r.topic, s, record, p, r.asOf)
<1>1. Judgement(r.topic, s, entry, p, r.asOf) \in {"false", value} BY DEF Judgement
<1>2. CASE Expired(c) /\ e.fields["offer_end"] # {}
  <2>1. value = "false" BY <1>2, ExpiredTruthful DEF Truthful
  <2> QED BY <1>1, <2>1
<1>3. CASE ~(Expired(c) /\ e.fields["offer_end"] # {})
  <2>1. /\ DatesRead(r) /\ PolarityRead(r) /\ NoTurnNear(s, record, p) /\ p.grace \in Nat
    BY ToleranceAssumption DEF Understood
  <2>2. /\ InContextOf(c, x, s, r.asOf, p) /\ OneValued(record) /\ Partial(e, record)
    BY DEF InHand
  <2>3. StatedWindow(s, record, p) = "false" BY <1>3, <2>1, <2>2, WindowContradicts
  <2>4. CASE r.topic \notin {"none", "dates", "expired"}
    BY <2>3, <2>4 DEF Judgement, OutOfTime
  <2>5. CASE r.topic = "dates"
    <3>1. ~Denied(s) BY <2>1, <2>5 DEF PolarityRead
    <3>2. value = "false" BY <2>3, <2>5, <3>1, Values DEF Polarized
    <3> QED BY <1>1, <3>2
  <2>6. r.topic # "expired"
    <3>1. SUFFICES ASSUME r.topic = "expired" PROVE FALSE OBVIOUS
    <3>2. c.starts = {} /\ c.ends = {} BY <3>1, DatesTopic
    <3>3. PromotionWindow(c, e, p, r.asOf).verdict = "none"
      BY <1>3, <3>2 DEF PromotionWindow, Abstain, Fired
    <3> QED BY <3>3
  <2>7. r.topic # "none" BY DatesTopic
  <2> QED BY <2>4, <2>5, <2>6, <2>7
<1> QED BY <1>2, <1>3

(* The rule for offers compares the same days.                              *)
LEMMA ClosedWindow ==
  ASSUME NEW c, NEW e, NEW record, OneValued(record), NEW p, p.grace \in Nat, NEW day \in Dates,
         NEW o, o = ActiveOfferWindow(c, e, p, day)
  PROVE  /\ Partial(e, record) /\ o.verdict = "CONTRADICTED" => Closed(record, p, day)
         /\ /\ e.fields["offer_end"] = record["offer_end"]
            /\ e.fields["offer_start"] = record["offer_start"] /\ Closed(record, p, day)
            => o.verdict = "CONTRADICTED"
         /\ o.verdict # "SUPPORTED"
<1> DEFINE Early(d) == Ordinal(d) + p.grace < Ordinal(day)
           Late(d) == Ordinal(d) - p.grace > Ordinal(day)
<1>1. \A d \in Dates : Ordinal(d) \in Int
  <2> TAKE d \in Dates
  <2>1. d.year \in Nat /\ d.day \in Nat BY CalendarAssumption DEF Dates
  <2> QED BY <2>1, OrdinalInteger
<1>2. record["offer_end"] \subseteq Dates /\ record["offer_start"] \subseteq Dates
  BY DEF OneValued, OneOf
<1>3. /\ \A d \in Dates : Early(d) <=> Ordinal(d) < Ordinal(day) - p.grace
      /\ \A d \in Dates : Late(d) <=> Ordinal(d) > Ordinal(day) + p.grace
  BY <1>1
<1>4. Closed(record, p, day) <=> \/ \E d \in record["offer_end"] : Early(d)
                                 \/ \E d \in record["offer_start"] : Late(d)
  BY DEF Closed
<1>5. o.verdict = IF \/ \E d \in e.fields["offer_end"] : Ordinal(d) < Ordinal(day) - p.grace
                     \/ \E d \in e.fields["offer_start"] : Ordinal(d) > Ordinal(day) + p.grace
                  THEN "CONTRADICTED" ELSE "none"
  BY DEF ActiveOfferWindow, Contradicted, Abstain, Fired
<1> HIDE DEF Early, Late
<1>6. Partial(e, record) =>
        /\ e.fields["offer_end"] \subseteq record["offer_end"]
        /\ e.fields["offer_start"] \subseteq record["offer_start"]
  BY DEF Partial, Attributes
<1> QED BY <1>2, <1>3, <1>4, <1>5, <1>6

(* A sentence without dates that the claim has no dates of.                 *)
LEMMA DatesUnread ==
  ASSUME NEW r \in Requests, NEW p, NEW c, NEW x, InContextOf(c, x, r.sentence, r.asOf, p),
         DatesNoticed(r)
  PROVE  /\ c.starts \cup c.ends = {} <=> r.sentence.dates = <<>>
         /\ c.present /\ c.starts \cup c.ends = {} <=> SpeaksOfToday(r.sentence)
<1> DEFINE s == r.sentence
           span == MonthDaySpan(s.dates, r.asOf)
<1>1. s.dates \in Seq(Mentions) BY RequestAssumption DEF WellFormed
<1>2. DOMAIN s.dates = 1..Len(s.dates) /\ Len(s.dates) \in Nat BY <1>1
<1>3. s.dates = <<>> <=> Len(s.dates) = 0 BY <1>1
<1>4. /\ span # NoSpan => span.ends # {}
      /\ Len(s.dates) = 0 => span = NoSpan
  BY <1>2, SpanShape
<1>5. /\ c.starts = StatedSpan(s, r.asOf).starts /\ c.ends = StatedSpan(s, r.asOf).ends
      /\ c.present <=> "now" \in s.cues \/ "date" \notin s.cues
  BY DEF InContextOf
<1>6. NoSpan.starts = {} /\ NoSpan.ends = {} BY DEF NoSpan
<1> HIDE DEF span
<1>7. CASE s.dates = <<>>
  <2>1. StatedSpan(s, r.asOf) = NoSpan BY <1>3, <1>4, <1>7 DEF StatedSpan, span
  <2>2. c.starts \cup c.ends = {} BY <1>5, <1>6, <2>1
  <2> QED BY <1>5, <1>7, <2>2 DEF SpeaksOfToday
<1>8. CASE s.dates # <<>>
  <2>1. "date" \in s.cues /\ span # NoSpan BY <1>8 DEF DatesNoticed, span
  <2>2. StatedSpan(s, r.asOf) = span BY <2>1 DEF StatedSpan, span
  <2>3. c.starts \cup c.ends # {} BY <1>4, <1>5, <2>1, <2>2
  <2> QED BY <1>8, <2>3 DEF SpeaksOfToday
<1> QED BY <1>7, <1>8

(* Which sentences promise what an offer gives.                             *)
LEMMA OfferTopics ==
  ASSUME NEW r, NEW p, NEW c, NEW x, NEW e, NEW record, InHand(r, p, c, x, e, record)
  PROVE  /\ c.type = "DISCOUNT" <=> r.topic = "discount"
         /\ c.type \in {"SHIPPING", "MINIMUM_PURCHASE", "GEO_ELIGIBILITY"} <=>
              r.topic \in {"free_shipping", "no_charge", "paid_shipping", "shipping_cost",
                           "minimum", "no_minimum", "region"}
<1>1. PICK negated : ReadAs(r.topic, x, r.sentence, negated, StatedSpan(r.sentence, r.asOf))
  BY DEF InHand
<1>2. c.type = x.type BY DEF InHand, InContextOf
<1> QED BY <1>1, <1>2 DEF ReadAs, SaysMoney, Says

(* A window that is closed makes what the offer gives false.                *)
LEMMA OfferFalse ==
  ASSUME NEW r \in Requests, NEW p \in Profiles, NEW c, NEW x, NEW e, NEW entry \in r.entry,
         InHand(r, p, c, x, e, entry.values), Understood(r, p), e.offer = entry.offer,
         Applies("active_offer_window", c, e),
         ActiveOfferWindow(c, e, p, r.asOf).verdict = "CONTRADICTED"
  PROVE  Judgement(r.topic, r.sentence, entry, p, r.asOf) = "false"
<1> DEFINE s == r.sentence
           Offered == {"free_shipping", "no_charge", "paid_shipping", "shipping_cost", "minimum",
                       "no_minimum", "region"}
<1>1. /\ PolarityRead(r) /\ PromiseRead(r, p) /\ DatesNoticed(r) /\ p.grace \in Nat
  BY ToleranceAssumption DEF Understood
<1>2. /\ OneValued(entry.values) /\ Partial(e, entry.values)
      /\ InContextOf(c, x, s, r.asOf, p)
  BY DEF InHand
<1>3. r.asOf \in Dates BY RequestAssumption
<1>4. Closed(entry.values, p, r.asOf) BY <1>1, <1>2, <1>3, ClosedWindow
<1>5. /\ c.starts \cup c.ends = {} /\ c.present
      /\ \/ c.type = "DISCOUNT"
         \/ c.type \in {"SHIPPING", "MINIMUM_PURCHASE", "GEO_ELIGIBILITY"} /\ e.offer
  BY DEF Applies
<1>6. SpeaksOfToday(s) BY <1>1, <1>2, <1>5, DatesUnread
<1>7. r.topic = "discount" \/ (entry.offer /\ r.topic \in Offered) BY <1>5, OfferTopics
<1>8. entry.offer => ClosedOffer(r, p) BY <1>4 DEF ClosedOffer
<1>9. entry.offer /\ r.topic \in Offered =>
        /\ r.topic # "paid_shipping"
        /\ Denied(s) => r.topic \notin {"free_shipping", "region"}
  BY <1>1, <1>8 DEF PromiseRead
<1>10. Promised(r.topic, s, entry.offer)
  BY <1>1, <1>7, <1>9 DEF Promised, PolarityRead
<1>11. OutOfTime(r.topic, s, entry, p, r.asOf) BY <1>4, <1>6, <1>10 DEF OutOfTime
<1>12. r.topic \notin {"none", "dates", "expired"} BY <1>7
<1> QED BY <1>11, <1>12 DEF Judgement

(* The rules that contradict are right to.                                  *)
LEMMA ContradictionTruthful ==
  ASSUME NEW r \in Requests, NEW p \in Profiles, NEW c, NEW x, NEW e, NEW entry \in r.entry,
         InHand(r, p, c, x, e, entry.values), Understood(r, p), e.offer = entry.offer,
         NEW rule \in RuleNames, Applies(rule, c, e),
         Evaluate(rule, c, e, p, r.asOf).verdict = "CONTRADICTED"
  PROVE  Judgement(r.topic, r.sentence, entry, p, r.asOf) = "false"
<1> DEFINE value == Value(r.topic, r.sentence, entry.values, p, r.asOf)
<1>1. value = "false" => Judgement(r.topic, r.sentence, entry, p, r.asOf) = "false"
  BY DEF Judgement
<1>2. EntityResolution(c, e).verdict # "CONTRADICTED"
  BY DEF EntityResolution, Insufficient, Abstain, Fired
<1>3. FieldPresence(c, e).verdict # "CONTRADICTED"
  BY DEF FieldPresence, Insufficient, Abstain, Fired
<1>4. rule \notin {"entity_resolution", "field_presence"} BY <1>2, <1>3 DEF Evaluate
<1>5. CASE rule = "currency_match" BY <1>1, <1>5, CurrencyTruthful DEF Evaluate
<1>6. CASE rule = "numeric_comparison" BY <1>1, <1>6, NumberTruthful DEF Evaluate
<1>7. CASE rule = "free_shipping" BY <1>1, <1>7, ShippingTruthful DEF Evaluate, Truthful
<1>8. CASE rule = "availability" BY <1>1, <1>8, StockTruthful DEF Evaluate, Truthful
<1>9. CASE rule = "feature_membership" BY <1>1, <1>9, FeatureTruthful DEF Evaluate, Truthful
<1>10. CASE rule = "region_eligibility" BY <1>1, <1>10, RegionTruthful DEF Evaluate, Truthful
<1>11. CASE rule = "billing_period" BY <1>1, <1>11, BillingTruthful DEF Evaluate, Truthful
<1>12. CASE rule = "promotion_window" BY <1>12, WindowFalse DEF Evaluate
<1>13. CASE rule = "active_offer_window" BY <1>13, OfferFalse DEF Evaluate
<1> QED
  BY <1>4, <1>5, <1>6, <1>7, <1>8, <1>9, <1>10, <1>11, <1>12, <1>13, KnownRules

-----------------------------------------------------------------------------
(* No rule that looks at the claim objects.                                 *)
NoObjection(c, e, p, day) ==
  \A rule \in RuleNames :
    Applies(rule, c, e) =>
      Evaluate(rule, c, e, p, day).verdict \notin {"CONTRADICTED", "INSUFFICIENT_EVIDENCE"}

LEMMA ColumnShown ==
  ASSUME NEW r, NEW p, NEW c, NEW x, NEW e, NEW record, InHand(r, p, c, x, e, record)
  PROVE  e.attribute \in Attributes /\ e.fields[e.attribute] = record[e.attribute]
<1>1. e.attribute \in Columns /\ e.attribute \in Attributes
  BY DEF InHand, Columns
<1>2. e.attribute \in Scope(c, e.attribute) BY <1>1 DEF Scope
<1> QED BY <1>1, <1>2 DEF InHand, Shows

(* Then the value is as stated.                                             *)
LEMMA NumberSupported ==
  ASSUME NEW r \in Requests, NEW p \in Profiles, NEW c, NEW x, NEW e, NEW entry \in r.entry,
         InHand(r, p, c, x, e, entry.values), Understood(r, p), LookedAt(r, p),
         NEW day, NoObjection(c, e, p, day), c.kind = "number"
  PROVE  Value(r.topic, r.sentence, entry.values, p, day) = "true"
<1> DEFINE record == entry.values
           o == NumericComparison(c, e, p)
<1>1. e.attribute \in NumericAttributes
  <2>1. CASE r.topic \in Priced
    <3>1. e.attribute \in MoneyAttributes BY <2>1, PriceRead
    <3> QED BY <3>1 DEF NumericAttributes
  <2>2. CASE r.topic \notin Priced
    <3>1. e.attribute \in {"trial_days", "discount_percent", "minimum_purchase"}
      BY <2>2, NumberRead
    <3> QED BY <3>1 DEF NumericAttributes, MoneyAttributes
  <2> QED BY <2>1, <2>2
<1>2. record[e.attribute] # {}
  BY <1>1 DEF InHand, NumericAttributes, MoneyAttributes
<1>3. Applies("numeric_comparison", c, e) BY <1>1, <1>2, ColumnShown DEF Applies, Has
<1>4. o.verdict \in {"SUPPORTED", "CONTRADICTED"}
  BY DEF NumericComparison, Contradicted, Supported, Fired
<1>5. {"numeric_comparison", "currency_match"} \subseteq RuleNames BY KnownRules
<1>6. o.verdict = "SUPPORTED" BY <1>3, <1>4, <1>5 DEF NoObjection, Evaluate
<1>7. ASSUME r.topic \in Priced PROVE SameCurrency(Only(r.sentence.money), record) # "false"
  <2>1. CASE r.topic \in {"shipping_cost", "minimum"}
    BY <2>1 DEF LookedAt, CurrencyKept
  <2>2. CASE r.topic \in {"price", "plan_price"}
    <3>1. Applies("currency_match", c, e) => CurrencyMatch(c, e).verdict # "CONTRADICTED"
      BY <1>5 DEF NoObjection, Evaluate
    <3> QED BY <2>2, <3>1, CurrencyNoticed
  <2> QED BY <1>7, <2>1, <2>2 DEF Priced
<1> QED BY <1>3, <1>6, <1>7, NumberTruthful

LEMMA ValueSupported ==
  ASSUME NEW r \in Requests, NEW p \in Profiles, NEW c, NEW x, NEW e, NEW entry \in r.entry,
         InHand(r, p, c, x, e, entry.values), Understood(r, p), LookedAt(r, p),
         NEW day, NoObjection(c, e, p, day), r.topic \notin {"dates", "expired"}
  PROVE  Value(r.topic, r.sentence, entry.values, p, day) = "true"
<1> DEFINE record == entry.values
           value == Value(r.topic, r.sentence, record, p, day)
<1>1. PICK negated : ReadAs(r.topic, x, r.sentence, negated, StatedSpan(r.sentence, r.asOf))
  BY DEF InHand
<1>2. c.kind = x.kind /\ c.type = x.type BY DEF InHand, InContextOf
<1>3. e.attribute = IF x.attribute \in {"price", "subscription_price"}
                    THEN PriceColumn(x.attribute, record) ELSE x.attribute
  BY DEF InHand
<1>4. \/ c.kind = "number"
      \/ c.kind = "flag" /\ e.attribute = "free_shipping"
      \/ c.kind = "word" /\ e.attribute = "inventory_status"
      \/ c.kind = "word" /\ c.type \in {"FEATURE_INCLUSION", "FEATURE_EXCLUSION"}
      \/ c.kind = "word" /\ c.type = "GEO_ELIGIBILITY" /\ e.attribute = "eligible_regions"
      \/ c.kind = "word" /\ e.attribute = "billing_period"
  BY <1>1, <1>2, <1>3 DEF ReadAs, SaysMoney, Says
<1>5. \A column : column \in {"inventory_status", "eligible_regions", "billing_period"}
        /\ e.attribute = column => Has(e, column)
  <2>1. e.attribute # "free_shipping" => record[e.attribute] # {} BY DEF InHand
  <2>2. e.attribute \in Attributes /\ e.fields[e.attribute] = record[e.attribute]
    BY ColumnShown
  <2> QED BY <2>1, <2>2 DEF Has
<1>6. CASE c.kind = "number" BY <1>6, NumberSupported
<1>7. CASE c.kind = "flag" /\ e.attribute = "free_shipping"
  <2>1. Applies("free_shipping", c, e) BY <1>7 DEF Applies
  <2>2. FreeShipping(c, e).verdict = "SUPPORTED"
    BY <2>1, KnownRules, ShippingTruthful DEF NoObjection, Evaluate, Definite
  <2> QED BY <2>1, <2>2, ShippingTruthful DEF Truthful
<1>8. CASE c.kind = "word" /\ e.attribute = "inventory_status"
  <2>1. Applies("availability", c, e) BY <1>5, <1>8 DEF Applies
  <2>2. Availability(c, e).verdict \in {"SUPPORTED", "CONTRADICTED"}
    BY DEF Availability, Supported, Contradicted, Fired
  <2>3. Availability(c, e).verdict = "SUPPORTED"
    BY <2>1, <2>2, KnownRules DEF NoObjection, Evaluate
  <2> QED BY <2>1, <2>3, StockTruthful DEF Truthful
<1>9. CASE c.kind = "word" /\ c.type \in {"FEATURE_INCLUSION", "FEATURE_EXCLUSION"}
  <2>1. Applies("feature_membership", c, e) BY <1>9 DEF Applies
  <2>2. FeatureMembership(c, e).verdict
          \in {"SUPPORTED", "CONTRADICTED", "INSUFFICIENT_EVIDENCE"}
    BY DEF FeatureMembership, Insufficient, Supported, Contradicted, Fired
  <2>3. FeatureMembership(c, e).verdict = "SUPPORTED"
    BY <2>1, <2>2, KnownRules DEF NoObjection, Evaluate
  <2> QED BY <2>1, <2>3, FeatureTruthful DEF Truthful
<1>10. CASE c.kind = "word" /\ c.type = "GEO_ELIGIBILITY" /\ e.attribute = "eligible_regions"
  <2>1. Applies("region_eligibility", c, e) BY <1>5, <1>10 DEF Applies
  <2>2. RegionEligibility(c, e).verdict \in {"SUPPORTED", "CONTRADICTED"}
    BY DEF RegionEligibility, Supported, Contradicted, Fired
  <2>3. RegionEligibility(c, e).verdict = "SUPPORTED"
    BY <2>1, <2>2, KnownRules DEF NoObjection, Evaluate
  <2> QED BY <2>1, <2>3, RegionTruthful DEF Truthful
<1>11. CASE c.kind = "word" /\ e.attribute = "billing_period"
  <2>1. Applies("billing_period", c, e) BY <1>5, <1>11 DEF Applies
  <2>2. BillingPeriod(c, e).verdict \in {"SUPPORTED", "CONTRADICTED"}
    BY DEF BillingPeriod, Supported, Contradicted, Fired
  <2>3. BillingPeriod(c, e).verdict = "SUPPORTED"
    BY <2>1, <2>2, KnownRules DEF NoObjection, Evaluate
  <2> QED BY <2>1, <2>3, BillingTruthful DEF Truthful
<1> QED BY <1>4, <1>6, <1>7, <1>8, <1>9, <1>10, <1>11

(* The dates beside a value are those of the record, and the offer is open. *)
LEMMA WindowUnopposed ==
  ASSUME NEW r \in Requests, NEW p \in Profiles, NEW c, NEW x, NEW e, NEW entry \in r.entry,
         NEW record, record = entry.values,
         InHand(r, p, c, x, e, record), Understood(r, p), LookedAt(r, p),
         NoObjection(c, e, p, r.asOf), r.topic # "expired"
  PROVE  /\ StatedWindow(r.sentence, record, p) # "false"
         /\ c.ends # {} /\ record["offer_end"] # {} =>
              StatedWindow(r.sentence, record, p) = "true"
<1>1. /\ DatesRead(r) /\ DatesNoticed(r) /\ DatedOnce(r) /\ p.grace \in Nat
      /\ NoTurnNear(r.sentence, record, p)
  BY ToleranceAssumption DEF Understood, LookedAt
<1>2. InContextOf(c, x, r.sentence, r.asOf, p) /\ OneValued(record) BY DEF InHand
<1>3. ~Expired(c) BY DatesTopic
<1>4. c.ends # {} => e.fields["offer_end"] = record["offer_end"]
  <2>1. "offer_end" \in Columns BY DEF Columns, Attributes
  <2>2. c.ends # {} => "offer_end" \in Scope(c, e.attribute) BY DEF Scope
  <2> QED BY <2>1, <2>2 DEF InHand, Shows
<1>5. c.ends # {} /\ record["offer_end"] # {} =>
        PromotionWindow(c, e, p, r.asOf).verdict # "CONTRADICTED"
  <2> SUFFICES ASSUME c.ends # {}, record["offer_end"] # {}
               PROVE  PromotionWindow(c, e, p, r.asOf).verdict # "CONTRADICTED"
    OBVIOUS
  <2>1. "offer_end" \in Attributes BY DEF Attributes
  <2>2. Applies("promotion_window", c, e) BY <1>4, <2>1 DEF Applies, HasWindow, Has
  <2> QED BY <2>2, KnownRules DEF NoObjection, Evaluate
<1> QED BY <1>1, <1>2, <1>3, <1>4, <1>5, WindowAgrees

LEMMA OfferUnopposed ==
  ASSUME NEW r \in Requests, NEW p \in Profiles, NEW c, NEW x, NEW e, NEW entry \in r.entry,
         InHand(r, p, c, x, e, entry.values), Understood(r, p), LookedAt(r, p),
         e.offer = entry.offer, ~p.scoped => Shows(e, entry.values, Columns),
         NoObjection(c, e, p, r.asOf), Promised(r.topic, r.sentence, entry.offer),
         SpeaksOfToday(r.sentence)
  PROVE  ~Closed(entry.values, p, r.asOf)
<1> DEFINE record == entry.values
<1>1. DatesNoticed(r) /\ WindowKept(r, p) /\ p.grace \in Nat
  BY ToleranceAssumption DEF Understood, LookedAt
<1>2. InContextOf(c, x, r.sentence, r.asOf, p) /\ OneValued(record) BY DEF InHand
<1>3. CASE p.scoped /\ r.topic # "discount" BY <1>1, <1>3 DEF WindowKept
<1>4. CASE ~p.scoped \/ r.topic = "discount"
  <2>1. {"offer_start", "offer_end"} \subseteq Columns BY DEF Columns, Attributes
  <2>2. r.topic = "discount" => {"offer_start", "offer_end"} \subseteq Scope(c, e.attribute)
    <3>1. r.topic = "discount" => c.type = "DISCOUNT" BY OfferTopics
    <3> QED BY <3>1 DEF Scope, Projection, Attributes
  <2>3. /\ e.fields["offer_start"] = record["offer_start"]
        /\ e.fields["offer_end"] = record["offer_end"]
    BY <1>4, <2>1, <2>2 DEF InHand, Shows
  <2> SUFFICES ASSUME Closed(record, p, r.asOf) PROVE FALSE OBVIOUS
  <2>4. r.asOf \in Dates BY RequestAssumption
  <2>5. ActiveOfferWindow(c, e, p, r.asOf).verdict = "CONTRADICTED"
    BY <1>1, <1>2, <2>3, <2>4, ClosedWindow
  <2>6. c.starts \cup c.ends = {} /\ c.present BY <1>1, <1>2, DatesUnread
  <2>7. HasWindow(e)
    <3>1. record["offer_start"] # {} \/ record["offer_end"] # {} BY DEF Closed
    <3> QED BY <2>1, <2>3, <3>1 DEF HasWindow, Has, Columns
  <2>8. \/ c.type = "DISCOUNT"
        \/ c.type \in {"SHIPPING", "MINIMUM_PURCHASE", "GEO_ELIGIBILITY"} /\ e.offer
    BY OfferTopics DEF Promised
  <2>9. Applies("active_offer_window", c, e) BY <2>6, <2>7, <2>8 DEF Applies
  <2> QED BY <2>5, <2>9, KnownRules DEF NoObjection, Evaluate
<1> QED BY <1>3, <1>4

(* That an offer is over only the rule for windows can say.                 *)
LEMMA ExpiredSupported ==
  ASSUME NEW r \in Requests, NEW p, NEW c, NEW x, NEW e, NEW record,
         InHand(r, p, c, x, e, record), r.topic = "expired",
         NEW rule \in RuleNames, Applies(rule, c, e),
         Evaluate(rule, c, e, p, r.asOf).verdict = "SUPPORTED"
  PROVE  Value(r.topic, r.sentence, record, p, r.asOf) = "true"
<1>1. c.starts = {} /\ c.ends = {} /\ e.attribute = "offer_end" BY DatesTopic
<1>2. c.type = "PROMOTION_DATES" /\ c.kind = "date"
  <2>1. PICK negated : ReadAs(r.topic, x, r.sentence, negated, StatedSpan(r.sentence, r.asOf))
    BY DEF InHand
  <2>2. c.type = x.type /\ c.kind = x.kind BY DEF InHand, InContextOf
  <2> QED BY <2>1, <2>2 DEF ReadAs, Says
<1>3. rule \in {"entity_resolution", "field_presence", "promotion_window"}
  BY <1>1, <1>2, KnownRules DEF Applies, NumericAttributes, MoneyAttributes
<1>4. EntityResolution(c, e).verdict # "SUPPORTED"
  BY DEF EntityResolution, Insufficient, Abstain, Fired
<1>5. FieldPresence(c, e).verdict # "SUPPORTED"
  BY DEF FieldPresence, Insufficient, Abstain, Fired
<1>6. rule = "promotion_window" BY <1>3, <1>4, <1>5 DEF Evaluate
<1>7. PromotionWindow(c, e, p, r.asOf).verdict = "SUPPORTED" BY <1>6 DEF Evaluate
<1>8. Expired(c) BY <1>1, <1>6 DEF Applies
<1>9. e.fields["offer_end"] # {}
  BY <1>1, <1>7 DEF PromotionWindow, Abstain, Fired
<1> QED BY <1>7, <1>8, <1>9, ExpiredTruthful DEF Truthful

LEMMA SupportTruthful ==
  ASSUME NEW r \in Requests, NEW p \in Profiles, NEW c, NEW x, NEW e, NEW entry \in r.entry,
         InHand(r, p, c, x, e, entry.values), Understood(r, p), LookedAt(r, p),
         e.offer = entry.offer, ~p.scoped => Shows(e, entry.values, Columns),
         NoObjection(c, e, p, r.asOf),
         \E rule \in RuleNames :
           Applies(rule, c, e) /\ Evaluate(rule, c, e, p, r.asOf).verdict = "SUPPORTED"
  PROVE  Judgement(r.topic, r.sentence, entry, p, r.asOf) = "true"
<1> DEFINE s == r.sentence
           record == entry.values
           value == Value(r.topic, s, record, p, r.asOf)
<1>1. CASE r.topic \notin {"dates", "expired"}
  <2>1. value = "true" BY <1>1, ValueSupported
  <2>2. StatedWindow(s, record, p) # "false" BY <1>1, WindowUnopposed
  <2>3. Promised(r.topic, s, entry.offer) /\ SpeaksOfToday(s) => ~Closed(record, p, r.asOf)
    BY OfferUnopposed
  <2>4. ~OutOfTime(r.topic, s, entry, p, r.asOf) BY <2>2, <2>3 DEF OutOfTime
  <2> QED BY <2>1, <2>4 DEF Judgement
<1>2. CASE r.topic = "dates"
  <2>1. /\ c.starts # {} \/ c.ends # {}
        /\ e.attribute = IF c.ends # {} THEN "offer_end" ELSE "offer_start"
    BY <1>2, DatesTopic
  <2>2. c.ends # {}
    <3>1. DOMAIN s.dates = 1..Len(s.dates) /\ Len(s.dates) \in Nat
      BY RequestAssumption DEF WellFormed
    <3>2. MonthDaySpan(s.dates, r.asOf) # NoSpan => MonthDaySpan(s.dates, r.asOf).ends # {}
      BY <3>1, SpanShape
    <3>3. StatedSpan(s, r.asOf) \in {NoSpan, MonthDaySpan(s.dates, r.asOf)} BY DEF StatedSpan
    <3>4. NoSpan.starts = {} /\ NoSpan.ends = {} BY DEF NoSpan
    <3>5. c.starts = StatedSpan(s, r.asOf).starts /\ c.ends = StatedSpan(s, r.asOf).ends
      BY DEF InHand, InContextOf
    <3> QED BY <2>1, <3>2, <3>3, <3>4, <3>5
  <2>3. record["offer_end"] # {} BY <2>1, <2>2 DEF InHand
  <2>4. StatedWindow(s, record, p) = "true" BY <1>2, <2>2, <2>3, WindowUnopposed
  <2>5. ~Denied(s) BY <1>2 DEF Understood, PolarityRead
  <2>6. value = "true" BY <1>2, <2>4, <2>5, Values DEF Polarized
  <2> QED BY <1>2, <2>6 DEF Judgement
<1>3. CASE r.topic = "expired"
  <2>1. value = "true" BY <1>3, ExpiredSupported
  <2> QED BY <1>3, <2>1 DEF Judgement
<1> QED BY <1>1, <1>2, <1>3

-----------------------------------------------------------------------------
(* A doubtful polarity leaves the claim in doubt.                           *)
LEMMA DoubtKept ==
  ASSUME NEW s, WellFormed(s), NEW asOf, NEW p, p.negation, NEW c, c = Normalize(s, asOf, p),
         IsParsed(c), c.conf > 35
  PROVE  /\ Negated(s, p) <=> Denied(s)
         /\ "excludes" \in s.cues => Denied(s)
<1> DEFINE x == Classify(s, Negated(s, p), asOf)
<1>1. p.parsing
  <2>1. ~p.parsing => c.type = "UNKNOWN"
    BY DEF Normalize, Unparsed, InContext, Unclassified, Parsed
  <2> QED BY <2>1 DEF IsParsed
<1>2. c = InContext(s, Settled(s, x, p), Hedge(s, p), Negated(s, p), asOf)
  BY <1>1 DEF Normalize
<1>3. Bounded(x)
  <2>1. Negated(s, p) \in BOOLEAN BY DEF Negated
  <2> QED BY <2>1, ClassifyBounded
<1>4. c.conf = ParseConfidence(s, x, p)
  <2> HIDE DEF x
  <2>1. Settled(s, x, p).conf = ParseConfidence(s, x, p) BY <1>3 DEF Settled, Bounded
  <2> QED BY <1>2, <2>1 DEF InContext
<1>5. ~DoublyNegated(s, p) BY <1>3, <1>4 DEF ParseConfidence, Bounded, Sure
<1>6. s.negations \in Nat /\ ("excludes" \in s.cues => s.negations > 0)
  BY DEF WellFormed, CuesAgree
<1>7. s.negations % 2 \in {0, 1} BY <1>6
<1> QED BY <1>5, <1>6, <1>7 DEF DoublyNegated, Negated, Denied

LEMMA TakenInHand ==
  ASSUME NEW r \in Requests, NEW p \in Profiles, NEW c, c = Normalize(r.sentence, r.asOf, p),
         IsParsed(c), c.conf > 35, Understood(r, p), r.entry # {},
         NEW entry, entry = Only(r.entry),
         NEW e, e = Evidence(c, entry.values, entry.offer, p),
         Applies("field_presence", c, e) => ~Closes(Evaluate("field_presence", c, e, p, r.asOf))
  PROVE  /\ entry \in r.entry /\ e.offer = entry.offer
         /\ ~p.scoped => Shows(e, entry.values, Columns)
         /\ \E x : InHand(r, p, c, x, e, entry.values)
<1> DEFINE s == r.sentence
           record == entry.values
<1>1. entry \in r.entry BY OnlyOne
<1>2. WellFormed(s) /\ OneValued(record) BY <1>1, RequestAssumption
<1>3. p.negation /\ p.qualifiers BY DEF Understood
<1>4. c.type # "UNKNOWN" /\ c.attribute # "unknown" BY DEF IsParsed
<1>5. PICK x : /\ ReadAs(r.topic, x, s, Negated(s, p), StatedSpan(s, r.asOf))
               /\ InContextOf(c, x, s, r.asOf, p)
  BY <1>4, NormalizeReads
<1>6. /\ Negated(s, p) <=> Denied(s)
      /\ "excludes" \in s.cues => Denied(s)
  BY <1>2, <1>3, DoubtKept
<1>7. c.qualifier = s.qualifier BY <1>3, <1>5 DEF InContextOf, Hedge
<1>8. c.attribute = x.attribute BY <1>5 DEF InContextOf
<1>9. c.attribute \in Columns
  BY <1>5, <1>8 DEF ReadAs, SaysMoney, Says, Columns, Attributes, NumericAttributes,
                    MoneyAttributes
<1>10. /\ Presents(e, entry.offer, EffectiveAttribute(c, record))
       /\ Shows(e, record, Scope(c, EffectiveAttribute(c, record)) \cap Columns)
       /\ ~p.scoped => Shows(e, record, Columns)
  BY ScopeShown
<1> HIDE DEF s, record
<1>11. /\ Partial(e, record) /\ e.attribute = EffectiveAttribute(c, record)
       /\ e.attribute \in Columns
       /\ \/ e.fields[e.attribute] # {}
          \/ e.attribute = "free_shipping" /\ e.fields["shipping_cost"] # {}
  BY <1>9, ColumnPresent DEF record
<1>12. e.attribute \in Attributes /\ "shipping_cost" \in Attributes
  BY <1>11 DEF Columns, Attributes, NumericAttributes, MoneyAttributes
<1>13. record[e.attribute] # {} \/ (e.attribute = "free_shipping" /\ record["shipping_cost"] # {})
  BY <1>11, <1>12 DEF Partial
<1>14. e.attribute = IF x.attribute \in {"price", "subscription_price"}
                     THEN PriceColumn(x.attribute, record) ELSE x.attribute
  BY <1>4, <1>8, <1>11, ColumnRead
<1>15. InHand(r, p, c, x, e, record)
  BY <1>2, <1>5, <1>6, <1>7, <1>10, <1>11, <1>13, <1>14 DEF InHand, s, record
<1>16. e.offer = entry.offer BY <1>10 DEF Presents
<1> QED BY <1>1, <1>10, <1>15, <1>16 DEF record

(* What the rules settle by themselves is what the record says, under every *)
(* profile, for every sentence, record and day: a CONTRADICTED sentence is  *)
(* false, and a SUPPORTED one true if the rules look at all of it.          *)
THEOREM VerdictsAreRight == Spec => []RulesTellTheTruth
<1>1. ASSUME ReadingInv PROVE RulesTellTheTruth
  <2> DEFINE r == request
             p == profile
             entry == Only(r.entry)
  <2> SUFFICES ASSUME Evaluated, ~extracted, IsTerminal(result), Understood(r, p),
                      result.verdict \in Definite
               PROVE  /\ result.verdict = "CONTRADICTED" => Judged = "false"
                      /\ result.verdict = "SUPPORTED" /\ LookedAt(r, p) => Judged = "true"
    BY DEF RulesTellTheTruth, Definite
  <2>0. PICK f : f = ConcludedOn(RulesOf(p), claim, evidence, p, r.asOf) OBVIOUS
  <2>1. /\ r \in Requests /\ p \in Profiles /\ RulesOf(p) \in SUBSET RuleNames
        /\ claim = Normalize(r.sentence, r.asOf, p) /\ IsParsed(claim)
        /\ claim.conf \in 0..100 /\ evidence = EvidenceOf(r, claim, p)
        /\ result.verdict = f.verdict /\ result.conf = f.conf /\ result.escalate = f.escalate
    BY <1>1, <2>0, ReadOnly
  <2>2. /\ DatesRead(r) /\ p.minConf > 35 /\ "field_presence" \in RulesOf(p) BY DEF Understood
  <2>3. r.entry # {} BY <2>0, <2>1, <2>2, SilenceKept
  <2>4. /\ \E x \in RulesOf(p) : /\ Applies(x, claim, evidence)
                                 /\ Evaluate(x, claim, evidence, p, r.asOf).verdict = f.verdict
        /\ \A x \in RulesOf(p) : Applies(x, claim, evidence) =>
             ~Closes(Evaluate(x, claim, evidence, p, r.asOf))
        /\ f.verdict = "SUPPORTED" =>
             \A x \in RulesOf(p) : Applies(x, claim, evidence) =>
               Evaluate(x, claim, evidence, p, r.asOf).verdict
                 \notin {"CONTRADICTED", "INSUFFICIENT_EVIDENCE"}
        /\ f.conf <= claim.conf /\ (~f.escalate => f.conf >= p.minConf)
    BY <2>0, <2>1, DefiniteConclusion
  <2>5. claim.conf > 35
    <3>1. f.conf >= p.minConf BY <2>1, <2>4 DEF IsTerminal
    <3>2. f.conf \in Int
      <4>1. result.conf \in 0..100
        BY <1>1 DEF ReadingInv, PipelineInv, ConclusionSound, ResultSound
      <4> QED BY <2>1, <4>1
    <3>3. p.minConf \in 0..100 BY <2>1, ToleranceAssumption
    <3> QED BY <2>1, <2>2, <2>4, <3>1, <3>2, <3>3
  <2>6. evidence = Evidence(claim, entry.values, entry.offer, p)
    BY <2>1, <2>3 DEF EvidenceOf
  <2>7. PICK x : /\ entry \in r.entry /\ evidence.offer = entry.offer
                 /\ ~p.scoped => Shows(evidence, entry.values, Columns)
                 /\ InHand(r, p, claim, x, evidence, entry.values)
    BY <2>1, <2>2, <2>3, <2>4, <2>5, <2>6, TakenInHand
  <2>8. Judged = Judgement(r.topic, r.sentence, entry, p, r.asOf)
    BY <2>3 DEF Judged
  <2>9. ASSUME result.verdict = "CONTRADICTED" PROVE Judged = "false"
    BY <2>1, <2>4, <2>7, <2>8, <2>9, ContradictionTruthful
  <2>10. ASSUME result.verdict = "SUPPORTED", LookedAt(r, p) PROVE Judged = "true"
    <3>1. RulesOf(p) = RuleNames
      BY <2>1, <2>10 DEF LookedAt, RuleNames
    <3>2. NoObjection(claim, evidence, p, r.asOf)
      BY <2>1, <2>4, <2>10, <3>1 DEF NoObjection
    <3> QED BY <2>1, <2>4, <2>7, <2>8, <2>10, <3>1, <3>2, SupportTruthful
  <2> QED BY <2>9, <2>10
<1> QED BY <1>1, ReadingInvariant, PTL

-----------------------------------------------------------------------------
(* What a candidate takes over.                                             *)

(* The settings of two profiles that agree but for a few.                   *)
LEMMA SettingsKept ==
  ASSUME NEW p, NEW q, NEW some, Changed(Settings, p, q) \subseteq some,
         some \subseteq {"order", "slogans", "routing"}
  PROVE  /\ p.parsing = q.parsing /\ p.negation = q.negation /\ p.qualifiers = q.qualifiers
         /\ p.scoped = q.scoped /\ p.terms = q.terms /\ p.rules = q.rules
         /\ p.priceAbsolute = q.priceAbsolute /\ p.priceRelative = q.priceRelative
         /\ p.percentTolerance = q.percentTolerance /\ p.trialTolerance = q.trialTolerance
         /\ p.approximate = q.approximate /\ p.grace = q.grace
         /\ p.allowSupported = q.allowSupported
         /\ p.allowContradicted = q.allowContradicted /\ p.minConf = q.minConf
         /\ "order" \notin some => p.order = q.order
         /\ "slogans" \notin some => p.slogans = q.slogans
         /\ "routing" \notin some => p.routing = q.routing
<1>1. \A f \in Settings : f \notin some => p[f] = q[f] BY DEF Changed
<1> QED BY <1>1 DEF Settings

(* Profiles that read and compare alike.                                    *)
LEMMA SameReading ==
  ASSUME NEW p, NEW q, NEW s, NEW asOf,
         p.parsing = q.parsing, p.negation = q.negation, p.qualifiers = q.qualifiers
  PROVE  Normalize(s, asOf, p) = Normalize(s, asOf, q)
<1>1. Negated(s, p) = Negated(s, q) /\ Hedge(s, p) = Hedge(s, q) BY DEF Negated, Hedge
<1>2. \A x : ParseConfidence(s, x, p) = ParseConfidence(s, x, q)
  BY DEF ParseConfidence, DoublyNegated
<1>3. \A x : Settled(s, x, p) = Settled(s, x, q) BY <1>1, <1>2 DEF Settled
<1> QED BY <1>1, <1>3 DEF Normalize

LEMMA SameEvidence ==
  ASSUME NEW p, NEW q, NEW r, NEW c, p.scoped = q.scoped, p.terms = q.terms
  PROVE  EvidenceOf(r, c, p) = EvidenceOf(r, c, q)
<1>1. \A record, offer : Evidence(c, record, offer, p) = Evidence(c, record, offer, q)
  BY DEF Evidence
<1> QED BY <1>1 DEF EvidenceOf

LEMMA SameJudgement ==
  ASSUME NEW p, NEW q, NEW rule, NEW c, NEW e, NEW day,
         p.priceAbsolute = q.priceAbsolute, p.priceRelative = q.priceRelative,
         p.percentTolerance = q.percentTolerance, p.trialTolerance = q.trialTolerance,
         p.approximate = q.approximate, p.grace = q.grace
  PROVE  Evaluate(rule, c, e, p, day) = Evaluate(rule, c, e, q, day)
<1>1. \A a, x, k : Tolerance(a, x, k, p) = Tolerance(a, x, k, q) BY DEF Tolerance
<1>2. NumericComparison(c, e, p) = NumericComparison(c, e, q) BY <1>1 DEF NumericComparison
<1>3. PromotionWindow(c, e, p, day) = PromotionWindow(c, e, q, day) BY DEF PromotionWindow
<1>4. ActiveOfferWindow(c, e, p, day) = ActiveOfferWindow(c, e, q, day)
  BY DEF ActiveOfferWindow
<1> QED BY <1>2, <1>3, <1>4 DEF Evaluate

(* Which columns and kinds of values the claims of each type have.          *)
LEMMA TypesRead ==
  ASSUME NEW topic, NEW x, NEW s, NEW negated, NEW span, ReadAs(topic, x, s, negated, span),
         NEW c, c.type = x.type, c.attribute = x.attribute, c.kind = x.kind
  PROVE  /\ c.type \in ClaimTypes \ {"UNKNOWN"}
         /\ c.attribute \in MoneyAttributes => c.type \in Concerns("currency_match")
         /\ c.kind = "number" => c.type \in Concerns("numeric_comparison")
         /\ c.attribute = "free_shipping" => c.type \in Concerns("free_shipping")
         /\ c.attribute = "inventory_status" => c.type \in Concerns("availability")
         /\ c.attribute = "billing_period" => c.type \in Concerns("billing_period")
<1>1. \/ c.type = "TRIAL_DURATION" /\ c.attribute = "trial_days" /\ c.kind = "number"
      \/ c.type = "SHIPPING" /\ c.attribute = "free_shipping" /\ c.kind = "flag"
      \/ c.type = "SHIPPING" /\ c.attribute = "shipping_cost" /\ c.kind = "number"
      \/ c.type = "MINIMUM_PURCHASE" /\ c.attribute = "minimum_purchase" /\ c.kind = "number"
      \/ c.type = "DISCOUNT" /\ c.attribute = "discount_percent" /\ c.kind = "number"
      \/ c.type = "GEO_ELIGIBILITY" /\ c.attribute = "eligible_regions" /\ c.kind = "word"
      \/ c.type = "AVAILABILITY" /\ c.attribute = "inventory_status" /\ c.kind = "word"
      \/ c.type = "SUBSCRIPTION_TERMS" /\ c.attribute = "subscription_price" /\ c.kind = "number"
      \/ c.type = "SUBSCRIPTION_TERMS" /\ c.attribute = "billing_period" /\ c.kind = "word"
      \/ c.type = "PRICE" /\ c.attribute = "price" /\ c.kind = "number"
      \/ c.type = "PROMOTION_DATES" /\ c.attribute = "offer_end" /\ c.kind = "date"
      \/ c.type = "PROMOTION_DATES" /\ c.attribute = "offer_start" /\ c.kind = "date"
      \/ c.type = "FEATURE_EXCLUSION" /\ c.attribute = "excluded_features" /\ c.kind = "word"
      \/ c.type = "FEATURE_INCLUSION" /\ c.attribute = "included_features" /\ c.kind = "word"
  BY DEF ReadAs, SaysMoney, Says
<1>2. /\ Concerns("currency_match")
           = {"PRICE", "SUBSCRIPTION_TERMS", "SHIPPING", "MINIMUM_PURCHASE"}
      /\ Concerns("numeric_comparison")
           = {"PRICE", "SUBSCRIPTION_TERMS", "SHIPPING", "MINIMUM_PURCHASE", "DISCOUNT",
              "TRIAL_DURATION"}
      /\ Concerns("free_shipping") = {"SHIPPING"}
      /\ Concerns("availability") = {"AVAILABILITY"}
      /\ Concerns("billing_period") = {"SUBSCRIPTION_TERMS"}
  BY DEF Concerns, GateRules
<1> QED BY <1>1, <1>2 DEF ClaimTypes, MoneyAttributes

(* A rule does not look at a claim of a type it is not concerned with.      *)
LEMMA Unconcerned ==
  ASSUME NEW topic, NEW x, NEW s, NEW negated, NEW span, ReadAs(topic, x, s, negated, span),
         NEW c, c.type = x.type, c.attribute = x.attribute, c.kind = x.kind,
         NEW r, NEW p, NEW rule \in RuleNames, c.type \notin Concerns(rule),
         rule = "promotion_window" => c.starts \cup c.ends = {}
  PROVE  ~Applies(rule, c, EvidenceOf(r, c, p))
<1> DEFINE e == EvidenceOf(r, c, p)
<1>1. e.attribute \in {c.attribute, Fallback(c.attribute)}
  <2>1. NoEvidence(c).attribute = c.attribute BY DEF NoEvidence
  <2>2. \A record, offer :
          Evidence(c, record, offer, p).attribute \in {c.attribute, Fallback(c.attribute)}
    BY DEF Evidence, EffectiveAttribute
  <2> QED BY <2>1, <2>2 DEF EvidenceOf
<1> SUFFICES ~Applies(rule, c, e) OBVIOUS
<1> HIDE DEF e
<1>2. \/ e.attribute = c.attribute
      \/ e.attribute \in MoneyAttributes /\ c.attribute \in MoneyAttributes
  BY <1>1 DEF Fallback, MoneyAttributes
<1>3. /\ c.type \in ClaimTypes \ {"UNKNOWN"}
      /\ c.attribute \in MoneyAttributes => c.type \in Concerns("currency_match")
      /\ c.kind = "number" => c.type \in Concerns("numeric_comparison")
      /\ c.attribute = "free_shipping" => c.type \in Concerns("free_shipping")
      /\ c.attribute = "inventory_status" => c.type \in Concerns("availability")
      /\ c.attribute = "billing_period" => c.type \in Concerns("billing_period")
  BY TypesRead
<1>4. "free_shipping" \notin MoneyAttributes /\ "inventory_status" \notin MoneyAttributes
      /\ "billing_period" \notin MoneyAttributes
  BY DEF MoneyAttributes
<1>5. CASE rule \in GateRules
  <2>1. Concerns(rule) = ClaimTypes \ {"UNKNOWN"} BY <1>5 DEF Concerns, GateRules
  <2> QED BY <1>3, <2>1
<1>6. CASE rule = "currency_match" BY <1>2, <1>3, <1>6 DEF Applies
<1>7. CASE rule = "numeric_comparison" BY <1>3, <1>7 DEF Applies
<1>8. CASE rule = "free_shipping" BY <1>2, <1>3, <1>4, <1>8 DEF Applies
<1>9. CASE rule = "availability" BY <1>2, <1>3, <1>4, <1>9 DEF Applies
<1>10. CASE rule = "feature_membership"
  BY <1>10 DEF Applies, Concerns, GateRules
<1>11. CASE rule = "region_eligibility" BY <1>11 DEF Applies, Concerns, GateRules
<1>12. CASE rule = "billing_period" BY <1>2, <1>3, <1>4, <1>12 DEF Applies
<1>13. CASE rule = "promotion_window" BY <1>13 DEF Applies, Concerns, GateRules, Expired
<1>14. CASE rule = "active_offer_window" BY <1>14 DEF Applies, Concerns, GateRules
<1> QED
  BY <1>5, <1>6, <1>7, <1>8, <1>9, <1>10, <1>11, <1>12, <1>13, <1>14, KnownRules DEF GateRules

(* Rules that do not look at the claim may come and go.                     *)
LEMMA SameRules ==
  ASSUME NEW before, NEW after, NEW c, NEW e, NEW p, NEW q, NEW day,
         p.allowSupported = q.allowSupported, p.allowContradicted = q.allowContradicted,
         p.minConf = q.minConf,
         \A x : Evaluate(x, c, e, p, day) = Evaluate(x, c, e, q, day),
         \A x \in (before \ after) \cup (after \ before) : ~Applies(x, c, e)
  PROVE  ConcludedOn(before, c, e, p, day) = ConcludedOn(after, c, e, q, day)
<1>1. {y \in before : Applies(y, c, e)} = {y \in after : Applies(y, c, e)} OBVIOUS
<1>2. Tried(before, c, e, p, day) = Tried(after, c, e, q, day) BY <1>1 DEF Tried
<1>3. \A tried : Reconciled(tried, c, p) = Reconciled(tried, c, q) BY DEF Reconciled
<1> QED BY <1>2, <1>3 DEF ConcludedOn

(* What routing and decision read of a result.                              *)
LEMMA SameRouting ==
  ASSUME NEW r, NEW f, NEW v, NEW view, NEW cfg, NEW alt, NEW rating, NEW found,
         r.verdict = f.verdict, r.codes = f.codes, r.escalate = f.escalate,
         cfg.enabled = alt.enabled, cfg.onUnresolved = alt.onUnresolved,
         cfg.onMissing = alt.onMissing,
         rating # NoVerdict => cfg.blockSupport = alt.blockSupport
  PROVE  /\ ShouldRate(cfg, v, r, view).required = ShouldRate(alt, v, f, view).required
         /\ Decide(cfg, view, r, rating) = Decide(alt, view, f, rating)
<1>1. Withheld(cfg, r, view) <=> Withheld(alt, f, view)
  BY DEF Withheld, IsTerminal, MissingEvidence
<1>2. ShouldRate(cfg, v, r, view).required = ShouldRate(alt, v, f, view).required
  BY <1>1 DEF ShouldRate, NotRequired
<1>3. Decide(cfg, view, r, rating) = Decide(alt, view, f, rating) BY DEF Decide, IsTerminal
<1> QED BY <1>2, <1>3

LEMMA SloganUnread ==
  ASSUME NEW s, NEW asOf, NEW p, NEW c, c = Normalize(s, asOf, p), c.slogan
  PROVE  c.type = "UNKNOWN"
BY DEF Normalize, Unparsed, InContext

(* The result a profile leads to.                                           *)
ResultOn(c, e, p, day) ==
  IF NotEvaluated(c, p) # {} THEN Only(NotEvaluated(c, p))
  ELSE ConcludedOn(RulesOf(p), c, e, p, day)

LEMMA ChildOn ==
  ASSUME NEW p, NEW c, c = Normalize(request.sentence, request.asOf, p),
         NEW e, e = EvidenceOf(request, c, p),
         NEW r, r = ResultOn(c, e, p, request.asOf)
  PROVE  ByChild(p) = [claim |-> c, evidence |-> e, asked |-> RequiredOn(p, c, e, r),
                       answer |-> DecidedOn(rated, p, c, e, r)]
<1>1. EvidenceOf(request, c, p)
        = IF request.entry = {}
          THEN NoEvidence(c)
          ELSE LET entry == Only(request.entry) IN Evidence(c, entry.values, entry.offer, p)
  BY DEF EvidenceOf
<1>2. ResultOn(c, e, p, request.asOf)
        = IF NotEvaluated(c, p) # {} THEN Only(NotEvaluated(c, p))
          ELSE Concluded(RulesOf(p), c, e, p)
  BY ReadNow DEF ResultOn
<1> QED BY <1>1, <1>2 DEF ByChild, RequiredOn, DecidedOn

LEMMA TakenOver ==
  ASSUME ReadingInv, stage = "answered", NEW e \in Experiments, e.parent = profile,
         NEW expected \in ClaimTypes, ~Reevaluated(e, expected), ~DatedElsewhere(e)
  PROVE  ByChild(e.child) = ByParent
<1> DEFINE p == profile
           q == e.child
           s == request.sentence
           day == request.asOf
<1>1. /\ ~p.extraction /\ KnownOrder(q)
      /\ IF e.raterOnly THEN ChangesRating(e) ELSE ChangesRules(e)
  BY ExperimentsAssumption
<1>2. profile \in Profiles /\ evidence = EvidenceOf(request, claim, p)
  BY DEF ReadingInv, PipelineInv, Placed, EvidenceSound
<1>3. claim = Normalize(s, day, p) /\ ~extracted BY <1>1 DEF ReadingInv, ClaimRead
<1>4. e.raterOnly => rated = Unrated BY DEF Reevaluated, Consulted
<1>5. ~e.raterOnly => claim.type \notin e.affected BY DEF Reevaluated, Failed
<1>6. /\ p.parsing = q.parsing /\ p.negation = q.negation /\ p.qualifiers = q.qualifiers
      /\ p.scoped = q.scoped /\ p.terms = q.terms /\ p.rules = q.rules
      /\ p.priceAbsolute = q.priceAbsolute /\ p.priceRelative = q.priceRelative
      /\ p.percentTolerance = q.percentTolerance /\ p.trialTolerance = q.trialTolerance
      /\ p.approximate = q.approximate /\ p.grace = q.grace
      /\ p.allowSupported = q.allowSupported
      /\ p.allowContradicted = q.allowContradicted /\ p.minConf = q.minConf
  <2>1. Changed(Settings, p, q) \subseteq {"order", "slogans", "routing"}
    BY <1>1 DEF ChangesRating, ChangesRules
  <2> QED BY <2>1, SettingsKept
<1>7. /\ p.routing.enabled = q.routing.enabled
      /\ p.routing.onUnresolved = q.routing.onUnresolved
      /\ p.routing.onMissing = q.routing.onMissing
      /\ rated.verdict # NoVerdict => p.routing.blockSupport = q.routing.blockSupport
  <2>1. CASE e.raterOnly
    <3>1. \A f \in RoutingSettings : f # "blockSupport" => p.routing[f] = q.routing[f]
      BY <1>1, <2>1 DEF ChangesRating, Changed
    <3>2. rated.verdict = NoVerdict BY <1>4, <2>1 DEF Unrated
    <3> QED BY <3>1, <3>2 DEF RoutingSettings
  <2>2. CASE ~e.raterOnly
    <3>1. Changed(Settings, p, q) \subseteq {"order", "slogans"}
      BY <1>1, <2>2 DEF ChangesRules
    <3>2. p.routing = q.routing BY <3>1, SettingsKept
    <3> QED BY <3>2
  <2> QED BY <2>1, <2>2
<1>8. claim = Normalize(s, day, q) BY <1>3, <1>6, SameReading
<1>9. evidence = EvidenceOf(request, claim, q) BY <1>2, <1>6, SameEvidence
<1>10. NotEvaluated(claim, p) = NotEvaluated(claim, q)
  <2>1. p.slogans # q.slogans => ~claim.slogan
    <3>1. CASE e.raterOnly
      <4>1. Changed(Settings, p, q) \subseteq {"routing"} BY <1>1, <3>1 DEF ChangesRating
      <4> QED BY <4>1, SettingsKept
    <3>2. CASE ~e.raterOnly
      <4>1. p.slogans # q.slogans => claim.type # "UNKNOWN"
        BY <1>1, <1>5, <3>2 DEF ChangesRules
      <4> QED BY <1>3, <4>1, SloganUnread
    <3> QED BY <3>1, <3>2
  <2>2. p.slogans /\ claim.slogan <=> q.slogans /\ claim.slogan BY <2>1
  <2> QED BY <1>6, <2>2 DEF NotEvaluated
<1> DEFINE r == ResultOn(claim, evidence, q, day)
<1>11. result.verdict = r.verdict /\ result.codes = r.codes /\ result.escalate = r.escalate
  <2>1. CASE NotEvaluated(claim, p) # {}
    <3>1. result \in NotEvaluated(claim, q) BY <1>10, <2>1 DEF ReadingInv, ResultGiven
    <3>2. \E one : NotEvaluated(claim, q) = {one} BY <3>1 DEF NotEvaluated
    <3>3. result = Only(NotEvaluated(claim, q)) BY <3>1, <3>2 DEF Only
    <3> QED BY <1>10, <2>1, <3>3 DEF ResultOn
  <2>2. CASE NotEvaluated(claim, p) = {}
    <3>1. Evaluated BY <2>2 DEF Evaluated
    <3>2. /\ OrderFree(result, RulesOf(p), claim, evidence, p, day)
          /\ \E x : /\ ReadAs(request.topic, x, s, Negated(s, p), StatedSpan(s, day))
                    /\ InContextOf(claim, x, s, day, p)
      BY <1>3, <3>1, EvaluatedClaim
    <3>3. \A rule : Evaluate(rule, claim, evidence, p, day) = Evaluate(rule, claim, evidence, q, day)
      BY <1>6, SameJudgement
    <3>4. \A rule \in ChangedRules(e) : ~Applies(rule, claim, evidence)
      <4>1. CASE e.raterOnly
        <5>1. Changed(Settings, p, q) \subseteq {"routing"} BY <1>1, <4>1 DEF ChangesRating
        <5>2. p.order = q.order BY <5>1, SettingsKept
        <5> QED BY <5>2 DEF ChangedRules, RulesOf
      <4>2. CASE ~e.raterOnly
        <5> SUFFICES ASSUME NEW rule \in ChangedRules(e)
                     PROVE  ~Applies(rule, claim, evidence)
          OBVIOUS
        <5>1. claim.type \notin Concerns(rule)
          BY <1>1, <1>5, <4>2 DEF ChangesRules
        <5>2. rule = "promotion_window" => claim.starts \cup claim.ends = {}
          BY DEF DatedElsewhere
        <5>3. rule \in RuleNames
          <6>1. RulesOf(p) \subseteq RuleNames BY <1>2, ProfileRules
          <6>2. RulesOf(q) \subseteq RuleNames
            <7>1. q.order \in Seq(RuleNames) BY <1>1 DEF KnownOrder, RuleNames
            <7> QED BY <7>1 DEF RulesOf
          <6> QED BY <6>1, <6>2 DEF ChangedRules
        <5>4. PICK x : /\ ReadAs(request.topic, x, s, Negated(s, p), StatedSpan(s, day))
                       /\ claim.type = x.type /\ claim.attribute = x.attribute
                       /\ claim.kind = x.kind
          BY <3>2 DEF InContextOf
        <5> HIDE DEF p, q, s, day
        <5>5. ~Applies(rule, claim, EvidenceOf(request, claim, p))
          BY <5>1, <5>2, <5>3, <5>4, Unconcerned
        <5> QED BY <1>2, <5>5
      <4> QED BY <4>1, <4>2
    <3>5. ConcludedOn(RulesOf(p), claim, evidence, p, day) = r
      <4>1. \A rule \in (RulesOf(p) \ RulesOf(q)) \cup (RulesOf(q) \ RulesOf(p)) :
              ~Applies(rule, claim, evidence)
        BY <3>4 DEF ChangedRules
      <4>2. r = ConcludedOn(RulesOf(q), claim, evidence, q, day)
        BY <1>10, <2>2 DEF ResultOn
      <4> HIDE DEF p, q, day, r
      <4> QED BY <1>6, <3>3, <4>1, <4>2, SameRules
    <3> HIDE DEF p, q, day, r
    <3> QED BY <3>2, <3>5, Reported
  <2> QED BY <2>1, <2>2
<1> HIDE DEF r
<1> DEFINE view == EvidenceView(claim, evidence)
<1>12. /\ ShouldRate(p.routing, ClaimView(claim), result, view).required
            = ShouldRate(q.routing, ClaimView(claim), r, view).required
       /\ Decide(p.routing, view, result, rated.verdict)
            = Decide(q.routing, view, r, rated.verdict)
  <2> HIDE DEF p, q, view
  <2> QED BY <1>7, <1>11, SameRouting
<1>13. DecidedOn(rated, p, claim, evidence, result) = DecidedOn(rated, q, claim, evidence, r)
  <2>1. \A by : Reasons(by, evidence.found, result, rated) = Reasons(by, evidence.found, r, rated)
    BY <1>11 DEF Reasons
  <2> QED BY <1>12, <2>1 DEF DecidedOn
<1>14. answer = DecidedOn(rated, q, claim, evidence, r)
  BY <1>13 DEF ReadingInv, PipelineInv, AnswerSound
<1>15. (rated # Unrated) = RequiredOn(q, claim, evidence, r)
  <2> DEFINE consulted == rated # Unrated
             required == RequiredOn(q, claim, evidence, r)
  <2>1. consulted <=> required BY <1>12 DEF ReadingInv, RatingAsked, RequiredOn
  <2>2. required \in BOOLEAN BY DEF RequiredOn, ShouldRate, NotRequired
  <2>3. consulted \in BOOLEAN OBVIOUS
  <2> HIDE DEF consulted, required
  <2>4. consulted = required BY <2>1, <2>2, <2>3
  <2> QED BY <2>4 DEF consulted, required
<1>16. ByChild(q) = [claim |-> claim, evidence |-> evidence,
                     asked |-> RequiredOn(q, claim, evidence, r),
                     answer |-> DecidedOn(rated, q, claim, evidence, r)]
  <2> HIDE DEF q
  <2> QED BY <1>8, <1>9, ChildOn DEF r
<1> QED BY <1>14, <1>15, <1>16 DEF ByParent, Consulted

(* A prediction a candidate takes over from its parent is the one it would  *)
(* have made, in every experiment whose policy names the claim types the    *)
(* changed rules look at: phase7.py _reevaluation_ids.                      *)
THEOREM TakenOverIsRight == Spec => []ReuseIsSound
<1>1. ReadingInv => ReuseIsSound BY TakenOver DEF ReuseIsSound
<1> QED BY <1>1, ReadingInvariant, PTL

===============================================================================
