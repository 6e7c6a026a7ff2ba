----------------------------- MODULE PlayNumbers -----------------------------
(***************************************************************************)
(* The numbers of a play that this process works out itself: the accuracy  *)
(* of a result, the grade, and the grade the play would end on             *)
(* (calculate_accuracy, calculate_tosu_grade and its projection,           *)
(* src/src/client.rs); the acronyms its mods are reported by               *)
(* (compute_format_mods), and the factor the operator's table gives its    *)
(* score (ModMultipliers, src/src/scoring.rs).                             *)
(*                                                                         *)
(* A play is a record of the game's 16-bit counters, its mode (0 osu!, 1   *)
(* taiko, 2 catch, 3 mania), whether ScoreV2 and whether a mod that hides  *)
(* or darkens is on.  An accuracy is a pair, numerator and denominator.    *)
(* A set of mods is the set of the names of its bits.  The names that      *)
(* nothing is done to in particular are left out, "HD" and "4K" stand for  *)
(* them.                                                                   *)
(***************************************************************************)
EXTENDS Integers, SequencesExt

CONSTANT MaxCount  (* i16::MAX                                             *)

(* The sum of counters, in the width of one.                               *)
InWidth(n) == ((n + MaxCount + 1) % (2 * (MaxCount + 1))) - (MaxCount + 1)

(* The judgements the accuracy of a mode is over.                          *)
Counted(p) ==
  CASE p.mode = 0 -> p.n300 + p.n100 + p.n50 + p.miss
    [] p.mode = 1 -> p.n300 + p.n100 + p.miss
    [] p.mode = 2 -> p.n300 + p.n100 + p.n50 + p.miss + p.katu
    [] p.mode = 3 -> p.geki + p.n300 + p.katu + p.n100 + p.n50 + p.miss

Accuracy(p) ==
  LET total == InWidth(Counted(p))
      max == IF p.scoreV2 THEN 305 ELSE 300
  IN CASE total = 0 -> <<1, 1>>
       [] total # 0 /\ p.mode = 0 -> <<300 * p.n300 + 100 * p.n100 + 50 * p.n50, 300 * total>>
       [] total # 0 /\ p.mode = 1 -> <<2 * p.n300 + p.n100, 2 * total>>
       [] total # 0 /\ p.mode = 2 -> <<InWidth(p.n300 + p.n100 + p.n50), total>>
       [] total # 0 /\ p.mode = 3 ->
            <<max * p.geki + 300 * p.n300 + 200 * p.katu + 100 * p.n100 + 50 * p.n50, max * total>>

(* The accuracy is more than, or at least, a percentage of 100 / of.       *)
Above(acc, n, of) == of * acc[1] > n * acc[2]
AtLeast(acc, n, of) == of * acc[1] >= n * acc[2]

(* The grades from the lowest: the letter without the silver.              *)
Grades == <<"D", "C", "B", "A", "S", "X">>

Best(conditions) ==
  LET met == {g \in DOMAIN conditions : conditions[g]} IN
  Grades[CHOOSE g \in met : \A h \in met : h <= g]

Judged(p) == p.n300 + p.n100 + p.n50 + p.miss

(* calculate_tosu_grade: osu! and taiko go by the shares of the            *)
(* judgements, catch and mania by the accuracy they are given.             *)
Grade(p, acc) ==
  LET total == Judged(p)
      More(n) == 10 * p.n300 > n * total
      clean == p.miss = 0
  IN CASE p.mode \in {0, 1} ->
            Best(<<TRUE, More(6), (More(7) /\ clean) \/ More(8), (More(8) /\ clean) \/ More(9),
                   More(9) /\ 100 * p.n50 < total /\ clean, total = 0 \/ p.n300 = total>>)
       [] p.mode = 2 ->
            Best(<<TRUE, Above(acc, 17, 20), Above(acc, 9, 10), Above(acc, 47, 50),
                   Above(acc, 49, 50), AtLeast(acc, 1, 1)>>)
       [] p.mode = 3 ->
            Best(<<TRUE, AtLeast(acc, 7, 10), AtLeast(acc, 4, 5), AtLeast(acc, 9, 10),
                   AtLeast(acc, 19, 20), AtLeast(acc, 1, 1)>>)

(* Mutant: all objects of the map are taken to be left.                    *)
ProjectedOfAll(p, acc, objects) ==
  Grade([p EXCEPT !.n300 = IF @ + objects > MaxCount THEN MaxCount ELSE @ + objects], acc)

(* calculate_tosu_grade_projected                                          *)
Projected(p, acc, objects) ==
  LET remaining == objects - Judged(p) IN
  IF remaining <= 0 THEN Grade(p, acc)
  ELSE Grade([p EXCEPT !.n300 = IF @ + remaining > MaxCount THEN MaxCount ELSE @ + remaining], acc)

-----------------------------------------------------------------------------
(* VALUES: the names in the order of the bits, and the order each sorts to *)
Values ==
  << <<"HD", 2>>, <<"SD", 5>>, <<"DT", 3>>, <<"NC", 3>>, <<"AT", 99>>,
     <<"SO", 5>>, <<"PF", 5>>, <<"4K", 99>>, <<"CN", 99>> >>

Names == {Values[i][1] : i \in DOMAIN Values}

(* "DTNC" -> "NC", "SDPF" -> "PF", "ATCN" -> "CN"                          *)
Collapses == << <<"DT", "NC">>, <<"SD", "PF">>, <<"AT", "CN">> >>

Replaced(names, pair) ==
  LET kept == {i \in DOMAIN names :
        ~(i < Len(names) /\ names[i] = pair[1] /\ names[i + 1] = pair[2])}
  IN [j \in 1..Cardinality(kept) |->
        names[CHOOSE i \in kept : Cardinality({h \in kept : h <= i}) = j]]

(* compute_format_mods                                                     *)
Reported(mods) ==
  LET at(order) == SelectSeq(Values, LAMBDA v : v[2] = order /\ v[1] \in mods)
      sorted == at(2) \o at(3) \o at(5) \o at(99)
      names == [i \in DOMAIN sorted |-> sorted[i][1]]
  IN FoldLeft(Replaced, names, Collapses)

-----------------------------------------------------------------------------
(* MOD_SLOTS: the bits of each slot, by its key, and the row of no mods.   *)
Slots == [hd |-> {"HD"}, sd |-> {"SD", "PF"}, dt |-> {"DT", "NC"}, at |-> {"AT", "CN"},
          so |-> {"SO"}, k4 |-> {"4K"}, nm |-> {}]

Row(key) == CHOOSE s \in DOMAIN Slots : key \in Slots[s] \/ (key = "NM" /\ s = "nm")

NoTable == [valid |-> TRUE, factors |-> [s \in DOMAIN Slots |-> 1], set |-> {}]

With(table, row, factor) ==
  [table EXCEPT !.factors[row] = factor, !.set = @ \cup {row}]

(* One key of mod_multipliers: the factor of its row, which no other key   *)
(* may have set to another one.  (Keys nobody knows and factors out of     *)
(* range are refused one by one.)                                          *)
Entry(table, entry) ==
  LET row == Row(entry[1]) IN
  IF row \in table.set /\ table.factors[row] # entry[2]
  THEN [NoTable EXCEPT !.valid = FALSE]
  ELSE With(table, row, entry[2])

(* ModMultipliers::new, with the keys in the order the map gives them.     *)
Table(entries) ==
  FoldLeft(LAMBDA table, entry : IF table.valid THEN Entry(table, entry) ELSE table,
           NoTable, entries)

(* Mutant: a factor for every bit.                                         *)
FactorOfBits(factors, mods) ==
  IF mods = {} THEN factors.nm
  ELSE FoldSet(LAMBDA m, product : product * factors[Row(m)], 1, mods)

(* factor_for                                                              *)
FactorFor(factors, mods) ==
  IF mods = {} THEN factors.nm
  ELSE FoldSet(LAMBDA s, product : product * factors[s], 1,
               {s \in DOMAIN Slots : Slots[s] \cap mods # {}})

-----------------------------------------------------------------------------
(* Properties of a play.                                                   *)

(* What is judged fits a counter.                                          *)
Fits(p) == Counted(p) <= MaxCount

Rank(grade) == CHOOSE g \in DOMAIN Grades : Grades[g] = grade

GradeOf(p) == Grade(p, Accuracy(p))

(* The plays that differ in one judgement, for the better.                 *)
BetterBy(mode) ==
  CASE mode = 0 -> {<<"miss", "n50">>, <<"n50", "n100">>, <<"n100", "n300">>}
    [] mode = 1 -> {<<"miss", "n100">>, <<"n100", "n300">>}
    [] mode = 2 -> {<<"miss", "n300">>, <<"katu", "n50">>}
    [] mode = 3 -> {<<"miss", "n50">>, <<"n50", "n100">>, <<"n100", "katu">>,
                    <<"katu", "n300">>, <<"n300", "geki">>}

(* A judgement that is better never lowers the grade.                      *)
BetterIsNoWorse(p) ==
  Fits(p) => \A b \in BetterBy(p.mode) :
    p[b[1]] > 0 =>
      Rank(GradeOf([p EXCEPT ![b[1]] = @ - 1, ![b[2]] = @ + 1])) >= Rank(GradeOf(p))

(* The play when the rest of its objects got the best judgement there is.  *)
Ended(p, objects) ==
  LET rest == IF objects > Judged(p) THEN objects - Judged(p) ELSE 0
  IN IF p.mode = 3 THEN [p EXCEPT !.geki = @ + rest] ELSE [p EXCEPT !.n300 = @ + rest]

(* The projection is no worse than the grade now, no better than the play  *)
(* can end on, and in osu! and taiko exactly that.                         *)
ProjectionIsBetween(p, objects) ==
  Fits(Ended(p, objects)) =>
    LET projected == Projected(p, Accuracy(p), objects)
        end == GradeOf(Ended(p, objects))
    IN /\ Rank(GradeOf(p)) <= Rank(projected)
       /\ Rank(projected) <= Rank(end)
       /\ p.mode \in {0, 1} => projected = end

(* "accuracy as a percentage": between nothing and all.                    *)
IsPercentage(acc) == acc[2] > 0 /\ 0 <= acc[1] /\ acc[1] <= acc[2]

(* "HashMap iteration order is not stable ... the outcome does not depend  *)
(* on the order" (src/src/scoring.rs).                                     *)
OrderIsNoMatter(entries) ==
  \A other \in SetToSeqs(ToSet(entries)) : Table(other) = Table(entries)

(* Sets of mods the game makes: the second of two bits brings the first.   *)
IsOfTheGame(mods) == \A i \in DOMAIN Collapses : Collapses[i][2] \in mods => Collapses[i][1] \in mods

(* "Each is collapsed to a single acronym before reporting"                *)
(* (src/src/scoring.rs).                                                   *)
IsCollapsed(mods) ==
  \A s \in DOMAIN Slots : Cardinality(Slots[s] \cap ToSet(Reported(mods))) <= 1

(* The score is weighed once for each acronym that is reported.            *)
WeighsTheReported(factors, mods) ==
  IsCollapsed(mods) /\ mods # {} =>
    FactorFor(factors, mods) =
      FoldSet(LAMBDA m, product : product * factors[Row(m)], 1, ToSet(Reported(mods)))
=============================================================================
