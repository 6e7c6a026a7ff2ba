------------------------------- MODULE OsuFile -------------------------------
(***************************************************************************)
(* What the .osu file and the difficulty calculation put onto the record   *)
(* of a map: populate_beatmap_file_metadata and                            *)
(* populate_beatmap_statistics_with_diff (src/src/beatmap.rs).             *)
(*                                                                         *)
(* A file is a sequence of lines, each a record with its section and what  *)
(* its fields parse to; Bad is a field that does not parse.  BPMs are in   *)
(* hundredths, as they are rounded to; the calculator's own answers are    *)
(* the ruleset's, so they are left out.                                    *)
(***************************************************************************)
EXTENDS Integers, Sequences, FiniteSets

CONSTANTS
  Bad,      (* a field that does not parse                                 *)
  None      (* no name, no object                                          *)

(* What a file may be: the events are as they come.                        *)
IsFile(file) ==
  /\ Len(file) \in Nat /\ DOMAIN file = 1..Len(file)
  /\ \A i \in DOMAIN file :
       /\ file[i].section \in {"HitObjects", "TimingPoints"} => file[i].time \in {Bad} \cup Int
       /\ file[i].section = "TimingPoints" => file[i].bpm \in {Bad} \cup Int

Larger(x, y) == IF x >= y THEN x ELSE y
Least(S) == CHOOSE x \in S : \A y \in S : x <= y
Most(S) == CHOOSE x \in S : \A y \in S : x >= y

-----------------------------------------------------------------------------
(* populate_beatmap_file_metadata                                          *)

(* [HitObjects]: a line counts when its time and its type parse.           *)
ObjectsOf(file) ==
  {i \in DOMAIN file :
     file[i].section = "HitObjects" /\ file[i].time # Bad /\ file[i].kind # Bad}
TimesOf(file) == {file[i].time : i \in ObjectsOf(file)}

(* The bits of the type, the hold first.                                   *)
KindOf(o) ==
  IF "hold" \in o.kind THEN "hold"
  ELSE IF "spinner" \in o.kind THEN "spinner"
  ELSE IF "slider" \in o.kind THEN "slider"
  ELSE IF "circle" \in o.kind THEN "circle"
  ELSE "other"

Kinds == {"circle", "slider", "spinner", "hold"}

CountsOf(file) ==
  [k \in Kinds |-> Cardinality({i \in ObjectsOf(file) : KindOf(file[i]) = k})]

(* [Events]: a break in either spelling; the legacy one has an effect.     *)
BreaksOf(file) ==
  LET breaks == SelectSeq(file, LAMBDA e : /\ e.section = "Events" /\ e.type \in {"break", "2"}
                                          /\ e.start # Bad /\ e.end # Bad)
  IN [i \in DOMAIN breaks |->
        [start |-> breaks[i].start, end |-> breaks[i].end,
         effect |-> breaks[i].type = "2" \/ breaks[i].flag]]

BackgroundOf(file) ==
  LET named == SelectSeq(file, LAMBDA e : /\ e.section = "Events" /\ e.type \in {"background", "0"}
                                         /\ e.name # None)
  IN IF named = <<>> THEN None ELSE named[1].name

(* [TimingPoints]: a line that inherits has the BPM of the one before it.  *)
Timed(points, line) ==
  IF line.section # "TimingPoints" \/ line.time = Bad \/ line.bpm = Bad THEN points
  ELSE Append(points,
         [time |-> line.time,
          bpm |-> IF line.bpm >= 0 THEN line.bpm
                  ELSE IF points = <<>> THEN 12000 ELSE points[Len(points)].bpm])

TimedUpTo(file) ==
  LET points[i \in 0..Len(file)] == IF i = 0 THEN <<>> ELSE Timed(points[i - 1], file[i])
  IN points
TimingOf(file) == TimedUpTo(file)[Len(file)]

(* How long a point lasts: the last one to the end, if that is later.      *)
Weight(timing, i, end) ==
  LET next == IF i < Len(timing) THEN timing[i + 1].time ELSE Larger(end, timing[i].time + 1)
  IN Larger(next - timing[i].time, 0)

(* The loop over the points, and what it has added up after each.          *)
SumsUpTo(timing, end) ==
  LET sums[i \in 0..Len(timing)] ==
        IF i = 0 THEN [total |-> 0, weighted |-> 0]
        ELSE IF timing[i].bpm <= 0 THEN sums[i - 1]
        ELSE [total |-> sums[i - 1].total + Weight(timing, i, end),
              weighted |-> sums[i - 1].weighted + timing[i].bpm * Weight(timing, i, end)]
  IN sums

(* The BPM that a map has most of the time: the mean over time.            *)
CommonOf(timing, end) ==
  LET sums == SumsUpTo(timing, end)[Len(timing)] IN sums.weighted \div Larger(sums.total, 1)

RealtimeOf(timing, live, common) ==
  LET passed == {i \in DOMAIN timing : timing[i].time <= live /\ timing[i].bpm > 0}
  IN IF passed = {} THEN common ELSE timing[Most(passed)].bpm

NoBpm == [common |-> 0, realtime |-> 0, min |-> 0, max |-> 0]

(* The record as the memory read leaves it: no statistics.                 *)
Fresh(live, background) ==
  [live |-> live, first |-> 0, last |-> 0, counts |-> [k \in Kinds |-> 0],
   breaks |-> <<>>, background |-> background, bpm |-> NoBpm, base |-> NoBpm]

BpmAfter(snapshot, file) ==
  LET timing == TimingOf(file)
      end == Most(TimesOf(file) \cup {0})
      bpms == {timing[i].bpm : i \in DOMAIN timing} \ {0}
      Set(old, new) == IF old = 0 THEN new ELSE old
      common == Set(snapshot.bpm.common, CommonOf(timing, end))
      realtime == RealtimeOf(timing, snapshot.live, common)
      bpm == [snapshot.bpm EXCEPT
        !.min = IF bpms = {} THEN @ ELSE Set(@, Least(bpms)),
        !.max = IF bpms = {} THEN @ ELSE Set(@, Most(bpms)),
        !.common = common,
        !.realtime = Set(@, realtime)]
  IN IF timing = <<>> THEN [bpm |-> snapshot.bpm, base |-> snapshot.base]
     ELSE [bpm |-> bpm,
           base |-> [b \in DOMAIN bpm |->
             IF b # "common" /\ snapshot.bpm[b] = 0 THEN bpm[b] ELSE snapshot.base[b]]]

(* The whole pass.                                                         *)
FilePass(snapshot, file) ==
  LET counted == IF ObjectsOf(file) = {} THEN snapshot
                 ELSE [snapshot EXCEPT !.first = Least(TimesOf(file)),
                                       !.last = Most(TimesOf(file) \cup {0}),
                                       !.counts = CountsOf(file)]
      bpm == BpmAfter(snapshot, file)
  IN [counted EXCEPT
        !.breaks = BreaksOf(file),
        !.background = IF @ = None THEN BackgroundOf(file) ELSE @,
        !.bpm = bpm.bpm, !.base = bpm.base]

-----------------------------------------------------------------------------
(* populate_beatmap_statistics_with_diff                                   *)

(* The clock rate, in quarters.                                            *)
Rate(mods) ==
  IF mods \cap {"DT", "NC"} # {} THEN 6 ELSE IF "HT" \in mods THEN 3 ELSE 4

(* round_value of a value in quarters of hundredths.                       *)
Rounded(quarters) == (quarters + 2) \div 4

(* Mutant: what is scaled is what the last pass wrote.                     *)
ScaledAgain(snapshot, b, map, mods) ==
  Rounded((IF snapshot.bpm[b] = 0 THEN map.bpm ELSE snapshot.bpm[b]) * Rate(mods))

(* scaled_bpm                                                              *)
Scaled(snapshot, b, map, mods) ==
  Rounded((IF snapshot.base[b] = 0 THEN map.bpm ELSE snapshot.base[b]) * Rate(mods))

(* map is what the calculator's own parser made of the same file.          *)
StatsPass(snapshot, map, mods) ==
  [snapshot EXCEPT
     !.counts = map.counts,
     !.last = IF map.last = None THEN @ ELSE map.last,
     !.bpm = [b \in DOMAIN @ |->
       IF b = "common" THEN Rounded(map.bpm * Rate(mods)) ELSE Scaled(snapshot, b, map, mods)]]

-----------------------------------------------------------------------------
(* Properties of a file and of the record.                                 *)

(* The BPM of a map lies between its lowest and its highest, and so does   *)
(* the one at the time that is played, as long as its last point has one   *)
(* (a beat of infinite length is a BPM of zero).                           *)
BpmIsBetween(snapshot, file) ==
  LET timing == TimingOf(file) IN
  timing # <<>> /\ timing[Len(timing)].bpm > 0 =>
    /\ snapshot.bpm.common \in snapshot.bpm.min..snapshot.bpm.max
    /\ snapshot.bpm.realtime \in snapshot.bpm.min..snapshot.bpm.max

(* A record that has seen other mods, other files or none: its statistics  *)
(* are those a fresh one would have with the last mods.                    *)
IsOfTheMods(snapshot, fresh) ==
  snapshot.bpm = fresh.bpm /\ snapshot.counts = fresh.counts /\ snapshot.last = fresh.last

(* The times a map starts and ends at are those of objects it counts.      *)
RangeIsOfCounted(snapshot, file) ==
  ObjectsOf(file) # {} =>
    \E i \in ObjectsOf(file) : KindOf(file[i]) # "other" /\ snapshot.first = file[i].time
=============================================================================
