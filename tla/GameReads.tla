------------------------------ MODULE GameReads ------------------------------
(***************************************************************************)
(* What src/src/client.rs reads from the memory of the game: the hit       *)
(* errors, the keys, the leaderboard, the results, the profile and the     *)
(* date of a result.  An object of the game is a record of its fields; a   *)
(* field is Null where the pointer in it is, and Torn where it cannot be   *)
(* read.  (Which offset a field has is left out; a process that goes on    *)
(* while it is read is SoloPlay's.)                                        *)
(***************************************************************************)
EXTENDS Integers, Sequences, FiniteSets

CONSTANTS
  Null, Torn,
  MaxErrors,     (* MAX_HIT_ERRORS: 20,000                                 *)
  ErrorBound,    (* HIT_ERROR_BOUND: 10,000 ms                             *)
  MaxRows        (* the clamp of the leaderboard: 512                      *)

Read(value) == value \notin {Null, Torn}

(* What there is to be read: the objects of the game, and their sizes.     *)
IsLook(look) ==
  /\ look.fn = "errors" /\ Read(look.list) =>
       /\ Read(look.list.items) => look.list.items \in Seq(Int)
       /\ look.list.size # Torn => look.list.size \in Int
  /\ look.fn = "rows" /\ Read(look.players) =>
       /\ Read(look.players.slots) =>
            /\ Len(look.players.slots) \in Nat
            /\ DOMAIN look.players.slots = 1..Len(look.players.slots)
       /\ Read(look.players.size) => look.players.size \in Int
  /\ look.fn = "keys" /\ Read(look.array) /\ Read(look.array.size) => look.array.size \in Int
  /\ look.fn = "date" => look.day \in Int

Or(value, other) == IF Read(value) THEN value ELSE other

(* The elements of s before the first that is not good.                    *)
UpTo(s, Good(_)) ==
  LET bad == {i \in DOMAIN s : ~Good(s[i])}
  IN IF bad = {} THEN s ELSE SubSeq(s, 1, (CHOOSE i \in bad : \A j \in bad : i <= j) - 1)

-----------------------------------------------------------------------------
(* Mutant: the window is of the oldest.                                    *)
OldestWindow(size) == <<0, IF size > MaxErrors THEN MaxErrors ELSE size>>

(* hit_error_window: where to begin, and how many.                         *)
HitErrorWindow(size) ==
  LET start == IF size > MaxErrors THEN size - MaxErrors ELSE 0 IN <<start, size - start>>

InBound(error) == error \in -ErrorBound..ErrorBound
ParseHitErrors(cells) == UpTo(cells, InBound)

(* read_hit_errors: a list that is not there is an empty one, a list that  *)
(* cannot be read is an error of the whole read.                           *)
ReadHitErrors(list) ==
  IF list = Torn THEN Torn
  ELSE IF list = Null THEN <<>>
  ELSE IF list.items = Torn THEN Torn
  ELSE IF list.items = Null THEN <<>>
  ELSE IF list.size = Torn THEN Torn
  ELSE IF list.size <= 0 THEN <<>>
  ELSE LET window == HitErrorWindow(list.size) IN
       IF window[1] + window[2] > Len(list.items) THEN Torn
       ELSE ParseHitErrors(SubSeq(list.items, window[1] + 1, window[1] + window[2]))

(* calculate_unstable_rate: the spread of n errors, n^2 times squared; the *)
(* rate divides it (root, factor 10 and the rates themselves left out).    *)
SumsUpTo(errors) ==
  LET sums[i \in 0..Len(errors)] ==
        IF i = 0 THEN [total |-> 0, squares |-> 0]
        ELSE [total |-> sums[i - 1].total + errors[i],
              squares |-> sums[i - 1].squares + errors[i] * errors[i]]
  IN sums

UnstableRate(errors, mods) ==
  LET n == Len(errors)
      sums == SumsUpTo(errors)[n]
  IN [spread |-> n * sums.squares - sums.total * sums.total,
      rate |-> IF n = 0 THEN "none" ELSE IF mods \cap {"DT", "NC"} # {} THEN "DT"
               ELSE IF "HT" \in mods THEN "HT" ELSE "none"]

-----------------------------------------------------------------------------
NoButton == [isPressed |-> FALSE, count |-> 0]
NoButtons == [i \in 1..4 |-> NoButton]

(* read_key_overlay: no failure is an error, and a button that cannot be   *)
(* read is up.  Only osu! has the fourth.                                  *)
ReadButton(element) ==
  IF ~Read(element) THEN NoButton
  ELSE [isPressed |-> Or(element.pressed, 0) # 0, count |-> Or(element.count, 0)]

ReadKeyOverlay(array, mode) ==
  IF ~Read(array) \/ (Read(array) /\ (~Read(array.size) \/ array.size < 4)) THEN NoButtons
  ELSE [i \in 1..4 |-> IF i = 4 /\ mode # 0 THEN NoButton ELSE ReadButton(array.elements[i])]

-----------------------------------------------------------------------------
(* read_leaderboard_player: none without its score; every other field that *)
(* cannot be read is zero.                                                 *)
RowOf(slot) ==
  [name |-> Or(slot.name, ""), score |-> Or(slot.score, 0), isFailed |-> Or(slot.passing, 0) = 0]
IsRow(slot) == Read(slot) /\ slot.entry # Torn /\ slot.entry # Null

(* read_leaderboard: as far as the rows can be read.  What is behind the   *)
(* end of the array is whatever is there.                                  *)
ReadLeaderboard(players) ==
  IF ~Read(players) THEN <<>>
  ELSE IF ~Read(players.size) THEN <<>>
  ELSE IF players.size < 1 \/ ~Read(players.slots) THEN <<>>
  ELSE LET size == IF players.size > MaxRows THEN MaxRows ELSE players.size
           slots == [i \in 1..size |-> IF i \in DOMAIN players.slots THEN players.slots[i] ELSE Torn]
           read == UpTo(slots, IsRow)
       IN [i \in DOMAIN read |-> RowOf(read[i])]

-----------------------------------------------------------------------------
(* read_result_screen_state: an error without its base, zeroes for the     *)
(* rest; the mods are two words of one object.                             *)
Xor(mods) == (mods[1] \ mods[2]) \cup (mods[2] \ mods[1])
ReadResults(base) ==
  IF ~Read(base) THEN Torn
  ELSE LET mode == Or(base.mode, 0) IN
       [mode |-> mode, score |-> Or(base.score, 0),
        mods |-> IF Read(base.mods) THEN Xor([w \in {1, 2} |-> Or(base.mods[w], {})]) ELSE {},
        geki |-> IF mode \in {1, 3} THEN Or(base.geki, 0) ELSE 0,
        katu |-> IF mode \in {1, 2, 3} THEN Or(base.katu, 0) ELSE 0]

(* read_local_profile: all of it, or an error; a game without the login    *)
(* pattern is a guest.                                                     *)
ReadProfile(base, loginPattern) ==
  IF ~Read(base) \/ (loginPattern /\ base.login = Torn) THEN Torn
  ELSE IF \E f \in DOMAIN base \ {"login"} : base[f] = Torn THEN Torn
  ELSE [base EXCEPT !.login = IF loginPattern THEN @ ELSE 256]

-----------------------------------------------------------------------------
(* civil_from_days: <<year, month, day>> of a day since 1970, negative     *)
(* days too, which its caller has none of; a year is counted from its      *)
(* March, and an era is 400 of them.                                       *)
YearOfEra(dayOfEra) ==
  (dayOfEra - dayOfEra \div 1460 + dayOfEra \div 36524 - dayOfEra \div 146096) \div 365

DateFromMarch(year, dayOfYear) ==
  LET monthPrime == (5 * dayOfYear + 2) \div 153
      month == IF monthPrime < 10 THEN monthPrime + 3 ELSE monthPrime - 9
  IN <<IF month <= 2 THEN year + 1 ELSE year, month,
       dayOfYear - (153 * monthPrime + 2) \div 5 + 1>>

CivilFromDays(days) ==
  LET z == days + 719468
      era == z \div 146097
      dayOfEra == z - era * 146097
      yearOfEra == YearOfEra(dayOfEra)
  IN DateFromMarch(yearOfEra + era * 400,
                   dayOfEra - (365 * yearOfEra + yearOfEra \div 4 - yearOfEra \div 100))

-----------------------------------------------------------------------------
(* The hit errors are the newest ones, from the window's first to the last *)
(* before one that is out of bounds; shifted by a constant they spread the *)
(* same.                                                                   *)
ErrorsAreTheNewest(list) ==
  LET errors == ReadHitErrors(list) IN
  errors # Torn /\ Read(list) /\ Read(list.items) /\ list.size > 0 =>
    LET newest == IF list.size > MaxErrors THEN list.size - MaxErrors ELSE 0
        n == Len(errors)
    IN /\ \A i \in 1..n : errors[i] = list.items[newest + i] /\ InBound(errors[i])
       /\ newest + n = list.size \/ ~InBound(list.items[newest + n + 1])
       /\ UnstableRate([i \in 1..n |-> errors[i] + 5], {}) = UnstableRate(errors, {})

(* Each row stands where the list has it, up to the first that is none.    *)
RowsAreThePrefix(players) ==
  LET rows == ReadLeaderboard(players) IN
  Read(players) /\ Read(players.size) /\ Read(players.slots) =>
    /\ \A i \in DOMAIN rows : IsRow(players.slots[i]) /\ rows[i] = RowOf(players.slots[i])
    /\ Len(rows) = players.size \/ Len(rows) = MaxRows \/ players.size < 1
       \/ Len(rows) = Len(players.slots) \/ ~IsRow(players.slots[Len(rows) + 1])

(* No button is down that the game does not hold.                          *)
KeysAreHeld(array, mode) ==
  \A i \in 1..4 : ReadKeyOverlay(array, mode)[i] # NoButton =>
    /\ Read(array.elements[i]) /\ array.size >= 4 /\ (i < 4 \/ mode = 0)
    /\ ReadKeyOverlay(array, mode)[i].isPressed =>
         array.elements[i].pressed \notin {0, Null, Torn}

(* A profile is all of one read, or none.                                  *)
ProfileIsWhole(base, loginPattern) ==
  LET profile == ReadProfile(base, loginPattern) IN
  profile # Torn => \A f \in DOMAIN profile : profile[f] # Torn /\ (profile[f] = base[f] \/ f = "login")

(* A result counts no judgement its mode has not, and no mod that neither  *)
(* word of it has.                                                         *)
ResultsAreOfTheMode(base) ==
  LET results == ReadResults(base) IN
  results # Torn =>
    /\ results.geki # 0 => results.mode \in {1, 3} /\ results.geki = base.geki
    /\ results.katu # 0 => results.mode # 0 /\ results.katu = base.katu
    /\ Read(base.mods) /\ (\A w \in {1, 2} : Read(base.mods[w])) =>
         \A m \in results.mods : Cardinality({w \in {1, 2} : m \in base.mods[w]}) = 1

(* The date of the next day follows the date of this one.                  *)
IsLeap(year) == year % 4 = 0 /\ (year % 100 # 0 \/ year % 400 = 0)
DaysIn(year, month) ==
  CASE month = 2 -> IF IsLeap(year) THEN 29 ELSE 28
    [] month \in {4, 6, 9, 11} -> 30
    [] OTHER -> 31
Following(date) ==
  IF date[3] < DaysIn(date[1], date[2]) THEN <<date[1], date[2], date[3] + 1>>
  ELSE IF date[2] < 12 THEN <<date[1], date[2] + 1, 1>> ELSE <<date[1] + 1, 1, 1>>
DatesFollow(day) ==
  CivilFromDays(0) = <<1970, 1, 1>> /\ CivilFromDays(day + 1) = Following(CivilFromDays(day))
=============================================================================
