--------------------------- MODULE MCCronSchedule ---------------------------
(* A small instance of CronSchedule for TLC: the calendar of 2027 and 2028, with
   days of two hours of two minutes.                                           *)
EXTENDS CronSchedule

Stars == [every |-> 0, minute |-> 0..1, hour |-> 0..1, dom |-> 1..31, month |-> 1..12,
          dow |-> 0..6, domStar |-> TRUE, dowStar |-> TRUE]
AtOneIn(months) == [Stars EXCEPT !.minute = {0}, !.hour = {1}, !.month = months]
On(days, months) == [AtOneIn(months) EXCEPT !.dom = days, !.domStar = FALSE]
MCSchedules ==
    { [Stars EXCEPT !.minute = {1}], AtOneIn({2}),
      On({1}, {2, 4, 6}), On({31}, 1..12), On({29}, {2}), On({31}, {2}),
      On(FromBits(20, [max |-> 31], 10), RangeBits(1, 12, 5)),
      [AtOneIn(1..12) EXCEPT !.dow = {1}, !.dowStar = FALSE],
      [On({13}, 3..12) EXCEPT !.dow = {5}, !.dowStar = FALSE] }
        \cup {[Stars EXCEPT !.every = every] : every \in {1, 3, 7}}
MCStarts == {At(2027, m, d, minute) : m \in {1, 2, 12}, d \in {1, 28, 30}, minute \in {1, 3}}
=============================================================================
