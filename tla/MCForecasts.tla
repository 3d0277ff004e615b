---------------------------- MODULE MCForecasts ----------------------------
(* A small instance of Forecasts for TLC. *)
EXTENDS Forecasts

\* Bookings on one day of each of n weeks, less those left out.
Weekly(first, n, gaps) == {first + 7 * k : k \in (0..(n - 1)) \ gaps}

\* An upload that ends before the holiday of 24 December 2024 (a Tuesday); one from New
\* Year 2025 on, with gaps; one that goes on after the system date, which leaves 15
\* or 16 weeks; one from 1 January 2019 (a Tuesday) on; one that is too short.
MCFiles ==
  {Weekly(DayOf(2024, 8, 7), 20, {}),
   Weekly(DayOf(2025, 1, 1), 25, {5, 6, 20}),
   Weekly(DayOf(2025, 9, 16), 20, {}),
   Weekly(DayOf(2019, 1, 1), 21, {}),
   Weekly(DayOf(2025, 12, 1), 3, {})}

MCSystemDate == DayOf(2025, 12, 29)
=============================================================================
