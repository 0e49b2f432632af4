----------------------------- MODULE DataRequest ------------------------------
(***************************************************************************)
(* What both plot pages decide about a request before they send it: how    *)
(* many datapoints it is for, and whether that is allowed.                 *)
(* public_html/plot/js/hovmoller_load_data.js 75-109, the same statements  *)
(* in public_html/development/js/timeseries_load_data.js 101-127.          *)
(*                                                                         *)
(* Times count minutes.  A request is a record with the fields start, end  *)
(* and resolution, the values of three controls.                           *)
(***************************************************************************)
EXTENDS Integers, FiniteSets

CONSTANTS
  CRUISE_START_TIME,
  MAX_NUMBER_DATAPOINTS,
  Empty                  \* '', an empty control, name or label

ASSUME LimitsAssumption == CRUISE_START_TIME \in Nat /\ MAX_NUMBER_DATAPOINTS \in Nat

\* parseInt cuts the fraction off.
Truncated(a, b) == IF a >= 0 THEN a \div b ELSE -((-a) \div b)

\* An empty control gives an invalid date, which compares as false.
StartTime(pass) ==
  IF pass.start # Empty /\ pass.start > CRUISE_START_TIME
  THEN pass.start ELSE CRUISE_START_TIME

EndTime(pass, now) ==
  IF pass.end # Empty /\ pass.end < now THEN pass.end ELSE now

RowsRequested(pass, now) ==
  Truncated(EndTime(pass, now) - StartTime(pass), pass.resolution)

validateNumberDatapoints(n) == 0 < n /\ n <= MAX_NUMBER_DATAPOINTS

\* The rows a query finds for a ship that is asked for, of those up to the
\* moment of the click: BETWEEN includes both ends (load_hovmoller_data.php 57-71).
Rows(pass, now) ==
  {t \in 0..now : pass.start <= t /\ t <= pass.end /\ t % pass.resolution = 0}

==============================================================================
