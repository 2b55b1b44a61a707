--------------------------- MODULE ExpiryCalendar ---------------------------
(***************************************************************************)
(* Which contract of an index is in play on a day, and whether the index   *)
(* is traded on it: the trading days, the expiry rules of three indices    *)
(* with the days on which the exchanges changed them, the move of an       *)
(* expiry off a holiday, the lot sizes, and the two users of all this: the *)
(* walk of the backtest over the days, and the live trader, which also     *)
(* asks the broker.                                                        *)
(*                                                                         *)
(* A day is its number since 1 January 2020, a Wednesday; a month is its   *)
(* number since January 2020.  Weekdays are 0 (Monday) to 6.  Until 2099   *)
(* every fourth year is a leap year.                                       *)
(***************************************************************************)
EXTENDS Integers, Sequences, FiniteSetsExt

CONSTANTS
    Holidays,     \* NSE_HOLIDAYS
    SpecialDays,  \* SPECIAL_TRADING_DAYS
    FirstDay,     \* bound: the walk starts here
    LastDay       \* bound: and ends here

ASSUME ExpiryCalendarAssumption ==
    /\ Holidays \subseteq Int /\ SpecialDays \subseteq Int
    /\ FirstDay \in Nat /\ LastDay \in Nat /\ FirstDay <= LastDay

Underlyings == {"NIFTY", "SENSEX", "BANKNIFTY"}
TUE == 1
WED == 2
THU == 3
FRI == 4

VARIABLES
    onlyOnExpiry, \* trade_only_on_expiry; config.yaml ships it as false
    today,        \* the day the walk has reached
    contract,     \* expiry of the contract in play, by index
    expiring,     \* indices that is_expiry_day names today
    tradeable     \* those taken on

walkVars == <<onlyOnExpiry, today, contract, expiring, tradeable>>

-----------------------------------------------------------------------------
(* Days and months.                                                        *)

Weekday(d) == (d + 2) % 7

DaysBefore == <<0, 31, 59, 90, 120, 151, 181, 212, 243, 273, 304, 334>>
MonthStart(m) ==
    LET y == m \div 12
        k == (m % 12) + 1
    IN  365 * y + (y + 3) \div 4 + DaysBefore[k] + (IF k > 2 /\ y % 4 = 0 THEN 1 ELSE 0)
Date(year, month, day) == MonthStart(12 * (year - 2020) + month - 1) + day - 1
MonthOf(d) ==
    CHOOSE m \in (d \div 31)..d : MonthStart(m) <= d /\ d < MonthStart(m + 1)

DaysOf(year, list) == {Date(year, md[1], md[2]) : md \in list}
NseHolidays == UNION {
    DaysOf(2020, {<<2,21>>, <<3,10>>, <<4,2>>, <<4,6>>, <<4,10>>, <<4,14>>, <<5,1>>,
        <<5,25>>, <<10,2>>, <<11,16>>, <<11,30>>, <<12,25>>}),
    DaysOf(2021, {<<1,26>>, <<3,11>>, <<3,29>>, <<4,2>>, <<4,14>>, <<4,21>>, <<5,13>>,
        <<7,21>>, <<8,19>>, <<9,10>>, <<10,15>>, <<11,4>>, <<11,5>>, <<11,19>>}),
    DaysOf(2022, {<<1,26>>, <<3,1>>, <<3,18>>, <<4,14>>, <<4,15>>, <<5,3>>, <<8,9>>,
        <<8,15>>, <<8,31>>, <<10,5>>, <<10,24>>, <<10,26>>, <<11,8>>}),
    DaysOf(2023, {<<1,26>>, <<3,7>>, <<3,30>>, <<4,4>>, <<4,7>>, <<4,14>>, <<5,1>>,
        <<6,29>>, <<8,15>>, <<9,19>>, <<10,2>>, <<10,24>>, <<11,13>>, <<11,14>>,
        <<11,27>>, <<12,25>>}),
    DaysOf(2024, {<<1,22>>, <<1,26>>, <<3,8>>, <<3,25>>, <<3,29>>, <<4,11>>, <<4,17>>,
        <<5,1>>, <<5,20>>, <<6,17>>, <<7,17>>, <<8,15>>, <<10,2>>, <<11,1>>, <<11,15>>,
        <<11,20>>, <<12,25>>}),
    DaysOf(2025, {<<2,26>>, <<3,14>>, <<3,31>>, <<4,10>>, <<4,14>>, <<4,18>>, <<5,1>>,
        <<8,15>>, <<8,27>>, <<10,2>>, <<10,10>>, <<10,21>>, <<10,22>>, <<11,5>>,
        <<12,25>>}),
    DaysOf(2026, {<<1,26>>, <<3,3>>, <<3,26>>, <<3,31>>, <<4,3>>, <<4,14>>, <<5,1>>,
        <<5,28>>, <<6,26>>, <<9,14>>, <<10,2>>, <<10,20>>, <<11,10>>, <<11,24>>,
        <<12,25>>})}
BudgetDays == {Date(2026, 2, 1)}

IsTradingDay(d) == d \in SpecialDays \/ (Weekday(d) < 5 /\ d \notin Holidays)

MaxGap == 45 \* no two monthly expiries are further apart
Days == 0..(LastDay + 2 * MaxGap)

\* The exchanges are never closed for longer.  The search of is_expiry_day, over
\* seven days, relies on it.
MaxClosure == 4
ASSUME ShortClosures == \A d \in Days : \E x \in (d - MaxClosure)..d : IsTradingDay(x)

\* The loop of _prev_trading_day ends at the latest trading day up to d.
PrevTradingDay == [d \in Days |->
    CHOOSE x \in (d - MaxClosure)..d : IsTradingDay(x) /\ \A y \in (x + 1)..d : ~IsTradingDay(y)]

-----------------------------------------------------------------------------
(* The rules.                                                              *)

NoWeekly == 7 \* None: no day of the week is an expiry
NIFTY_THU_TO_TUE == Date(2025, 9, 2)
BNF_WEEKLY_THU_TO_WED == Date(2023, 9, 4)
BNF_WEEKLY_DISCONTINUED == Date(2024, 11, 20)
BNF_MONTHLY_THU_TO_WED == Date(2024, 3, 1)
BNF_MONTHLY_WED_TO_THU == Date(2025, 1, 1)
BNF_MONTHLY_THU_TO_TUE == Date(2025, 9, 1)
SNX_WEEKLY_LAUNCHED == Date(2023, 5, 1)
SNX_WEEKLY_FRI_TO_TUE == Date(2025, 1, 1)
SNX_WEEKLY_TUE_TO_THU == Date(2025, 9, 4)

\* rules: the weekday that holds from a day on, latest first.
RuleOn(rules) ==
    [d \in Days |-> rules[Min({i \in DOMAIN rules : d >= rules[i][1]})][2]]
Ever == 0

NiftyWeekday == RuleOn(<< <<NIFTY_THU_TO_TUE, TUE>>, <<Ever, THU>> >>)
BankNiftyWeekly ==
    RuleOn(<< <<BNF_WEEKLY_DISCONTINUED, NoWeekly>>, <<BNF_WEEKLY_THU_TO_WED, WED>>,
              <<Ever, THU>> >>)
BankNiftyMonthly ==
    RuleOn(<< <<BNF_MONTHLY_THU_TO_TUE, TUE>>, <<BNF_MONTHLY_WED_TO_THU, THU>>,
              <<BNF_MONTHLY_THU_TO_WED, WED>>, <<Ever, THU>> >>)
NoLaunch == \* variant: weekly contracts of SENSEX from the start
    RuleOn(<< <<SNX_WEEKLY_TUE_TO_THU, THU>>, <<SNX_WEEKLY_FRI_TO_TUE, TUE>>,
              <<Ever, FRI>> >>)
SensexWeekday ==
    RuleOn(<< <<SNX_WEEKLY_TUE_TO_THU, THU>>, <<SNX_WEEKLY_FRI_TO_TUE, TUE>>,
              <<SNX_WEEKLY_LAUNCHED, FRI>>, <<Ever, NoWeekly>> >>)
WeeklyWeekday == [NIFTY |-> NiftyWeekday, SENSEX |-> SensexWeekday]

LastWeekdayOfMonth(m, wd) ==
    PrevTradingDay[CHOOSE d \in (MonthStart(m + 1) - 7)..(MonthStart(m + 1) - 1) :
                       Weekday(d) = wd]

\* Of the next seven days one is scheduled and moves back to d.
IsAdjustedWeeklyExpiry(u, d) ==
    \E s \in d..(d + 6) :
        Weekday(s) = WeeklyWeekday[u][s] /\ PrevTradingDay[s] = d

NextMonthsRule(d) == \* variant: the weekday is looked up for the first of the next month
    /\ Weekday(d) \in {BankNiftyMonthly[d], BankNiftyWeekly[d]}
    /\ d = LastWeekdayOfMonth(MonthOf(d), BankNiftyMonthly[MonthStart(MonthOf(d) + 1)])
IsMonthlyExpiry(d) ==
    /\ Weekday(d) \in {BankNiftyMonthly[d], BankNiftyWeekly[d]}
    /\ d = LastWeekdayOfMonth(MonthOf(d), BankNiftyMonthly[d])

IsExpiryDay(u, d) ==
    /\ IsTradingDay(d)
    /\ IF u = "BANKNIFTY" THEN IsMonthlyExpiry(d) ELSE IsAdjustedWeeklyExpiry(u, d)

ThisMonthOnly(d) == \* variant: the turn of the month is forgotten
    LastWeekdayOfMonth(MonthOf(d), BankNiftyMonthly[d])
\* The month's expiry, or that of the next month by the rule of its first day.
MonthlyExpiry(d) ==
    LET m == MonthOf(d)
        e == LastWeekdayOfMonth(m, BankNiftyMonthly[d])
    IN  IF e < d
        THEN LastWeekdayOfMonth(m + 1, BankNiftyMonthly[MonthStart(m + 1)])
        ELSE e

Horizon == 35
ExpiryForDate(u, d) ==
    IF u = "BANKNIFTY" THEN MonthlyExpiry(d)
    ELSE LET ahead == {e \in d..(d + Horizon - 1) : IsExpiryDay(u, e)}
         IN  IF ahead = {} THEN d ELSE Min(ahead)

-----------------------------------------------------------------------------
(* Lot sizes: <<first day, size>>, in order.                               *)

LotSizeHistory ==
    [NIFTY |-> {<<Date(2020, 1, 1), 75>>, <<Date(2021, 7, 1), 50>>,
                <<Date(2024, 4, 26), 25>>, <<Date(2024, 11, 21), 75>>,
                <<Date(2025, 9, 2), 65>>},
     BANKNIFTY |-> {<<Date(2020, 1, 1), 20>>, <<Date(2021, 7, 1), 25>>,
                    <<Date(2023, 7, 14), 15>>, <<Date(2024, 11, 21), 35>>,
                    <<Date(2025, 9, 1), 30>>},
     SENSEX |-> {<<Date(2023, 5, 1), 10>>, <<Date(2024, 11, 21), 20>>}]

\* 0: get_historical_lot_size raises, or knows no size.
LotSize(u, d) ==
    LET begun == {h \in LotSizeHistory[u] : h[1] <= d}
    IN  IF begun = {} THEN 0
        ELSE (CHOOSE h \in begun : \A g \in begun : g[1] <= h[1])[2]

-----------------------------------------------------------------------------
(* The walk.                                                               *)

ExpiringOn(d) == {u \in Underlyings : IsExpiryDay(u, d)}

\* Under the flag, of the indices that expire, all in a backtest and those that
\* the broker's list of expiries does not deny when trading live.  Without it all
\* of them; the backtest passes over the days on which the exchanges are closed.
Taken(d) ==
    IF onlyOnExpiry THEN SUBSET ExpiringOn(d)
    ELSE {Underlyings} \cup (IF IsTradingDay(d) THEN {} ELSE {{}})

Settle(d) ==
    /\ today' = d
    /\ expiring' = ExpiringOn(d)
    /\ contract' = [u \in Underlyings |-> ExpiryForDate(u, d)]
    /\ tradeable' \in Taken(d)
    /\ UNCHANGED onlyOnExpiry

WalkInit ==
    /\ onlyOnExpiry \in BOOLEAN
    /\ today = FirstDay
    /\ expiring = ExpiringOn(FirstDay)
    /\ contract = [u \in Underlyings |-> ExpiryForDate(u, FirstDay)]
    /\ tradeable \in Taken(FirstDay)

NextDay == today < LastDay /\ Settle(today + 1)

WalkSpec == WalkInit /\ [][NextDay]_walkVars

-----------------------------------------------------------------------------
(* Properties.                                                             *)

\* The expiries of an index by the rule of the exchanges: the scheduled days,
\* each moved to the last trading day before it when it is closed.
Scheduled(u, d) ==
    IF u = "BANKNIFTY"
    THEN Weekday(d) = BankNiftyMonthly[d] /\ MonthOf(d + 7) # MonthOf(d)
    ELSE Weekday(d) = WeeklyWeekday[u][d]
Expiries(u, from, to) ==
    {PrevTradingDay[s] : s \in {d \in from..to : Scheduled(u, d)}}

Reach(u) == IF u = "BANKNIFTY" THEN MaxGap ELSE Horizon

\* get_expiry_for_date: "Return the nearest expiry date >= reference_date",
\* on every day of the walk, across holidays, the turn of months and years and
\* the nine changes of the rules.  The searches agree with the rule.
NearestExpiry ==
    \A u \in Underlyings :
        LET ahead == {e \in Expiries(u, today, today + MaxGap) :
                        today <= e /\ e < today + Reach(u)}
        IN  contract[u] = IF ahead = {} THEN today ELSE Min(ahead)

\* Of the indices only SENSEX has a launch; before it the backtest skips SENSEX.
Launched(u) == u = "SENSEX" => today >= SNX_WEEKLY_LAUNCHED

\* Whatever day an index is traded on, and without trade_only_on_expiry that is
\* any day: the contract that get_expiry_for_date finds for it exists, an expiry
\* of the index by the rule of the exchanges that is not over, never the bare day
\* that the search falls back on, and the table of lot sizes can size it.  Under
\* the flag the contract expires that very day, and SENSEX is not named before its
\* launch: the choice of the index, the search for its contract and the table
\* agree, although each has its own dates.
TradesRealContracts ==
    \A u \in tradeable :
        /\ onlyOnExpiry => contract[u] = today
        /\ onlyOnExpiry \/ Launched(u) =>
              /\ contract[u] >= today
              /\ contract[u] \in Expiries(u, today, today + MaxGap)
              /\ LotSize(u, today) > 0

\* No holiday, change of a rule or gap between two rules loses an expiry or
\* invents one: is_expiry_day names an index exactly on its expiries, except
\* those of BANKNIFTY that were moved to a day of the week on which neither of
\* its rules falls.
ExpiryRecognised ==
    \A u \in Underlyings :
        LET due == today \in Expiries(u, today, today + MaxClosure)
            onWeekday == Weekday(today) \in {BankNiftyMonthly[today], BankNiftyWeekly[today]}
        IN  /\ u \in expiring => due
            /\ due /\ (u = "BANKNIFTY" => onWeekday) => u \in expiring

-----------------------------------------------------------------------------
(* Said of the program and not upheld by it.  No run checks these (README). *)

\* is_expiry_day: "This function checks both the calculated day and the
\* adjusted day, so it handles holidays correctly": also the monthly contract
\* of BANKNIFTY is traded on the day it expires.
MonthlyExpiryTraded == contract["BANKNIFTY"] = today => "BANKNIFTY" \in expiring

=============================================================================
