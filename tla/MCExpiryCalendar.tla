-------------------------- MODULE MCExpiryCalendar --------------------------
(***************************************************************************)
(* The walk over the days of the code's own calendar, and the assertions   *)
(* that the code makes of it, evaluated against the translation.           *)
(***************************************************************************)
EXTENDS ExpiryCalendar

\* From a year before the first change of a rule to the end of the holiday list.
MCFirstDay == Date(2022, 1, 1)
MCLastDay == Date(2026, 12, 31)

\* _run_self_test and run_startup_assertions of utils/expiry_calendar.py.
ASSUME ExpirySelfTest ==
    /\ \A d \in {Date(2023,1,5), Date(2025,8,28), Date(2025,9,2), Date(2026,1,6)} :
           IsExpiryDay("NIFTY", d)
    /\ \A d \in {Date(2023,1,3), Date(2026,1,7)} : ~IsExpiryDay("NIFTY", d)
    /\ \A d \in {Date(2023,8,31), Date(2023,9,28), Date(2024,3,27), Date(2024,11,27),
                 Date(2025,1,30), Date(2025,9,30), Date(2026,1,27)} :
           IsExpiryDay("BANKNIFTY", d)
    /\ \A d \in {Date(2023,8,24), Date(2023,9,27), Date(2023,9,6), Date(2024,3,20),
                 Date(2025,1,28)} : ~IsExpiryDay("BANKNIFTY", d)
    /\ \A d \in {Date(2024,7,19), Date(2025,1,7), Date(2025,9,4), Date(2026,3,5)} :
           IsExpiryDay("SENSEX", d)
    /\ \A d \in {Date(2022,12,1), Date(2024,7,18)} : ~IsExpiryDay("SENSEX", d)

\* _run_self_test and run_startup_assertions of utils/historical_lot_sizes.py.
ASSUME LotSizeSelfTest ==
    /\ LotSize("NIFTY", Date(2024,4,25)) = 50 /\ LotSize("NIFTY", Date(2024,4,26)) = 25
    /\ LotSize("NIFTY", Date(2024,11,19)) = 25 /\ LotSize("NIFTY", Date(2025,9,1)) = 75
    /\ LotSize("NIFTY", Date(2025,9,2)) = 65 /\ LotSize("NIFTY", Date(2026,3,1)) = 65
    /\ LotSize("BANKNIFTY", Date(2023,7,13)) = 25 /\ LotSize("BANKNIFTY", Date(2023,7,14)) = 15
    /\ LotSize("BANKNIFTY", Date(2024,11,20)) = 15 /\ LotSize("BANKNIFTY", Date(2025,8,31)) = 35
    /\ LotSize("BANKNIFTY", Date(2026,1,27)) = 30
    /\ LotSize("SENSEX", Date(2022,1,1)) = 0 /\ LotSize("SENSEX", Date(2024,11,21)) = 20

\* validate_holiday_list warns of no holiday.
ASSUME NoWeekendHoliday == \A d \in Holidays : Weekday(d) < 5

=============================================================================
