---------------------------- MODULE MCProjections ----------------------------
(* Projections on a tracked account, a card and an untracked one, with a     *)
(* recurring expense, an instalment purchase and a recorded movement, around *)
(* the ends of January and of February; a year of windows follows from them. *)
EXTENDS Projections

CONSTANTS cash, card, untracked, food, home

Date(y, m, d) == Clamped(12 * (y - FirstYear) + m - 1, d)

MCAccountType == [a \in Accounts |-> IF a = card THEN "credit" ELSE "debit"]
MCTracked     == {cash, card}
MCOpening     == [a \in Accounts |-> 100]
MCLimit       == [a \in {card} |-> 500]
MCStartedAt   == [a \in Accounts |-> IF a = card THEN Date(2024, 1, 15) ELSE None]

Rule(a, n, frequency, start) ==
    [account |-> a, category |-> home, amount |-> n, frequency |-> frequency, start |-> start]

MCRuleInputs == {
    Rule(cash, 3, "monthly", Date(2024, 1, 31)),
    Rule(card, 5, "yearly", Date(2024, 2, 29))}

MCPurchaseInputs == {
    [account |-> card, category |-> food, total |-> 4, count |-> 3, start |-> Date(2023, 12, 31)],
    [account |-> card, category |-> home, total |-> 7, count |-> 2, start |-> Date(2024, 2, 29)]}

Movement(type, a, dest, n, days, affects, linked, category) ==
    [type |-> type, account |-> a, dest |-> dest, amount |-> n, days |-> days,
     affects |-> affects, linked |-> linked, category |-> category]

MCRecordings == {
    Movement("expense", card, None, 11, -1, TRUE, FALSE, food),
    Movement("transfer", cash, card, 13, 0, TRUE, TRUE, None),
    Movement("transfer", cash, card, 17, 1, TRUE, FALSE, None),
    Movement("income", cash, None, 600, 0, FALSE, FALSE, None)}

MCStartDays == {Date(2024, 1, 31), Date(2024, 2, 28)}
MCLastDays  == {Date(2024, 2, 1), Date(2024, 3, 1)}
MCShortDays == {Date(2024, 3, 10), Date(2025, 3, 9)}
MCLongDays  == {Date(2024, 11, 3)}

Budget(id, category, period, start) ==
    [id |-> id, category |-> category, period |-> period, start |-> start, amount |-> 10]

MCBudgets == {
    Budget(1, food, "monthly", Date(2023, 6, 10)),
    Budget(2, home, "yearly", Date(2024, 2, 29)),
    Budget(3, food, "weekly", Date(2023, 12, 27)),
    Budget(4, home, "monthly", Date(2023, 7, 1))}

MCEstimateYield(a, balance, days) ==
    IF balance <= 0 \/ days <= 0 \/ a # cash THEN 0 ELSE (balance * days) \div 500
=============================================================================
