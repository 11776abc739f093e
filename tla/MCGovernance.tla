---- MODULE MCGovernance ----
EXTENDS Governance
CONSTANTS fast, spare, coding, chat, m1
MCBaseRosters == [r \in Roster |-> IF r = fast THEN {m1} ELSE Undefined]
MCBaseAssigned == [d \in Domain |-> IF d = coding THEN {fast} ELSE {}]
====
