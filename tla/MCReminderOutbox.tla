-------------------------- MODULE MCReminderOutbox --------------------------
(* Small instances of ReminderOutbox for TLC.                              *)
EXTENDS ReminderOutbox

CONSTANTS w1, w2

\* Reminders of different expiries never read each other: those of the last one.
OneExpiry == \A id \in Reminders : row[id] # NoRow => id.expire = MaxDay

\* An expiry that is not the one of the rows is as good as another.
TwoExpiries == expire \in {MaxDay, MaxDay - 1}

\* A user who is unfit had opted in.
UnfitAfterConsent == fit \/ consent # None
=============================================================================
