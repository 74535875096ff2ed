--------------------------- MODULE MCAppointments ---------------------------
(* Small instances of Appointments for TLC: the hours of business are cut  *)
(* short, so that a day and the whole search can be full.                  *)
EXTENDS Appointments

SomePreferences == {"today", "next_week", "tuesday", "friday"}
=============================================================================
