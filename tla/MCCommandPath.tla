--------------------------- MODULE MCCommandPath ---------------------------
(* One command the server takes, one the browser keeps, an alarm shelved     *)
(* with a reason that is blank, and a request from another origin.           *)
EXTENDS CommandPath

P(kind, fields, blank) ==
    [ours |-> TRUE, kind |-> kind, fields |-> fields, blank_reason |-> blank]

MCPayloads == {P("set_speed", {"speed"}, FALSE), P("set_pref", {"key", "value"}, FALSE),
               P("shelve_alarm", {"key", "duration_s", "reason"}, TRUE),
               [P("pause", {}, FALSE) EXCEPT !.ours = FALSE]}

OnePayload == {P("set_speed", {"speed"}, FALSE)}
=============================================================================
