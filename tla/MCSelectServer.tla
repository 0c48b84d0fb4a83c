---- MODULE MCSelectServer ----
(* Small instances of SelectServer.  The lines are the name of the one      *)
(* account (not a valid password, for its "_"), its first password, "bye"   *)
(* and the empty line.  In MCSelectSafety name and password are one line,   *)
(* which is valid.                                                          *)
EXTENDS SelectServer

CONSTANTS name, pw, bye, empty

MCFds == 1..(MAX_CLIENTS + 1)
MCInitFile == [u \in Users |-> [pass |-> pw, status |-> "active"]]

(* digits, then letters *)
MCEncoding == [s \in Strings |->
                  CASE s = name -> <<"1", "u">>
                    [] s = pw -> <<"1", "pw">>
                    [] s = bye -> <<"", "bye">>
                    [] s = empty -> <<"", "">>]
====
