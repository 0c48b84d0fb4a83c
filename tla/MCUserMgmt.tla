---- MODULE MCUserMgmt ----
(* Small instances of UserMgmt: an administrator, a user blocked by hand    *)
(* (as in account.txt of the repository) and a name to register.            *)
EXTENDS UserMgmt

CONSTANTS admin, blocked, p1

MCInitFile ==
    [u \in Names |->
        CASE u = admin -> [pass |-> p1, status |-> "active", role |-> "admin", lock_time |-> 0]
          [] u = blocked -> [pass |-> p1, status |-> "blocked", role |-> "user", lock_time |-> 0]
          [] OTHER -> Absent]
====
