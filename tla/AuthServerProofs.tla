---- MODULE AuthServerProofs ----
(***************************************************************************)
(* Proofs about AuthServer, for every number of connections, users and     *)
(* crashes and every value of the limits.                                  *)
(***************************************************************************)
EXTENDS AuthServer, SequenceLemmas, SequenceTheorems, TLAPS

(* A thread that handles a LOGIN has a userid, one that removes an entry   *)
(* has a session: what the steps between two calls may assume.             *)
LocalsKnown ==
    \A c \in Conns :
        /\ pc[c] \in {"accounts", "readfail", "writefail", "lock", "clear",
                      "addread", "addwrite"} => user[c] \in Users
        /\ pc[c] \in {"delread", "delwrite"} => session[c] \in Users

TypeInv == TypeOK /\ LocalsKnown

(* The values and the locals keep their types.                             *)
LEMMA TypeInductive == Spec => []TypeInv
<1>1. Init => TypeInv
  BY NoneAssumption, AccountAssumption, BoundAssumption
  DEF Init, TypeInv, TypeOK, LocalsKnown, Status, PCs, Entry, NoAccounts
<1>2. TypeInv /\ [Next]_vars => TypeInv'
  <2> SUFFICES ASSUME TypeInv, [Next]_vars PROVE TypeInv'
    OBVIOUS
  <2> USE NoneAssumption, BoundAssumption DEF TypeInv, TypeOK, LocalsKnown, PCs, Status,
          files, locals, history, Goto, LoginReturns, EntryOf
  <2>1. ASSUME NEW c \in Conns, Connect(c) PROVE TypeInv'
    BY <2>1 DEF Connect
  <2>2. ASSUME NEW c \in Conns, NEW u \in Users, RecvLogin(c, u) PROVE TypeInv'
    BY <2>2 DEF RecvLogin
  <2>3. ASSUME NEW c \in Conns, NEW q \in BOOLEAN, StartRemoval(c, q) PROVE TypeInv'
    BY <2>3 DEF StartRemoval
  <2>4. ASSUME NEW c \in Conns, DisconnectIdle(c) PROVE TypeInv'
    BY <2>4 DEF DisconnectIdle
  <2>5. ASSUME NEW c \in Conns, LoginRefused(c) PROVE TypeInv'
    BY <2>5 DEF LoginRefused
  <2>6. ASSUME NEW c \in Conns, LoginWrong(c) PROVE TypeInv'
    BY <2>6 DEF LoginWrong
  <2>7. ASSUME NEW c \in Conns, LoginRight(c) PROVE TypeInv'
    <3>1. user[c] \in Users
      BY <2>7 DEF LoginRight
    <3>2. EntryOf(user[c], c) \in Entry
      BY <3>1 DEF Entry
    <3> QED BY <2>7, <3>2 DEF LoginRight
  <2>8. ASSUME NEW c \in Conns, ReadFailed(c) PROVE TypeInv'
    BY <2>8 DEF ReadFailed, Capped
  <2>9. ASSUME NEW c \in Conns, WriteFailed(c) PROVE TypeInv'
    BY <2>9 DEF WriteFailed, NoAccounts
  <2>10. ASSUME NEW c \in Conns, WriteFailedAtLimit(c) PROVE TypeInv'
    BY <2>10 DEF WriteFailedAtLimit
  <2>11. ASSUME NEW c \in Conns, LockAccount(c) PROVE TypeInv'
    BY <2>11 DEF LockAccount, NoAccounts
  <2>12. ASSUME NEW c \in Conns, ClearFailed(c) PROVE TypeInv'
    BY <2>12 DEF ClearFailed
  <2>13. ASSUME NEW c \in Conns, AddNotNeeded(c) PROVE TypeInv'
    BY <2>13 DEF AddNotNeeded, LoginSucceeds
  <2>14. ASSUME NEW c \in Conns, AddRead(c) PROVE TypeInv'
    BY <2>14 DEF AddRead
  <2>15. ASSUME NEW c \in Conns, AddWrite(c) PROVE TypeInv'
    <3>1. user[c] \in Users
      BY <2>15 DEF AddWrite
    <3>2. EntryOf(user[c], c) \in Entry
      BY <3>1 DEF Entry
    <3>3. Append(list[c], EntryOf(user[c], c)) \in Seq(Entry)
      BY <3>2, AppendProperties
    <3> QED BY <2>15, <3>1, <3>3 DEF AddWrite, LoginSucceeds
  <2>16. ASSUME NEW c \in Conns, RemoveNotFound(c) PROVE TypeInv'
    BY <2>16 DEF RemoveNotFound, RemovalReturns
  <2>17. ASSUME NEW c \in Conns, RemoveRead(c) PROVE TypeInv'
    BY <2>17 DEF RemoveRead
  <2>18. ASSUME NEW c \in Conns, RemoveWrite(c) PROVE TypeInv'
    <3>1. \A i \in 1..Len(list[c]) : RemoveAt(list[c], i) \in Seq(Entry)
      BY RemoveAtProperties
    <3> QED BY <2>18, <3>1 DEF RemoveWrite, RemovalReturns
  <2>19. CASE Crash
    <3>1. /\ account' \in [Users -> Status]
          /\ failed' \in [Users -> 0..MAX_ATTEMPTS]
          /\ listed' \in Seq(Entry)
      <4>1. CASE UNCHANGED files
        BY <4>1
      <4>2. CASE account' = NoAccounts /\ UNCHANGED <<failed, listed>>
        BY <4>2 DEF NoAccounts
      <4>3. CASE failed' = [u \in Users |-> 0] /\ UNCHANGED <<account, listed>>
        BY <4>3
      <4>4. CASE listed' = <<>> /\ UNCHANGED <<account, failed>>
        <5>1. <<>> \in Seq(Entry)
          BY EmptySeq
        <5> QED BY <4>4, <5>1
      <4> QED BY <2>19, <4>1, <4>2, <4>3, <4>4 DEF Crash
    <3>2. /\ crashes' \in 0..MaxCrashes
          /\ wrong' = wrong /\ granted' = granted
      BY <2>19 DEF Crash
    <3>3. /\ pc' = [d \in Conns |-> "free"]
          /\ user' = [d \in Conns |-> None]
          /\ snapshot' = [d \in Conns |-> NoAccounts]
          /\ attempts' = [d \in Conns |-> 0]
          /\ list' = [d \in Conns |-> <<>>]
          /\ session' = [d \in Conns |-> None]
          /\ closing' = [d \in Conns |-> FALSE]
      BY <2>19 DEF Crash
    <3>4. NoAccounts \in [Users -> Status] /\ <<>> \in Seq(Entry)
      BY DEF NoAccounts
    <3> QED BY <3>1, <3>2, <3>3, <3>4
  <2>20. CASE UNCHANGED vars
    BY <2>20 DEF vars
  <2> QED
    BY <2>1, <2>2, <2>3, <2>4, <2>5, <2>6, <2>7, <2>8, <2>9, <2>10, <2>11, <2>12,
       <2>13, <2>14, <2>15, <2>16, <2>17, <2>18, <2>19, <2>20
    DEF Next, Client, Thread, RecvLogout, Disconnect
<1> QED
  BY <1>1, <1>2, PTL DEF Spec

(* The files, the threads' locals and the history keep their types.        *)
THEOREM TypeCorrect == Spec => []TypeOK
<1>1. TypeInv => TypeOK
  BY DEF TypeInv
<1> QED BY <1>1, TypeInductive, PTL

(* A user has an excuse for being locked: it was so from the start, or the *)
(* limit of wrong passwords was counted.                                   *)
Excused(u) == InitAccount[u] = "locked" \/ wrong[u] = MAX_ATTEMPTS

(* LockNeedsWrong is not inductive: the count that locks passes through    *)
(* the file and through the locals of a thread, and a lock passes through  *)
(* the copies of the accounts that other threads write back.               *)
LockInv ==
    /\ \A u \in Users : failed[u] <= wrong[u]
    /\ \A c \in Conns : pc[c] \in {"writefail", "lock"} => attempts[c] <= wrong[user[c]]
    /\ \A c \in Conns : pc[c] = "lock" => attempts[c] = MAX_ATTEMPTS
    /\ \A u \in Users : account[u] = "locked" => Excused(u)
    /\ \A c \in Conns, u \in Users : snapshot[c][u] = "locked" => Excused(u)

(* An account is only locked for MAX_ATTEMPTS wrong passwords, whatever    *)
(* the interleaving of the threads and wherever the server crashes.        *)
THEOREM LockJustified == Spec => []LockNeedsWrong
<1>1. Init => LockInv
  BY AccountAssumption, BoundAssumption
  DEF Init, LockInv, Excused, NoAccounts, Status
<1>2. TypeInv /\ LockInv /\ [Next]_vars => LockInv'
  <2> SUFFICES ASSUME TypeInv, LockInv, [Next]_vars PROVE LockInv'
    OBVIOUS
  <2> USE NoneAssumption, BoundAssumption DEF TypeInv, TypeOK, LocalsKnown, LockInv, Excused,
          files, locals, history, Goto, LoginReturns
  <2>1. ASSUME NEW c \in Conns, Connect(c) PROVE LockInv'
    BY <2>1 DEF Connect
  <2>2. ASSUME NEW c \in Conns, NEW u \in Users, RecvLogin(c, u) PROVE LockInv'
    BY <2>2 DEF RecvLogin
  <2>3. ASSUME NEW c \in Conns, NEW q \in BOOLEAN, StartRemoval(c, q) PROVE LockInv'
    BY <2>3 DEF StartRemoval
  <2>4. ASSUME NEW c \in Conns, DisconnectIdle(c) PROVE LockInv'
    BY <2>4 DEF DisconnectIdle
  <2>5. ASSUME NEW c \in Conns, LoginRefused(c) PROVE LockInv'
    BY <2>5 DEF LoginRefused
  <2>6. ASSUME NEW c \in Conns, LoginWrong(c) PROVE LockInv'
    BY <2>6 DEF LoginWrong
  <2>7. ASSUME NEW c \in Conns, LoginRight(c) PROVE LockInv'
    BY <2>7 DEF LoginRight
  <2>8. ASSUME NEW c \in Conns, ReadFailed(c) PROVE LockInv'
    BY <2>8 DEF ReadFailed, Capped
  <2>9. ASSUME NEW c \in Conns, WriteFailed(c) PROVE LockInv'
    BY <2>9 DEF WriteFailed, NoAccounts
  <2>10. ASSUME NEW c \in Conns, WriteFailedAtLimit(c) PROVE LockInv'
    BY <2>10 DEF WriteFailedAtLimit
  <2>11. ASSUME NEW c \in Conns, LockAccount(c) PROVE LockInv'
    BY <2>11 DEF LockAccount, NoAccounts
  <2>12. ASSUME NEW c \in Conns, ClearFailed(c) PROVE LockInv'
    BY <2>12 DEF ClearFailed
  <2>13. ASSUME NEW c \in Conns, AddNotNeeded(c) PROVE LockInv'
    BY <2>13 DEF AddNotNeeded, LoginSucceeds
  <2>14. ASSUME NEW c \in Conns, AddRead(c) PROVE LockInv'
    BY <2>14 DEF AddRead
  <2>15. ASSUME NEW c \in Conns, AddWrite(c) PROVE LockInv'
    BY <2>15 DEF AddWrite, LoginSucceeds
  <2>16. ASSUME NEW c \in Conns, RemoveNotFound(c) PROVE LockInv'
    BY <2>16 DEF RemoveNotFound, RemovalReturns
  <2>17. ASSUME NEW c \in Conns, RemoveRead(c) PROVE LockInv'
    BY <2>17 DEF RemoveRead
  <2>18. ASSUME NEW c \in Conns, RemoveWrite(c) PROVE LockInv'
    BY <2>18 DEF RemoveWrite, RemovalReturns
  <2>19. CASE Crash
    BY <2>19 DEF Crash, NoAccounts
  <2>20. CASE UNCHANGED vars
    BY <2>20 DEF vars
  <2> QED
    BY <2>1, <2>2, <2>3, <2>4, <2>5, <2>6, <2>7, <2>8, <2>9, <2>10, <2>11,
       <2>12, <2>13, <2>14, <2>15, <2>16, <2>17, <2>18, <2>19, <2>20
    DEF Next, Client, Thread, RecvLogout, Disconnect
<1>3. LockInv => LockNeedsWrong
  BY DEF LockInv, LockNeedsWrong, Excused
<1> QED
  BY <1>1, <1>2, <1>3, TypeInductive, PTL DEF Spec

(* A thread that is about to append its entry holds a copy without it.     *)
ListInv ==
    /\ NoDuplicates
    /\ \A c \in Conns : pc[c] = "addwrite" => ~Contains(list[c], EntryOf(user[c], c))

(* The list of sessions never has an entry twice.                          *)
THEOREM ListsInjective == Spec => []ListInv
<1>1. Init => ListInv
  BY EmptyFacts DEF Init, ListInv, NoDuplicates
<1>2. TypeInv /\ ListInv /\ [Next]_vars => ListInv'
  <2> SUFFICES ASSUME TypeInv, ListInv, [Next]_vars PROVE ListInv'
    OBVIOUS
  <2> USE NoneAssumption, EmptyFacts DEF TypeInv, TypeOK, LocalsKnown, ListInv, NoDuplicates,
          files, locals, history, Goto, LoginReturns
  <2>1. ASSUME NEW c \in Conns, Connect(c) PROVE ListInv'
    BY <2>1 DEF Connect
  <2>2. ASSUME NEW c \in Conns, NEW u \in Users, RecvLogin(c, u) PROVE ListInv'
    BY <2>2 DEF RecvLogin
  <2>3. ASSUME NEW c \in Conns, NEW q \in BOOLEAN, StartRemoval(c, q) PROVE ListInv'
    BY <2>3 DEF StartRemoval
  <2>4. ASSUME NEW c \in Conns, DisconnectIdle(c) PROVE ListInv'
    BY <2>4 DEF DisconnectIdle
  <2>5. ASSUME NEW c \in Conns, LoginRefused(c) PROVE ListInv'
    BY <2>5 DEF LoginRefused
  <2>6. ASSUME NEW c \in Conns, LoginWrong(c) PROVE ListInv'
    BY <2>6 DEF LoginWrong
  <2>7. ASSUME NEW c \in Conns, LoginRight(c) PROVE ListInv'
    BY <2>7 DEF LoginRight
  <2>8. ASSUME NEW c \in Conns, ReadFailed(c) PROVE ListInv'
    BY <2>8 DEF ReadFailed
  <2>9. ASSUME NEW c \in Conns, WriteFailed(c) PROVE ListInv'
    BY <2>9 DEF WriteFailed
  <2>10. ASSUME NEW c \in Conns, WriteFailedAtLimit(c) PROVE ListInv'
    BY <2>10 DEF WriteFailedAtLimit
  <2>11. ASSUME NEW c \in Conns, LockAccount(c) PROVE ListInv'
    BY <2>11 DEF LockAccount
  <2>12. ASSUME NEW c \in Conns, ClearFailed(c) PROVE ListInv'
    BY <2>12 DEF ClearFailed
  <2>13. ASSUME NEW c \in Conns, AddNotNeeded(c) PROVE ListInv'
    BY <2>13 DEF AddNotNeeded, LoginSucceeds
  <2>14. ASSUME NEW c \in Conns, AddRead(c) PROVE ListInv'
    BY <2>14 DEF AddRead
  <2>15. ASSUME NEW c \in Conns, AddWrite(c) PROVE ListInv'
    <3>1. EntryOf(user[c], c) \in Entry
      BY <2>15 DEF AddWrite, EntryOf, Entry
    <3> DEFINE e == EntryOf(user[c], c)
               s == list[c]
    <3>2. IsInjective(Append(s, e))
      <4>1. /\ s \in Seq(Entry) /\ e \in Entry
            /\ IsInjective(s) /\ ~Contains(s, e)
        BY <2>15, <3>1 DEF AddWrite
      <4> HIDE DEF s, e
      <4> QED BY <4>1, AppendToSet, ContainsIsMember
    <3> QED BY <2>15, <3>2 DEF AddWrite, LoginSucceeds
  <2>16. ASSUME NEW c \in Conns, RemoveNotFound(c) PROVE ListInv'
    BY <2>16 DEF RemoveNotFound, RemovalReturns
  <2>17. ASSUME NEW c \in Conns, RemoveRead(c) PROVE ListInv'
    BY <2>17 DEF RemoveRead
  <2>18. ASSUME NEW c \in Conns, RemoveWrite(c) PROVE ListInv'
    <3>1. \A i \in 1..Len(list[c]) : IsInjective(RemoveAt(list[c], i))
      BY RemoveAtKeepsInjective
    <3> QED BY <2>18, <3>1 DEF RemoveWrite, RemovalReturns
  <2>19. CASE Crash
    BY <2>19 DEF Crash
  <2>20. CASE UNCHANGED vars
    BY <2>20 DEF vars
  <2> QED
    BY <2>1, <2>2, <2>3, <2>4, <2>5, <2>6, <2>7, <2>8, <2>9, <2>10, <2>11,
       <2>12, <2>13, <2>14, <2>15, <2>16, <2>17, <2>18, <2>19, <2>20
    DEF Next, Client, Thread, RecvLogout, Disconnect
<1> QED
  BY <1>1, <1>2, TypeInductive, PTL DEF Spec

(* No entry is twice in logged_in.txt or in a copy of it.                  *)
THEOREM NoDuplicateEntries == Spec => []NoDuplicates
BY ListsInjective, PTL DEF ListInv

(* Between the password check and the entry in the file the thread only    *)
(* holds the userid: that pair is granted already.                         *)
GrantInv ==
    /\ AuthenticatedOnly
    /\ \A c \in Conns : pc[c] \in {"clear", "addread", "addwrite"} =>
          EntryOf(user[c], c) \in granted

(* Every listed or logged-in user gave the password from that address.     *)
THEOREM OnlyAuthenticated == Spec => []AuthenticatedOnly
<1>1. Init => GrantInv
  BY EmptyFacts DEF Init, GrantInv, AuthenticatedOnly
<1>2. TypeInv /\ GrantInv /\ [Next]_vars => GrantInv'
  <2> SUFFICES ASSUME TypeInv, GrantInv, [Next]_vars PROVE GrantInv'
    OBVIOUS
  <2> USE NoneAssumption, EmptyFacts DEF TypeInv, TypeOK, LocalsKnown, GrantInv, AuthenticatedOnly,
          files, locals, history, Goto, LoginReturns
  <2>1. ASSUME NEW c \in Conns, Connect(c) PROVE GrantInv'
    BY <2>1 DEF Connect
  <2>2. ASSUME NEW c \in Conns, NEW u \in Users, RecvLogin(c, u) PROVE GrantInv'
    BY <2>2 DEF RecvLogin
  <2>3. ASSUME NEW c \in Conns, NEW q \in BOOLEAN, StartRemoval(c, q) PROVE GrantInv'
    BY <2>3 DEF StartRemoval
  <2>4. ASSUME NEW c \in Conns, DisconnectIdle(c) PROVE GrantInv'
    BY <2>4 DEF DisconnectIdle
  <2>5. ASSUME NEW c \in Conns, LoginRefused(c) PROVE GrantInv'
    BY <2>5 DEF LoginRefused
  <2>6. ASSUME NEW c \in Conns, LoginWrong(c) PROVE GrantInv'
    BY <2>6 DEF LoginWrong
  <2>7. ASSUME NEW c \in Conns, LoginRight(c) PROVE GrantInv'
    BY <2>7 DEF LoginRight
  <2>8. ASSUME NEW c \in Conns, ReadFailed(c) PROVE GrantInv'
    BY <2>8 DEF ReadFailed
  <2>9. ASSUME NEW c \in Conns, WriteFailed(c) PROVE GrantInv'
    BY <2>9 DEF WriteFailed
  <2>10. ASSUME NEW c \in Conns, WriteFailedAtLimit(c) PROVE GrantInv'
    BY <2>10 DEF WriteFailedAtLimit
  <2>11. ASSUME NEW c \in Conns, LockAccount(c) PROVE GrantInv'
    BY <2>11 DEF LockAccount
  <2>12. ASSUME NEW c \in Conns, ClearFailed(c) PROVE GrantInv'
    BY <2>12 DEF ClearFailed
  <2>13. ASSUME NEW c \in Conns, AddNotNeeded(c) PROVE GrantInv'
    BY <2>13 DEF AddNotNeeded, LoginSucceeds
  <2>14. ASSUME NEW c \in Conns, AddRead(c) PROVE GrantInv'
    BY <2>14 DEF AddRead
  <2>15. ASSUME NEW c \in Conns, AddWrite(c) PROVE GrantInv'
    <3>1. EntryOf(user[c], c) \in Entry
      BY <2>15 DEF AddWrite, EntryOf, Entry
    <3>2. ToSet(Append(list[c], EntryOf(user[c], c))) = ToSet(list[c]) \cup {EntryOf(user[c], c)}
      BY <3>1, AppendToSet
    <3> QED BY <2>15, <3>2 DEF AddWrite, LoginSucceeds
  <2>16. ASSUME NEW c \in Conns, RemoveNotFound(c) PROVE GrantInv'
    BY <2>16 DEF RemoveNotFound, RemovalReturns
  <2>17. ASSUME NEW c \in Conns, RemoveRead(c) PROVE GrantInv'
    BY <2>17 DEF RemoveRead
  <2>18. ASSUME NEW c \in Conns, RemoveWrite(c) PROVE GrantInv'
    <3>1. \A i \in 1..Len(list[c]) : ToSet(RemoveAt(list[c], i)) \subseteq ToSet(list[c])
      BY ToSetOfRemoveAt
    <3> QED BY <2>18, <3>1 DEF RemoveWrite, RemovalReturns
  <2>19. CASE Crash
    BY <2>19 DEF Crash
  <2>20. CASE UNCHANGED vars
    BY <2>20 DEF vars
  <2> QED
    BY <2>1, <2>2, <2>3, <2>4, <2>5, <2>6, <2>7, <2>8, <2>9, <2>10, <2>11,
       <2>12, <2>13, <2>14, <2>15, <2>16, <2>17, <2>18, <2>19, <2>20
    DEF Next, Client, Thread, RecvLogout, Disconnect
<1>3. GrantInv => AuthenticatedOnly
  BY DEF GrantInv
<1> QED
  BY <1>1, <1>2, <1>3, TypeInductive, PTL DEF Spec

(* The write of remove_logged_in_user leaves no entry of the session.      *)
THEOREM RemovalIsComplete == Spec => LogoutUnlists
<1> DEFINE Unlists ==
       \A c \in Conns :
          (pc[c] = "delwrite" /\ pc'[c] # "delwrite" /\ crashes' = crashes) =>
              ~Contains(listed', EntryOf(session[c], c))
<1>1. TypeInv /\ ListInv /\ [Next]_vars => [Unlists]_vars
  <2> SUFFICES ASSUME TypeInv, ListInv, Next,
                      NEW c \in Conns, pc[c] = "delwrite", pc'[c] # "delwrite",
                      crashes' = crashes
               PROVE  ~Contains(listed', EntryOf(session[c], c))
    OBVIOUS
  <2> USE DEF TypeInv, TypeOK, Goto, LoginReturns
  <2>1. ~Crash
    BY DEF Crash
  <2>2. PICK d \in Conns : Client(d) \/ Thread(d)
    BY <2>1 DEF Next
  <2>3. pc' = [pc EXCEPT ![d] = pc'[d]]
    BY <2>2
    DEF Client, Thread, Connect, RecvLogin, RecvLogout, Disconnect, StartRemoval,
        DisconnectIdle, LoginRefused, LoginWrong, LoginRight, ReadFailed, WriteFailed,
        WriteFailedAtLimit, LockAccount, ClearFailed, AddNotNeeded, AddRead, AddWrite,
        LoginSucceeds, RemoveNotFound, RemoveRead, RemoveWrite, RemovalReturns
  <2>4. d = c
    BY <2>3
  <2>5. RemoveWrite(c)
    BY <2>2, <2>4
    DEF Client, Thread, Connect, RecvLogin, RecvLogout, Disconnect, StartRemoval,
        DisconnectIdle, LoginRefused, LoginWrong, LoginRight, ReadFailed, WriteFailed,
        WriteFailedAtLimit, LockAccount, ClearFailed, AddNotNeeded, AddRead, AddWrite,
        RemoveNotFound, RemoveRead
  <2>6. PICK i \in 1..Len(list[c]) : /\ list[c][i] = EntryOf(session[c], c)
                                     /\ listed' = RemoveAt(list[c], i)
    BY <2>5 DEF RemoveWrite
  <2>7. IsInjective(list[c])
    BY DEF ListInv, NoDuplicates
  <2>8. ~Contains(RemoveAt(list[c], i), list[c][i])
    BY <2>7, RemoveAtKeepsInjective
  <2> QED BY <2>6, <2>8
<1> QED
  BY <1>1, TypeInductive, ListsInjective, PTL DEF Spec, LogoutUnlists
====
