---- MODULE UserMgmtProofs ----
(***************************************************************************)
(* Proofs about UserMgmt, for any names, passwords, limits and first file. *)
(***************************************************************************)
EXTENDS UserMgmt, SequenceTheorems, TLAPS

List == [Names -> User \cup {Absent}]

(* What sign_in waits for: nobody is logged in, and the account whose      *)
(* password is asked for is not blocked.                                   *)
PromptInv ==
    pc = "password" => current_user = None /\ user_list[user].status = "active"

(* The list and its file: they differ only after a fault, and as long as   *)
(* no lines are lost, who is an administrator in memory has a line in the  *)
(* file, since no choice gives that role.                                  *)
SavedInv ==
    /\ pc = "off" => current_user = None /\ unsaved = FALSE /\ linesLost = FALSE
    /\ pc # "off" /\ ~unsaved => user_list = account_file
    /\ unsaved \/ linesLost => faults > 0
    /\ ~linesLost => \A u \in Names :
          Listed(u) /\ user_list[u].role = "admin" => account_file[u] # Absent

Elements(s) == {s[i] : i \in DOMAIN s}
Distinct(s) == \A i, j \in DOMAIN s : s[i] = s[j] => i = j

(* Only sign-ins that were made are recorded.                              *)
RecordsMade ==
    /\ Elements(history_list) \subseteq 1..logins
    /\ Elements(history_file) \subseteq 1..logins

UsersInv == TypeOK /\ PromptInv /\ SavedInv /\ RecordsMade /\ CurrentUserListed

(* The history file has no sign-in twice, none that was given up, and all  *)
(* others unless the last save failed.                                     *)
HistoryInv ==
    /\ HistoryKept
    /\ Distinct(history_file)
    /\ Elements(history_file) \subseteq (1..logins) \ gone
    /\ pc = "off" \/ ~histUnsaved => Elements(history_file) = (1..logins) \ gone
    /\ pc = "off" => ~histUnsaved

----
(* The helpers: what a save, an unlock and a load leave behind.            *)
LEMMA EmptyFacts ==
    /\ Empty \in List
    /\ \A S : <<>> \in Seq(S)
    /\ Elements(<<>>) = {} /\ Distinct(<<>>)
BY EmptySeq DEF Empty, List, Elements, Distinct

(* A list that was not written to its end: its lines are those of the      *)
(* list, with the status they had.                                         *)
LEMMA CutEffect ==
    ASSUME NEW l \in List, NEW f \in Cuts(l)
    PROVE  /\ f \in List
           /\ \A u \in Names : f[u] # Absent =>
                 l[u] # Absent /\ f[u].status = l[u].status
<1>0. PICK last \in Names :
         \E whole \in SUBSET Names, a \in Remains(l[last]) :
            f = [u \in Names |-> IF u \in whole THEN l[u] ELSE IF u = last THEN a ELSE Absent]
  BY DEF Cuts
<1>1. PICK whole \in SUBSET Names, a \in Remains(l[last]) :
         f = [u \in Names |-> IF u \in whole THEN l[u] ELSE IF u = last THEN a ELSE Absent]
  BY <1>0
<1>2. a \in User \cup {Absent} /\ (a # Absent => l[last] # Absent /\ a.status = l[last].status)
  <2>1. CASE a = Absent
    BY <2>1
  <2>2. CASE a # Absent
    <3>1. l[last] \in User /\ l[last] # Absent
      BY <2>2 DEF Remains, List
    <3>2. PICK n \in Nat, role \in {"admin", "user"} :
             a = [l[last] EXCEPT !.role = role, !.lock_time = n]
      <4>1. CASE \E n \in 0..l[last].lock_time : a = [l[last] EXCEPT !.lock_time = n]
        <5>1. PICK n \in 0..l[last].lock_time : a = [l[last] EXCEPT !.lock_time = n]
          BY <4>1
        <5>2. n \in Nat /\ l[last].role \in {"admin", "user"}
          BY <3>1 DEF User
        <5>3. a = [l[last] EXCEPT !.role = l[last].role, !.lock_time = n]
          BY <3>1, <5>1 DEF User
        <5> QED BY <5>2, <5>3
      <4>2. CASE a = [l[last] EXCEPT !.role = "user", !.lock_time = 0]
        BY <4>2
      <4> QED BY <2>2, <3>1, <4>1, <4>2 DEF Remains
    <3> QED BY <3>1, <3>2 DEF User
  <2> QED BY <2>1, <2>2
<1>3. \A u \in Names : f[u] = IF u \in whole THEN l[u] ELSE IF u = last THEN a ELSE Absent
  BY <1>1
<1>4. f \in List
  BY <1>1, <1>2 DEF List
<1> QED BY <1>2, <1>3, <1>4

(* SaveUsers writes the new list, or counts a fault.                       *)
LEMMA SaveUsersEffect ==
    ASSUME TypeOK, SavedInv, user_list' \in List, SaveUsers
    PROVE  /\ account_file' \in List /\ unsaved' \in BOOLEAN /\ linesLost' \in BOOLEAN
           /\ faults' \in 0..MAX_FAULTS /\ faults' >= faults
           /\ ~unsaved' => account_file' = user_list'
           /\ unsaved' \/ linesLost' => faults' > 0
           /\ linesLost => linesLost'
           /\ ~linesLost' => \A u \in Names : account_file'[u] # Absent \/
                 (user_list'[u] = Absent \/ account_file[u] = Absent)
<1>1. /\ account_file \in List /\ faults \in 0..MAX_FAULTS /\ MAX_FAULTS \in Nat
      /\ linesLost \in BOOLEAN
  BY BoundsAssumption DEF TypeOK, List
<1>2. CASE account_file' = user_list' /\ unsaved' = FALSE /\ UNCHANGED <<linesLost, faults>>
  <2>1. /\ account_file' \in List /\ faults' \in 0..MAX_FAULTS /\ faults' >= faults
        /\ linesLost => faults > 0
    BY <1>1, <1>2 DEF SavedInv
  <2>2. unsaved' \in BOOLEAN /\ ~unsaved' /\ linesLost' = linesLost /\ faults' = faults
    BY <1>2
  <2> QED BY <1>1, <1>2, <2>1, <2>2
<1>3. CASE Fault /\ unsaved' = TRUE
  <2>1. faults' \in 0..MAX_FAULTS /\ faults' > 0 /\ faults' >= faults
    BY <1>1, <1>3 DEF Fault
  <2>2. CASE UNCHANGED <<account_file, linesLost>>
    BY <1>1, <1>3, <2>1, <2>2
  <2>3. CASE account_file' \in Cuts(user_list') /\ linesLost' = TRUE
    <3>1. account_file' \in List
      BY <2>3, CutEffect
    <3> QED BY <1>1, <1>3, <2>1, <2>3, <3>1
  <2> QED BY <1>2, <1>3, <2>2, <2>3 DEF SaveUsers
<1> QED BY <1>2, <1>3 DEF SaveUsers

(* The file cannot be read: the list is empty.                             *)
LEMMA LoadFailsEffect ==
    ASSUME TypeOK, LoadUsersFails
    PROVE  /\ user_list' \in List /\ account_file' \in List
           /\ unsaved' = TRUE /\ linesLost' = TRUE
           /\ faults' \in 0..MAX_FAULTS /\ faults' > 0
           /\ \A u \in Names : user_list'[u] = Absent
<1>1. account_file \in List /\ faults \in 0..MAX_FAULTS /\ MAX_FAULTS \in Nat
  BY BoundsAssumption DEF TypeOK, List
<1>2. faults' \in 0..MAX_FAULTS /\ faults' > 0
  BY <1>1 DEF LoadUsersFails, Fault
<1> QED BY <1>1, <1>2, EmptyFacts DEF LoadUsersFails, Empty

(* A history that was not written to its end.                              *)
LEMMA PrefixEffect ==
    ASSUME NEW S, NEW s \in Seq(S), NEW t \in Prefixes(s)
    PROVE  /\ t \in Seq(S) /\ Elements(t) \subseteq Elements(s)
           /\ Distinct(s) => Distinct(t)
<1>1. PICK n \in 0..Len(s) : t = SubSeq(s, 1, n)
  BY DEF Prefixes
<1>2. /\ Len(s) \in Nat /\ DOMAIN s = 1..Len(s) /\ 1..n \subseteq 1..Len(s)
      /\ 1 \in 1..(Len(s) + 1) /\ n \in (1 - 1)..Len(s) /\ (n - 1) + 1 = n
  BY LenProperties
<1>3. /\ t \in Seq(S) /\ DOMAIN t = 1..n
      /\ \A i \in 1..n : t[i] = s[i]
  BY <1>1, <1>2, ElementOfSeq, SubSeqProperties
<1> QED BY <1>2, <1>3 DEF Elements, Distinct

(* The accounts of l after auto_unlock_accounts.                           *)
LEMMA UnlockEffect ==
    ASSUME TypeOK, NEW l \in List, AutoUnlockOf(l)
    PROVE  /\ user_list' \in List
           /\ \A u \in Names :
                 /\ user_list'[u] = Absent <=> l[u] = Absent
                 /\ l[u] # Absent =>
                       /\ user_list'[u].role = l[u].role
                       /\ l[u].status = "active" => user_list'[u].status = "active"
                       /\ ~Due(l[u]) => user_list'[u] = l[u]
           /\ (\A u \in Names : ~Due(l[u])) => user_list' = l
<1>1. \A u \in Names : Due(l[u]) =>
         /\ Unlocked(l[u]) \in User /\ Unlocked(l[u]) # Absent
         /\ Unlocked(l[u]).role = l[u].role /\ Unlocked(l[u]).status = "active"
  <2> SUFFICES ASSUME NEW u \in Names, Due(l[u])
               PROVE  /\ Unlocked(l[u]) \in User /\ Unlocked(l[u]) # Absent
                      /\ Unlocked(l[u]).role = l[u].role /\ Unlocked(l[u]).status = "active"
    OBVIOUS
  <2>1. l[u] \in User
    BY DEF Due, List
  <2>2. /\ Unlocked(l[u]) \in User
        /\ Unlocked(l[u]).role = l[u].role /\ Unlocked(l[u]).status = "active"
    BY <2>1 DEF Unlocked, User
  <2> QED BY <2>2, NamesAssumption
<1>2. user_list' = [u \in Names |-> IF Due(l[u]) THEN Unlocked(l[u]) ELSE l[u]]
  BY DEF AutoUnlockOf
<1>3. \A u \in Names : user_list'[u] = IF Due(l[u]) THEN Unlocked(l[u]) ELSE l[u]
  BY <1>2
<1>4. user_list' \in List
  BY <1>1, <1>2 DEF List
<1>5. ASSUME NEW u \in Names
      PROVE  /\ user_list'[u] = Absent <=> l[u] = Absent
             /\ l[u] # Absent =>
                   /\ user_list'[u].role = l[u].role
                   /\ l[u].status = "active" => user_list'[u].status = "active"
                   /\ ~Due(l[u]) => user_list'[u] = l[u]
  BY <1>1, <1>3 DEF Due
<1>6. ASSUME \A u \in Names : ~Due(l[u]) PROVE user_list' = l
  BY <1>3, <1>4, <1>6 DEF List
<1> QED BY <1>4, <1>5, <1>6

(* ... and the file, which follows the list.                               *)
LEMMA AutoUnlockSaves ==
    ASSUME TypeOK, SavedInv, NEW l \in List, AutoUnlockOf(l),
           (~unsaved => l = account_file),
           ~linesLost => \A u \in Names :
               l[u] # Absent /\ l[u].role = "admin" => account_file[u] # Absent
    PROVE  /\ account_file' \in List /\ unsaved' \in BOOLEAN /\ linesLost' \in BOOLEAN
           /\ faults' \in 0..MAX_FAULTS /\ faults' >= faults
           /\ ~unsaved' => account_file' = user_list'
           /\ unsaved' \/ linesLost' => faults' > 0
           /\ linesLost => linesLost'
           /\ ~linesLost' => \A u \in Names :
                 user_list'[u] # Absent /\ user_list'[u].role = "admin" => account_file'[u] # Absent
<1>1. CASE \E u \in Names : Due(l[u])
  <2>1. user_list' \in List /\ SaveUsers
    BY <1>1, UnlockEffect DEF AutoUnlockOf
  <2> QED BY <2>1, SaveUsersEffect, UnlockEffect
<1>2. CASE \A u \in Names : ~Due(l[u])
  <2>1. user_list' = l /\ UNCHANGED <<account_file, unsaved, linesLost, faults>>
    BY <1>2, UnlockEffect DEF AutoUnlockOf
  <2>2. /\ account_file \in List /\ unsaved \in BOOLEAN /\ linesLost \in BOOLEAN
        /\ faults \in 0..MAX_FAULTS /\ MAX_FAULTS \in Nat
        /\ unsaved \/ linesLost => faults > 0
    BY BoundsAssumption DEF TypeOK, SavedInv, List
  <2> QED BY <2>1, <2>2
<1> QED BY <1>1, <1>2

(* load_history_from_file reverses: the same elements, each as often.      *)
LEMMA ReversedEffect ==
    ASSUME NEW S, NEW s \in Seq(S)
    PROVE  /\ Reversed(s) \in Seq(S)
           /\ Elements(Reversed(s)) = Elements(s)
           /\ Distinct(s) => Distinct(Reversed(s))
<1>1. Len(s) \in Nat /\ DOMAIN s = 1..Len(s) /\ \A i \in 1..Len(s) : s[i] \in S
  BY LenProperties, ElementOfSeq
<1>2. \A i \in 1..Len(s) : Len(s) + 1 - i \in 1..Len(s) /\ Len(s) + 1 - (Len(s) + 1 - i) = i
  BY <1>1
<1>3. /\ DOMAIN Reversed(s) = 1..Len(s)
      /\ \A i \in 1..Len(s) : Reversed(s)[i] = s[Len(s) + 1 - i]
  BY DEF Reversed
<1>4. Reversed(s) \in [1..Len(s) -> S]
  BY <1>1, <1>2 DEF Reversed
<1>5. Reversed(s) \in Seq(S)
  BY <1>1, <1>4, SeqDef
<1>6. Elements(Reversed(s)) = Elements(s)
  <2>1. \A i \in 1..Len(s) : s[i] = Reversed(s)[Len(s) + 1 - i]
    BY <1>2, <1>3
  <2> QED BY <1>1, <1>2, <1>3, <2>1 DEF Elements
<1>7. ASSUME Distinct(s) PROVE Distinct(Reversed(s))
  <2> SUFFICES ASSUME NEW i \in 1..Len(s), NEW j \in 1..Len(s),
                      Reversed(s)[i] = Reversed(s)[j]
               PROVE  i = j
    BY <1>3 DEF Distinct
  <2>1. s[Len(s) + 1 - i] = s[Len(s) + 1 - j]
    BY <1>3
  <2>2. Len(s) + 1 - i = Len(s) + 1 - j
    BY <1>1, <1>2, <1>7, <2>1 DEF Distinct
  <2> QED BY <1>1, <2>2
<1> QED BY <1>5, <1>6, <1>7

(* A new sign-in comes first.                                              *)
Prepended(e, s) == <<e>> \o s

LEMMA PrependEffect ==
    ASSUME NEW S, NEW s \in Seq(S), NEW e \in S
    PROVE  /\ Prepended(e, s) \in Seq(S)
           /\ \A x : x \in Elements(Prepended(e, s)) <=> x = e \/ x \in Elements(s)
           /\ Distinct(s) /\ e \notin Elements(s) => Distinct(Prepended(e, s))
<1> DEFINE t == Prepended(e, s)
<1>1. Len(s) \in Nat /\ DOMAIN s = 1..Len(s)
  BY LenProperties
<1>2. <<e>> \in Seq(S) /\ Len(<<e>>) = 1 /\ <<e>>[1] = e
  OBVIOUS
<1>3. /\ t \in Seq(S) /\ Len(t) = 1 + Len(s)
      /\ \A i \in 1..(1 + Len(s)) : t[i] = IF i <= 1 THEN <<e>>[i] ELSE s[i - 1]
  BY <1>2, ConcatProperties DEF Prepended
<1> HIDE DEF t
<1>4. /\ DOMAIN t = 1..(Len(s) + 1) /\ t[1] = e
      /\ \A i \in 2..(Len(s) + 1) : t[i] = s[i - 1]
  BY <1>1, <1>2, <1>3, LenProperties
<1>5. /\ \A i \in 1..(Len(s) + 1) : i = 1 \/ i \in 2..(Len(s) + 1)
      /\ \A i \in 2..(Len(s) + 1) : i - 1 \in 1..Len(s)
      /\ \A i \in 1..Len(s) : i + 1 \in 2..(Len(s) + 1) /\ (i + 1) - 1 = i
      /\ 1 \in 1..(Len(s) + 1) /\ \A i \in 2..(Len(s) + 1) : i \in 1..(Len(s) + 1)
  BY <1>1
<1>6. Elements(t) = Elements(s) \cup {e}
  <2>1. Elements(t) \subseteq Elements(s) \cup {e}
    <3> SUFFICES ASSUME NEW i \in 1..(Len(s) + 1) PROVE t[i] \in Elements(s) \cup {e}
      BY <1>4 DEF Elements
    <3> QED BY <1>1, <1>4, <1>5 DEF Elements
  <2>2. e \in Elements(t)
    BY <1>4, <1>5 DEF Elements
  <2>3. ASSUME NEW i \in 1..Len(s) PROVE s[i] \in Elements(t)
    <3>1. i + 1 \in DOMAIN t /\ t[i + 1] = s[i]
      BY <1>4, <1>5, <2>3
    <3> QED BY <3>1 DEF Elements
  <2> QED BY <1>1, <2>1, <2>2, <2>3 DEF Elements
<1>7. ASSUME Distinct(s), e \notin Elements(s) PROVE Distinct(t)
  <2>1. \A i \in 1..Len(s) : s[i] # e
    BY <1>1, <1>7 DEF Elements
  <2>2. \A i, j \in 2..(Len(s) + 1) : s[i - 1] = s[j - 1] => i = j
    <3>1. \A i, j \in 1..Len(s) : s[i] = s[j] => i = j
      BY <1>1, <1>7 DEF Distinct
    <3> QED BY <1>1, <1>5, <3>1
  <2> QED BY <1>4, <1>5, <2>1, <2>2 DEF Distinct
<1> QED BY <1>3, <1>6, <1>7 DEF t

----
(* A choice of the menu that changes one account and saves.                *)
LEMMA OneChanged ==
    ASSUME UsersInv, AtMenu, user_list' \in List, SaveUsers, UsersOnly, UNCHANGED current_user,
           \A u \in Names : user_list'[u] # Absent /\ user_list'[u].role = "admin" =>
               Listed(u) /\ user_list[u].role = "admin",
           current_user # None /\ ~linesLost =>
               /\ user_list'[current_user] # Absent
               /\ user_list'[current_user].status = user_list[current_user].status
    PROVE  UsersInv'
<1>1. /\ account_file' \in List /\ unsaved' \in BOOLEAN /\ linesLost' \in BOOLEAN
      /\ faults' \in 0..MAX_FAULTS /\ faults' >= faults
      /\ ~unsaved' => account_file' = user_list'
      /\ unsaved' \/ linesLost' => faults' > 0
      /\ linesLost => linesLost'
      /\ ~linesLost' => \A u \in Names : account_file'[u] # Absent \/
            (user_list'[u] = Absent \/ account_file[u] = Absent)
  BY SaveUsersEffect DEF UsersInv
<1>2. /\ pc' = "menu" /\ pc = "menu" /\ current_user' = current_user
      /\ UNCHANGED <<user, attempts, history_list, history_file, histUnsaved, logins, gone, now>>
  BY DEF AtMenu, UsersOnly, signins
<1>3. TypeOK'
  BY <1>1, <1>2 DEF UsersInv, TypeOK, List
<1>4. PromptInv' /\ RecordsMade'
  BY <1>2 DEF UsersInv, PromptInv, RecordsMade
<1>5. SavedInv'
  BY <1>1, <1>2 DEF UsersInv, SavedInv, Listed
<1>6. CurrentUserListed'
  <2>1. faults \in Nat /\ faults' \in Nat
    BY <1>1, BoundsAssumption DEF UsersInv, TypeOK
  <2> QED BY <1>1, <1>2, <2>1 DEF UsersInv, CurrentUserListed, Listed
<1> QED BY <1>3, <1>4, <1>5, <1>6 DEF UsersInv

(* The program ended and its memory is gone.                               *)
LEMMA Ended ==
    ASSUME UsersInv, Ends, account_file' \in List, faults' \in 0..MAX_FAULTS,
           history_file' \in Seq(1..MAX_LOGINS), Elements(history_file') \subseteq 1..logins,
           gone' \subseteq 1..logins
    PROVE  UsersInv'
<1>1. /\ pc' = "off" /\ user_list' = Empty /\ history_list' = <<>>
      /\ current_user' = None /\ user' = None /\ attempts' = 0
      /\ unsaved' = FALSE /\ linesLost' = FALSE /\ histUnsaved' = FALSE
      /\ now' = now /\ logins' = logins
  BY DEF Ends
<1>2. 0 \in 0..(MAX_LOGIN_ATTEMPTS - 1) /\ now \in Nat /\ logins \in 0..MAX_LOGINS
  BY BoundsAssumption DEF UsersInv, TypeOK
<1>3. TypeOK'
  BY <1>1, <1>2, EmptyFacts DEF TypeOK, List
<1>4. PromptInv' /\ RecordsMade' /\ CurrentUserListed'
  BY <1>1, EmptyFacts DEF PromptInv, RecordsMade, CurrentUserListed
<1>5. \A u \in Names : user_list'[u] = Absent
  BY <1>1 DEF Empty
<1>6. SavedInv'
  BY <1>1, <1>5 DEF SavedInv, Listed
<1> QED BY <1>3, <1>4, <1>6 DEF UsersInv

(* Sign-ins that are given up were made.                                   *)
LEMMA LostWereMade ==
    ASSUME UsersInv
    PROVE  Lost \subseteq 1..logins
BY DEF Lost, UsersInv, TypeOK, RecordsMade, Elements

LEMMA UsersInductive == Spec => []UsersInv
<1>1. Init => UsersInv
  <2> SUFFICES ASSUME Init PROVE UsersInv
    OBVIOUS
  <2>1. /\ 0 \in 0..(MAX_LOGIN_ATTEMPTS - 1) /\ 0 \in 0..MAX_LOGINS
        /\ 0 \in 0..MAX_FAULTS /\ 1 \in Nat
    BY BoundsAssumption
  <2>2. TypeOK
    BY <2>1, EmptyFacts, InitFileAssumption DEF Init, TypeOK, List
  <2>3. RecordsMade
    BY EmptyFacts DEF Init, RecordsMade
  <2> QED
    BY <2>2, <2>3 DEF Init, UsersInv, PromptInv, SavedInv, CurrentUserListed, Listed, Empty
<1>2. UsersInv /\ [Next]_vars => UsersInv'
  <2> SUFFICES ASSUME UsersInv, [Next]_vars PROVE UsersInv'
    OBVIOUS
  <2>0. /\ user_list \in List /\ account_file \in List
        /\ faults \in 0..MAX_FAULTS /\ faults \in Nat /\ MAX_FAULTS \in Nat
        /\ \A u \in Names : Listed(u) => user_list[u] \in User
    BY BoundsAssumption DEF UsersInv, TypeOK, List, Listed
  <2>1. ASSUME Start PROVE UsersInv'
    <3>1. /\ AutoUnlockOf(account_file) \/ LoadUsersFails
          /\ ~unsaved /\ ~linesLost
      BY <2>0, <2>1 DEF Start, LoadUsers, UsersInv, SavedInv
    <3>2. /\ user_list' \in List
          /\ account_file' \in List /\ unsaved' \in BOOLEAN /\ linesLost' \in BOOLEAN
          /\ faults' \in 0..MAX_FAULTS
          /\ ~unsaved' => account_file' = user_list'
          /\ unsaved' \/ linesLost' => faults' > 0
          /\ ~linesLost' => \A u \in Names :
                user_list'[u] # Absent /\ user_list'[u].role = "admin" => account_file'[u] # Absent
      <4>1. CASE AutoUnlockOf(account_file)
        BY <2>0, <3>1, <4>1, AutoUnlockSaves, UnlockEffect DEF UsersInv
      <4>2. CASE LoadUsersFails
        BY <4>2, LoadFailsEffect DEF UsersInv
      <4> QED BY <3>1, <4>1, <4>2
    <3>3. /\ pc' = "menu" /\ pc = "off" /\ current_user' = None
          /\ history_list' = Reversed(history_file)
          /\ UNCHANGED <<user, attempts, history_file, histUnsaved, logins, gone, now>>
      BY <2>1 DEF Start
    <3>4. /\ history_list' \in Seq(1..MAX_LOGINS)
          /\ Elements(history_list') = Elements(history_file)
      BY <3>3, ReversedEffect DEF UsersInv, TypeOK
    <3>5. TypeOK'
      BY <3>2, <3>3, <3>4 DEF UsersInv, TypeOK, List
    <3>6. PromptInv' /\ CurrentUserListed' /\ RecordsMade'
      BY <3>3, <3>4 DEF PromptInv, CurrentUserListed, RecordsMade, UsersInv
    <3>7. SavedInv'
      BY <3>2, <3>3 DEF SavedInv, Listed
    <3> QED BY <3>5, <3>6, <3>7 DEF UsersInv
  <2>2. ASSUME NEW u \in Names, NEW p \in Passwords, RegisterUser(u, p) PROVE UsersInv'
    <3> DEFINE new == [pass |-> p, status |-> "active", role |-> "user", lock_time |-> 0]
    <3>1. new \in User /\ new.role = "user"
      BY DEF User
    <3>2. /\ AtMenu /\ ~Listed(u) /\ user_list' = [user_list EXCEPT ![u] = new]
          /\ SaveUsers /\ UsersOnly /\ UNCHANGED current_user
      BY <2>2 DEF RegisterUser
    <3> HIDE DEF new
    <3>3. user_list' \in List
      BY <2>0, <3>1, <3>2 DEF List
    <3>4. \A v \in Names : user_list'[v] # Absent /\ user_list'[v].role = "admin" =>
             Listed(v) /\ user_list[v].role = "admin"
      BY <2>0, <3>1, <3>2 DEF Listed, List
    <3>5. current_user # None /\ ~linesLost =>
             /\ user_list'[current_user] # Absent
             /\ user_list'[current_user].status = user_list[current_user].status
      BY <2>0, <3>2 DEF UsersInv, CurrentUserListed, Listed, List
    <3> QED BY <3>2, <3>3, <3>4, <3>5, OneChanged
  <2>3. ASSUME NEW u \in Names, NEW p \in Passwords, AtMenu, Listed(u), SetPassword(u, p)
        PROVE  UsersInv'
    <3> DEFINE new == [user_list[u] EXCEPT !.pass = p]
    <3>1. /\ new \in User /\ new.role = user_list[u].role
          /\ new.status = user_list[u].status
      BY <2>0, <2>3 DEF User
    <3>2. /\ user_list' = [user_list EXCEPT ![u] = new]
          /\ SaveUsers /\ UsersOnly /\ UNCHANGED current_user
      BY <2>3 DEF SetPassword
    <3> HIDE DEF new
    <3>3. user_list' \in List /\ new # Absent
      BY <2>0, <3>1, <3>2, NamesAssumption DEF List
    <3>4. \A v \in Names : user_list'[v] # Absent /\ user_list'[v].role = "admin" =>
             Listed(v) /\ user_list[v].role = "admin"
      BY <2>0, <2>3, <3>1, <3>2 DEF Listed, List
    <3>5. current_user # None /\ ~linesLost =>
             /\ user_list'[current_user] # Absent
             /\ user_list'[current_user].status = user_list[current_user].status
      BY <2>0, <3>1, <3>2, <3>3 DEF UsersInv, CurrentUserListed, Listed, List
    <3> QED BY <2>3, <3>2, <3>3, <3>4, <3>5, OneChanged
  <2>4. ASSUME NEW u \in Names, SignIn(u) PROVE UsersInv'
    <3>1. /\ pc = "menu" /\ pc' = "password" /\ user' = u /\ attempts' = 0
          /\ current_user = None /\ current_user' = None /\ Listed(u)
          /\ UNCHANGED <<history_list, history_file, histUnsaved, logins, gone, now>>
      BY <2>4 DEF SignIn, signins
    <3>2. 0 \in 0..(MAX_LOGIN_ATTEMPTS - 1)
      BY BoundsAssumption
    <3>3. CASE user_list[u].status = "active" /\ UNCHANGED <<accounts, faults>>
      <4>1. TypeOK'
        BY <3>1, <3>2, <3>3 DEF UsersInv, TypeOK, Listed, accounts
      <4> QED BY <3>1, <3>3, <4>1 DEF accounts, UsersInv, PromptInv, SavedInv, CurrentUserListed, RecordsMade, Listed
    <3>4. CASE /\ Due(user_list[u]) /\ SaveUsers
               /\ user_list' = [user_list EXCEPT ![u] = Unlocked(@)]
      <4> DEFINE new == Unlocked(user_list[u])
      <4>1. new \in User /\ new.role = user_list[u].role /\ new.status = "active"
        BY <2>0, <3>1 DEF Unlocked, User
      <4>2. user_list' = [user_list EXCEPT ![u] = new]
        BY <3>4
      <4> HIDE DEF new
      <4>3. user_list' \in List /\ new # Absent /\ user_list'[u] = new
        BY <2>0, <4>1, <4>2, NamesAssumption DEF List
      <4>4. /\ account_file' \in List /\ unsaved' \in BOOLEAN /\ linesLost' \in BOOLEAN
            /\ faults' \in 0..MAX_FAULTS /\ faults' >= faults
            /\ ~unsaved' => account_file' = user_list'
            /\ unsaved' \/ linesLost' => faults' > 0
            /\ linesLost => linesLost'
            /\ ~linesLost' => \A v \in Names : account_file'[v] # Absent \/
                  (user_list'[v] = Absent \/ account_file[v] = Absent)
        BY <3>4, <4>3, SaveUsersEffect DEF UsersInv
      <4>5. TypeOK'
        BY <3>1, <3>2, <4>3, <4>4 DEF UsersInv, TypeOK, List, Listed
      <4>6. SavedInv'
        <5>1. \A v \in Names : user_list'[v] # Absent /\ user_list'[v].role = "admin" =>
                 Listed(v) /\ user_list[v].role = "admin"
          BY <2>0, <3>1, <4>1, <4>2 DEF Listed, List
        <5> QED BY <3>1, <4>4, <5>1 DEF UsersInv, SavedInv, Listed
      <4>7. PromptInv' /\ CurrentUserListed' /\ RecordsMade'
        BY <3>1, <4>1, <4>3 DEF UsersInv, PromptInv, CurrentUserListed, RecordsMade
      <4> QED BY <4>5, <4>6, <4>7 DEF UsersInv
    <3> QED BY <2>4, <3>3, <3>4 DEF SignIn
  <2>5. ASSUME NEW p \in Passwords, RightPassword(p) PROVE UsersInv'
    <3>1. /\ pc = "password" /\ pc' = "menu" /\ current_user' = user /\ user' = None
          /\ attempts' = 0 /\ logins < MAX_LOGINS /\ logins' = logins + 1
          /\ history_list' = <<logins + 1>> \o history_list
          /\ SaveHistory
          /\ UNCHANGED <<user_list, account_file, unsaved, linesLost, gone, now>>
      BY <2>5 DEF RightPassword, accounts
    <3>2. /\ logins \in 0..MAX_LOGINS /\ logins + 1 \in 1..MAX_LOGINS
          /\ logins' \in 0..MAX_LOGINS /\ 1..logins \subseteq 1..logins'
          /\ logins + 1 \in 1..logins'
          /\ 0 \in 0..(MAX_LOGIN_ATTEMPTS - 1)
      BY <3>1, BoundsAssumption DEF UsersInv, TypeOK
    <3>3. /\ history_list' \in Seq(1..MAX_LOGINS)
          /\ \A x : x \in Elements(history_list') <=> x = logins + 1 \/ x \in Elements(history_list)
      <4>1. history_list \in Seq(1..MAX_LOGINS)
        BY DEF UsersInv, TypeOK
      <4>2. history_list' = Prepended(logins + 1, history_list)
        BY <3>1 DEF Prepended
      <4> QED BY <3>2, <4>1, <4>2, PrependEffect
    <3>4. /\ history_file' \in Seq(1..MAX_LOGINS) /\ histUnsaved' \in BOOLEAN
          /\ faults' \in 0..MAX_FAULTS /\ faults' >= faults
          /\ Elements(history_file') \subseteq Elements(history_file) \cup Elements(history_list')
      <4>1. CASE /\ history_file' = history_list' /\ histUnsaved' = FALSE
                 /\ faults' = faults
        <5>1. faults' \in 0..MAX_FAULTS /\ faults' >= faults
          BY <2>0, <4>1
        <5> QED BY <3>3, <4>1, <5>1
      <4>2. CASE /\ Fault /\ histUnsaved' = TRUE
                 /\ history_file' \in {history_file} \cup Prefixes(history_list')
        <5>1. faults' \in 0..MAX_FAULTS /\ faults' >= faults
          BY <2>0, <4>2 DEF Fault
        <5>2. /\ history_file' \in Seq(1..MAX_LOGINS)
              /\ Elements(history_file') \subseteq Elements(history_file) \cup Elements(history_list')
          BY <3>3, <4>2, PrefixEffect DEF UsersInv, TypeOK
        <5> QED BY <4>2, <5>1, <5>2
      <4> QED BY <3>1, <4>1, <4>2 DEF SaveHistory
    <3>5. TypeOK'
      BY <3>1, <3>2, <3>3, <3>4 DEF UsersInv, TypeOK
    <3>6. RecordsMade'
      BY <3>1, <3>2, <3>3, <3>4 DEF UsersInv, RecordsMade
    <3>7. PromptInv' /\ SavedInv'
      BY <2>0, <3>1, <3>4 DEF UsersInv, PromptInv, SavedInv, Listed
    <3>8. CurrentUserListed'
      BY <3>1 DEF UsersInv, TypeOK, PromptInv, CurrentUserListed, Listed
    <3> QED BY <3>5, <3>6, <3>7, <3>8 DEF UsersInv
  <2>6. ASSUME NEW p \in Passwords, WrongPassword(p) PROVE UsersInv'
    <3>1. /\ pc = "password" /\ attempts' = attempts + 1
          /\ attempts + 1 < MAX_LOGIN_ATTEMPTS
          /\ UNCHANGED <<pc, user, current_user, user_list, account_file, unsaved, linesLost,
                         history_list, history_file, histUnsaved, logins, gone, now, faults>>
      BY <2>6 DEF WrongPassword, accounts, signins
    <3>2. attempts' \in 0..(MAX_LOGIN_ATTEMPTS - 1)
      BY <3>1, BoundsAssumption DEF UsersInv, TypeOK
    <3>3. TypeOK'
      BY <3>1, <3>2 DEF UsersInv, TypeOK, Listed
    <3> QED BY <3>1, <3>3 DEF UsersInv, PromptInv, SavedInv, RecordsMade, CurrentUserListed, Listed
  <2>7. ASSUME NEW p \in Passwords, LockAccount(p) PROVE UsersInv'
    <3> DEFINE new == [user_list[user] EXCEPT !.status = "blocked", !.lock_time = now]
    <3>1. /\ pc = "password" /\ pc' = "menu" /\ user' = None /\ attempts' = 0
          /\ current_user = None /\ current_user' = None
          /\ user \in Names /\ Listed(user)
          /\ SaveUsers
          /\ UNCHANGED <<history_list, history_file, histUnsaved, logins, gone, now>>
      BY <2>7 DEF LockAccount, signins, UsersInv, TypeOK, PromptInv
    <3>2. new \in User /\ new.role = user_list[user].role
      <4>1. user_list[user] \in User /\ now \in Nat
        BY <2>0, <3>1 DEF UsersInv, TypeOK
      <4> QED BY <4>1 DEF User
    <3>3. user_list' = [user_list EXCEPT ![user] = new]
      <4>1. user_list' = [user_list EXCEPT ![user].status = "blocked", ![user].lock_time = now]
        BY <2>7 DEF LockAccount
      <4>2. user_list \in [Names -> User \cup {Absent}] /\ user_list[user] \in User
        BY <2>0, <3>1 DEF List
      <4> QED BY <3>1, <4>1, <4>2 DEF User
    <3> HIDE DEF new
    <3>4. user_list' \in List
      BY <2>0, <3>1, <3>2, <3>3 DEF List
    <3>5. \A v \in Names : user_list'[v] # Absent /\ user_list'[v].role = "admin" =>
             Listed(v) /\ user_list[v].role = "admin"
      BY <2>0, <3>1, <3>2, <3>3 DEF Listed, List
    <3>6. /\ account_file' \in List /\ unsaved' \in BOOLEAN /\ linesLost' \in BOOLEAN
          /\ faults' \in 0..MAX_FAULTS /\ faults' >= faults
          /\ ~unsaved' => account_file' = user_list'
          /\ unsaved' \/ linesLost' => faults' > 0
          /\ linesLost => linesLost'
          /\ ~linesLost' => \A v \in Names : account_file'[v] # Absent \/
                (user_list'[v] = Absent \/ account_file[v] = Absent)
      BY <3>1, <3>4, SaveUsersEffect DEF UsersInv
    <3>7. 0 \in 0..(MAX_LOGIN_ATTEMPTS - 1)
      BY BoundsAssumption
    <3>8. TypeOK'
      BY <3>1, <3>4, <3>6, <3>7 DEF UsersInv, TypeOK, List
    <3>9. PromptInv' /\ RecordsMade' /\ CurrentUserListed'
      BY <3>1 DEF UsersInv, PromptInv, RecordsMade, CurrentUserListed
    <3>10. SavedInv'
      BY <3>1, <3>5, <3>6 DEF UsersInv, SavedInv, Listed
    <3> QED BY <3>8, <3>9, <3>10 DEF UsersInv
  <2>8. ASSUME UpdateAccountInfo PROVE UsersInv'
    <3>1. /\ AtMenu /\ user_list' = user_list /\ SaveUsers /\ UsersOnly /\ UNCHANGED current_user
      BY <2>8 DEF UpdateAccountInfo, LoggedIn
    <3> QED BY <2>0, <3>1, OneChanged DEF UsersInv, CurrentUserListed, Listed
  <2>9. ASSUME AutoUnlock PROVE UsersInv'
    <3>1. /\ pc = "menu" /\ pc' = "menu" /\ current_user' = current_user
          /\ UNCHANGED <<user, attempts, history_list, history_file, histUnsaved, logins, gone, now>>
          /\ AutoUnlockOf(user_list)
      BY <2>9 DEF AutoUnlock, AtMenu, UsersOnly, signins
    <3>2. /\ ~unsaved => user_list = account_file
          /\ ~linesLost => \A u \in Names :
                user_list[u] # Absent /\ user_list[u].role = "admin" => account_file[u] # Absent
      BY <3>1 DEF UsersInv, SavedInv, Listed
    <3>3. /\ user_list' \in List
          /\ \A u \in Names :
                /\ user_list'[u] = Absent <=> user_list[u] = Absent
                /\ user_list[u] # Absent =>
                      /\ user_list'[u].role = user_list[u].role
                      /\ user_list[u].status = "active" => user_list'[u].status = "active"
                      /\ ~Due(user_list[u]) => user_list'[u] = user_list[u]
      BY <2>0, <3>1, UnlockEffect DEF UsersInv
    <3>4. /\ account_file' \in List /\ unsaved' \in BOOLEAN /\ linesLost' \in BOOLEAN
          /\ faults' \in 0..MAX_FAULTS /\ faults' >= faults
          /\ ~unsaved' => account_file' = user_list'
          /\ unsaved' \/ linesLost' => faults' > 0
          /\ linesLost => linesLost'
          /\ ~linesLost' => \A u \in Names :
                user_list'[u] # Absent /\ user_list'[u].role = "admin" => account_file'[u] # Absent
      BY <2>0, <3>1, <3>2, AutoUnlockSaves DEF UsersInv
    <3>5. TypeOK'
      BY <3>1, <3>3, <3>4 DEF UsersInv, TypeOK, List
    <3>6. PromptInv' /\ RecordsMade' /\ SavedInv'
      BY <3>1, <3>4 DEF UsersInv, PromptInv, RecordsMade, SavedInv, Listed
    <3>7. CurrentUserListed'
      BY <2>0, <3>1, <3>3, <3>4 DEF UsersInv, CurrentUserListed, Listed
    <3> QED BY <3>5, <3>6, <3>7 DEF UsersInv
  <2>10. ASSUME SignOut PROVE UsersInv'
    <3>1. /\ pc = "menu" /\ pc' = pc /\ current_user' = None
          /\ UNCHANGED <<user, attempts, user_list, account_file, unsaved, linesLost, history_list,
                         history_file, histUnsaved, logins, gone, now, faults>>
      BY <2>10 DEF SignOut, AtMenu, UsersOnly, signins, accounts
    <3>2. TypeOK'
      BY <3>1 DEF UsersInv, TypeOK, Listed
    <3> QED BY <3>1, <3>2 DEF UsersInv, PromptInv, SavedInv, RecordsMade, CurrentUserListed, Listed
  <2>11. ASSUME ViewAccounts PROVE UsersInv'
    <3>1. /\ pc = "menu" /\ pc' = pc /\ Reload
          /\ current_user # None
          /\ current_user # Dangling => user_list[current_user].role = "admin"
          /\ current_user' \in Names => user_list'[current_user'] # Absent
          /\ current_user' \in Names \cup {Dangling}
          /\ UNCHANGED <<user, attempts, history_list, history_file, histUnsaved, logins, gone, now>>
      BY <2>11, NamesAssumption DEF ViewAccounts, Admin, LoggedIn, AtMenu, UsersOnly, signins
    <3>2. CASE LoadUsersFails
      <4>1. /\ user_list' \in List /\ account_file' \in List
            /\ unsaved' = TRUE /\ linesLost' = TRUE
            /\ faults' \in 0..MAX_FAULTS /\ faults' > 0
        BY <3>2, LoadFailsEffect DEF UsersInv
      <4>2. TypeOK'
        BY <3>1, <4>1 DEF UsersInv, TypeOK, List
      <4> QED BY <3>1, <4>1, <4>2 DEF UsersInv, PromptInv, RecordsMade, SavedInv, CurrentUserListed
    <3>3. CASE /\ user_list' = account_file /\ unsaved' = FALSE
               /\ UNCHANGED <<account_file, linesLost, faults>>
      <4>1. TypeOK'
        BY <2>0, <3>1, <3>3 DEF UsersInv, TypeOK, List
      <4>2. PromptInv' /\ RecordsMade' /\ SavedInv'
        BY <3>1, <3>3 DEF UsersInv, PromptInv, RecordsMade, SavedInv, Listed
      <4>3. ASSUME ~linesLost
            PROVE  /\ current_user \in Names /\ current_user' = current_user
                   /\ account_file[current_user] # Absent
        <5>1. current_user \in Names /\ Listed(current_user) /\ current_user # Dangling
          BY <3>1, <4>3, NamesAssumption DEF UsersInv, CurrentUserListed
        <5>2. account_file[current_user] # Absent
          BY <3>1, <4>3, <5>1 DEF UsersInv, SavedInv
        <5> QED BY <2>11, <3>3, <5>1, <5>2 DEF ViewAccounts
      <4>4. CurrentUserListed'
        <5> SUFFICES ASSUME ~linesLost PROVE CurrentUserListed'
          BY <3>3 DEF CurrentUserListed
        <5>1. CASE unsaved
          BY <3>3, <4>3, <5>1 DEF UsersInv, SavedInv, CurrentUserListed, Listed
        <5>2. CASE ~unsaved
          BY <3>1, <3>3, <4>3, <5>2 DEF UsersInv, SavedInv, CurrentUserListed, Listed
        <5> QED BY <5>1, <5>2
      <4> QED BY <4>1, <4>2, <4>4 DEF UsersInv
    <3> QED BY <3>1, <3>2, <3>3 DEF Reload, LoadUsers
  <2>12. ASSUME NEW u \in Names, DeleteAccount(u) PROVE UsersInv'
    <3>1. /\ AtMenu /\ u # current_user /\ user_list' = [user_list EXCEPT ![u] = Absent]
          /\ SaveUsers /\ UsersOnly /\ UNCHANGED current_user
      BY <2>12 DEF DeleteAccount, Admin, LoggedIn
    <3>2. user_list' \in List
      BY <2>0, <3>1 DEF List
    <3>3. \A v \in Names : user_list'[v] # Absent /\ user_list'[v].role = "admin" =>
             Listed(v) /\ user_list[v].role = "admin"
      BY <2>0, <3>1 DEF Listed, List
    <3>4. current_user # None /\ ~linesLost =>
             /\ user_list'[current_user] # Absent
             /\ user_list'[current_user].status = user_list[current_user].status
      BY <2>0, <3>1 DEF UsersInv, CurrentUserListed, Listed, List
    <3> QED BY <3>1, <3>2, <3>3, <3>4, OneChanged
  <2>13. ASSUME Quit \/ Die PROVE UsersInv'
    <3>1. /\ Lost \subseteq 1..logins
          /\ history_list \in Seq(1..MAX_LOGINS) /\ history_file \in Seq(1..MAX_LOGINS)
          /\ Elements(history_list) \subseteq 1..logins
          /\ Elements(history_file) \subseteq 1..logins
      BY LostWereMade DEF UsersInv, TypeOK, RecordsMade
    <3>2. Ends /\ gone' = Lost
      BY <2>13 DEF Quit, Die
    <3>3. faults' \in 0..MAX_FAULTS
      BY <2>0, <2>13 DEF Quit, Die, Fault
    <3>4. account_file' \in List
      BY <2>0, <2>13, CutEffect DEF Quit, Die
    <3>5. history_file' \in Seq(1..MAX_LOGINS) /\ Elements(history_file') \subseteq 1..logins
      <4>1. history_file' \in {history_file, history_list} \cup Prefixes(history_list)
        BY <2>13 DEF Quit, Die
      <4> QED BY <3>1, <4>1, PrefixEffect
    <3> QED BY <3>1, <3>2, <3>3, <3>4, <3>5, Ended
  <2>14. ASSUME Tick PROVE UsersInv'
    <3>1. /\ now' = now + 1
          /\ UNCHANGED <<pc, user_list, history_list, current_user, user, attempts, account_file,
                         history_file, logins, gone, unsaved, linesLost, histUnsaved, faults>>
      BY <2>14 DEF Tick, memory
    <3>2. TypeOK'
      BY <3>1 DEF UsersInv, TypeOK, Listed
    <3> QED BY <3>1, <3>2 DEF UsersInv, PromptInv, SavedInv, RecordsMade, CurrentUserListed, Listed
  <2>15. ASSUME UNCHANGED vars PROVE UsersInv'
    <3>1. UNCHANGED <<pc, user_list, history_list, current_user, user, attempts, account_file,
                      history_file, now, logins, gone, unsaved, linesLost, histUnsaved, faults>>
      BY <2>15 DEF vars, memory
    <3>2. TypeOK'
      BY <3>1 DEF UsersInv, TypeOK, Listed
    <3> QED BY <3>1, <3>2 DEF UsersInv, PromptInv, SavedInv, RecordsMade, CurrentUserListed, Listed
  <2>16. ASSUME Menu PROVE UsersInv'
    BY <2>2, <2>3, <2>4, <2>8, <2>9, <2>10, <2>11, <2>12, <2>13, <2>16
       DEF Menu, ResetPassword, AdminResetPassword, ChangePassword, Is, Admin, LoggedIn
  <2>17. ASSUME NEW u \in Names, OtherInstance(u) PROVE UsersInv'
    <3>1. /\ pc' = pc /\ pc # "off"
          /\ UNCHANGED <<user_list, history_list, current_user, user, attempts,
                         history_file, histUnsaved, logins, gone, now>>
          /\ account_file' = [account_file EXCEPT ![u] = Absent]
          /\ unsaved' = TRUE /\ linesLost' = TRUE
      BY <2>17 DEF OtherInstance, memory, signins
    <3>2. faults' \in 0..MAX_FAULTS /\ faults' > 0
      BY <2>0, <2>17 DEF OtherInstance, Fault
    <3>3. account_file' \in List
      BY <2>0, <3>1 DEF List
    <3>4. TypeOK'
      BY <3>1, <3>2, <3>3 DEF UsersInv, TypeOK, List, Listed
    <3> QED BY <3>1, <3>2, <3>4 DEF UsersInv, PromptInv, RecordsMade, SavedInv, CurrentUserListed
  <2> QED
    BY <2>1, <2>5, <2>6, <2>7, <2>13, <2>14, <2>15, <2>16, <2>17 DEF Next, Prompt
<1> QED BY <1>1, <1>2, PTL DEF Spec

(* The lists, the files and the locals of sign_in keep their types.        *)
THEOREM TypeCorrect == Spec => []TypeOK
<1>1. UsersInv => TypeOK
  BY DEF UsersInv
<1> QED BY <1>1, UsersInductive, PTL

(* current_user never dangles, whatever deletions, reloads, saves that     *)
(* could not open the file and deaths there were, until lines are lost.    *)
THEOREM CurrentUserIsListed == Spec => []CurrentUserListed
<1>1. UsersInv => CurrentUserListed
  BY DEF UsersInv
<1> QED BY <1>1, UsersInductive, PTL

----
(* What a step may do to an account that is blocked in the file: nothing,  *)
(* unless a save failed before or its lock has run out.                    *)
LockEnds(u) ==
    ( /\ account_file[u] # Absent /\ account_file[u].status = "blocked"
      /\ account_file'[u] # Absent /\ account_file'[u].status = "active" )
    => \/ unsaved
       \/ /\ account_file[u].lock_time > 0
          /\ now - account_file[u].lock_time >= UNLOCK_TIME

LEMMA SaveKeepsLocks ==
    ASSUME UsersInv, pc # "off", SaveUsers, user_list' \in List,
           NEW u \in Names,
           \/ user_list'[u] = user_list[u]
           \/ user_list'[u] = Absent
           \/ ~Listed(u)
           \/ Listed(u) /\ user_list'[u].status = user_list[u].status
           \/ user_list'[u].status = "blocked"
           \/ Due(user_list[u])
    PROVE  LockEnds(u)
<1>1. CASE account_file' = account_file
  BY <1>1 DEF LockEnds
<1>2. CASE account_file' = user_list'
  BY <1>2 DEF UsersInv, SavedInv, LockEnds, Listed, Due
<1>3. CASE account_file' \in Cuts(user_list')
  <2>1. account_file'[u] # Absent =>
           user_list'[u] # Absent /\ account_file'[u].status = user_list'[u].status
    BY <1>3, CutEffect
  <2> QED BY <2>1 DEF UsersInv, SavedInv, LockEnds, Listed, Due
<1> QED BY <1>1, <1>2, <1>3 DEF SaveUsers

LEMMA UnlockKeepsLocks ==
    ASSUME UsersInv, NEW l \in List, AutoUnlockOf(l), ~unsaved => l = account_file,
           NEW u \in Names
    PROVE  LockEnds(u)
<1>1. user_list'[u] = IF Due(l[u]) THEN Unlocked(l[u]) ELSE l[u]
  BY DEF AutoUnlockOf
<1>2. \/ account_file' = account_file
      \/ /\ account_file'[u] # Absent
         => user_list'[u] # Absent /\ account_file'[u].status = user_list'[u].status
  <2>1. user_list' \in List
    BY UnlockEffect DEF UsersInv
  <2>2. account_file' = account_file \/ account_file' = user_list' \/ account_file' \in Cuts(user_list')
    BY DEF AutoUnlockOf, SaveUsers
  <2> QED BY <2>1, <2>2, CutEffect
<1> QED BY <1>1, <1>2 DEF LockEnds, Due

(* A lock in the file ends when its time is over and not before, and one   *)
(* without a time never.                                                   *)
THEOREM LocksLast == Spec => UnlocksOnlyInTime
<1> DEFINE Last == \A u \in Names : LockEnds(u)
<1>1. UsersInv /\ UsersInv' /\ [Next]_vars => [Last]_vars
  <2> SUFFICES ASSUME UsersInv, UsersInv', Next, NEW u \in Names PROVE LockEnds(u)
    OBVIOUS
  <2>0. user_list \in List /\ account_file \in List /\ user_list' \in List
    BY DEF UsersInv, TypeOK, List
  <2>1. CASE account_file' = account_file
    BY <2>1 DEF LockEnds
  <2>2. CASE pc # "off" /\ account_file' \in {user_list} \cup Cuts(user_list)
    <3>1. account_file'[u] # Absent =>
             user_list[u] # Absent /\ account_file'[u].status = user_list[u].status
      BY <2>0, <2>2, CutEffect
    <3> QED BY <2>2, <3>1 DEF LockEnds, UsersInv, SavedInv
  <2>3. CASE Start
    BY <2>0, <2>1, <2>3, UnlockKeepsLocks DEF Start, LoadUsers, LoadUsersFails
  <2>4. CASE AutoUnlock
    BY <2>0, <2>4, UnlockKeepsLocks DEF AutoUnlock, AtMenu, UsersInv, SavedInv
  <2>5. ASSUME NEW v \in Names, NEW p \in Passwords, RegisterUser(v, p) PROVE LockEnds(u)
    <3>1. user_list'[u] = user_list[u] \/ ~Listed(u)
      BY <2>0, <2>5 DEF RegisterUser, List
    <3> QED BY <2>0, <2>5, <3>1, SaveKeepsLocks DEF RegisterUser, AtMenu
  <2>6. ASSUME NEW v \in Names, NEW p \in Passwords, AtMenu, Listed(v), SetPassword(v, p)
        PROVE  LockEnds(u)
    <3>1. user_list[v] \in User
      BY <2>0, <2>6 DEF List, Listed
    <3>2. user_list'[u] = IF u = v THEN [user_list[v] EXCEPT !.pass = p] ELSE user_list[u]
      BY <2>0, <2>6 DEF SetPassword, List
    <3>3. user_list'[u] = user_list[u] \/ (Listed(u) /\ user_list'[u].status = user_list[u].status)
      BY <2>6, <3>1, <3>2 DEF User
    <3> QED BY <2>0, <2>6, <3>3, SaveKeepsLocks DEF SetPassword, AtMenu
  <2>7. ASSUME NEW v \in Names, SignIn(v) PROVE LockEnds(u)
    <3>1. CASE UNCHANGED accounts
      BY <3>1, <2>1 DEF accounts
    <3>2. CASE SaveUsers /\ Due(user_list[v]) /\ user_list' = [user_list EXCEPT ![v] = Unlocked(@)]
      <4>1. user_list'[u] = user_list[u] \/ Due(user_list[u])
        BY <2>0, <3>2 DEF List
      <4> QED BY <2>0, <2>7, <3>2, <4>1, SaveKeepsLocks DEF SignIn
    <3> QED BY <2>7, <3>1, <3>2 DEF SignIn
  <2>8. ASSUME NEW p \in Passwords, LockAccount(p) PROVE LockEnds(u)
    <3>1. /\ user \in Names /\ user_list[user] \in User
          /\ user_list' = [user_list EXCEPT ![user].status = "blocked", ![user].lock_time = now]
      BY <2>0, <2>8 DEF LockAccount, UsersInv, TypeOK, List, Listed
    <3>2. user_list'[u] = user_list[u] \/ user_list'[u].status = "blocked"
      BY <2>0, <3>1 DEF List, User
    <3> QED BY <2>0, <2>8, <3>2, SaveKeepsLocks DEF LockAccount
  <2>9. ASSUME UpdateAccountInfo PROVE LockEnds(u)
    BY <2>0, <2>9, SaveKeepsLocks DEF UpdateAccountInfo, LoggedIn, AtMenu
  <2>10. ASSUME NEW v \in Names, DeleteAccount(v) PROVE LockEnds(u)
    <3>1. user_list'[u] = user_list[u] \/ user_list'[u] = Absent
      BY <2>0, <2>10 DEF DeleteAccount, List
    <3> QED BY <2>0, <2>10, <3>1, SaveKeepsLocks DEF DeleteAccount, Admin, LoggedIn, AtMenu
  <2>11. CASE Quit \/ Die
    BY <2>1, <2>2, <2>11 DEF Quit, Die
  <2>12. CASE \/ Tick \/ SignOut \/ ViewAccounts
              \/ \E p \in Passwords : RightPassword(p) \/ WrongPassword(p)
    BY <2>1, <2>12 DEF Tick, SignOut, ViewAccounts, Reload, LoadUsersFails, RightPassword, WrongPassword, accounts
  <2>13. CASE Menu
    BY <2>4, <2>5, <2>6, <2>7, <2>9, <2>10, <2>11, <2>12, <2>13
       DEF Menu, ResetPassword, AdminResetPassword, ChangePassword, Is, Admin, LoggedIn
  <2>14. CASE \E v \in Names : OtherInstance(v)
    BY <2>0, <2>14 DEF OtherInstance, LockEnds, List
  <2> QED
    BY <2>3, <2>8, <2>11, <2>12, <2>13, <2>14 DEF Next, Prompt
<1>2. [Last]_vars => [\A u \in Names :
          ( /\ account_file[u] # Absent /\ account_file[u].status = "blocked"
            /\ account_file'[u] # Absent /\ account_file'[u].status = "active" )
          => \/ unsaved
             \/ /\ account_file[u].lock_time > 0
                /\ now - account_file[u].lock_time >= UNLOCK_TIME]_vars
  BY DEF LockEnds
<1> QED BY <1>1, <1>2, UsersInductive, PTL DEF Spec, UnlocksOnlyInTime
----
(* Steps that leave the sign-ins alone while the program runs.             *)
LEMMA SigninsUnchanged ==
    ASSUME HistoryInv, UNCHANGED <<history_list, history_file, histUnsaved, logins, gone>>,
           (pc = "off") <=> (pc' = "off")
    PROVE  HistoryInv'
BY DEF HistoryInv, HistoryKept, Elements, Distinct

(* The end of the program: what is lost is what the list had and the file  *)
(* has not, whatever of the list was written.                              *)
LEMMA MemoryGone ==
    ASSUME HistoryInv, pc # "off", history_list \in Seq(1..MAX_LOGINS),
           Ends, gone' = Lost,
           history_file' \in {history_file, history_list} \cup Prefixes(history_list)
    PROVE  HistoryInv'
<1>1. pc' = "off" /\ histUnsaved' = FALSE /\ logins' = logins
  BY DEF Ends
<1>2. Elements(history_list) = (1..logins) \ gone /\ Distinct(history_list)
  BY DEF HistoryInv, HistoryKept, Elements, Distinct
<1>3. Elements(history_file') \subseteq (1..logins) \ gone /\ Distinct(history_file')
  BY <1>2, PrefixEffect DEF HistoryInv
<1>4. Lost = gone \cup (Elements(history_list) \ Elements(history_file'))
  BY DEF Lost, Elements
<1>5. Elements(history_file') = (1..logins) \ Lost
  BY <1>2, <1>3, <1>4
<1>6. HistoryKept'
  BY <1>1 DEF HistoryKept
<1>7. /\ Distinct(history_file)'
      /\ Elements(history_file)' = (1..logins') \ gone'
  BY <1>1, <1>3, <1>5 DEF Elements, Distinct
<1> QED BY <1>1, <1>6, <1>7 DEF HistoryInv

LEMMA HistoryInductive == Spec => []HistoryInv
<1>1. Init => HistoryInv
  BY EmptyFacts DEF Init, HistoryInv, HistoryKept
<1>2. UsersInv /\ HistoryInv /\ [Next]_vars => HistoryInv'
  <2> SUFFICES ASSUME UsersInv, HistoryInv, [Next]_vars PROVE HistoryInv'
    OBVIOUS
  <2>1. ASSUME Start PROVE HistoryInv'
    <3>1. /\ pc' = "menu" /\ pc = "off" /\ history_list' = Reversed(history_file)
          /\ UNCHANGED <<history_file, histUnsaved, logins, gone>>
      BY <2>1 DEF Start
    <3>2. /\ Elements(history_list') = Elements(history_file) /\ Distinct(history_list')
          /\ Elements(history_file) = (1..logins) \ gone
      BY <3>1, ReversedEffect DEF HistoryInv, UsersInv, TypeOK
    <3>3. HistoryKept'
      BY <3>1, <3>2 DEF HistoryKept, Elements, Distinct
    <3> QED BY <3>1, <3>2, <3>3 DEF HistoryInv, Elements, Distinct
  <2>2. ASSUME NEW p \in Passwords, RightPassword(p) PROVE HistoryInv'
    <3>1. /\ pc = "password" /\ pc' = "menu" /\ logins \in 0..MAX_LOGINS
          /\ logins < MAX_LOGINS /\ logins' = logins + 1 /\ gone' = gone
          /\ history_list' = Prepended(logins + 1, history_list)
          /\ history_list \in Seq(1..MAX_LOGINS) /\ gone \subseteq 1..logins
      BY <2>2 DEF RightPassword, Prepended, UsersInv, TypeOK
    <3>2. /\ logins + 1 \in 1..MAX_LOGINS /\ logins + 1 \notin 1..logins
          /\ 1..logins' = (1..logins) \cup {logins + 1}
      BY <3>1, BoundsAssumption
    <3>3. Elements(history_list) = (1..logins) \ gone /\ Distinct(history_list)
      BY <3>1 DEF HistoryInv, HistoryKept, Elements, Distinct
    <3>4. /\ \A x : x \in Elements(history_list') <=> x = logins + 1 \/ x \in Elements(history_list)
          /\ Distinct(history_list')
      <4>1. logins + 1 \notin Elements(history_list)
        BY <3>2, <3>3
      <4> QED BY <3>1, <3>2, <3>3, <4>1, PrependEffect
    <3>5. Elements(history_list') = (1..logins') \ gone'
      BY <3>1, <3>2, <3>3, <3>4
    <3>6. HistoryKept'
      BY <3>4, <3>5 DEF HistoryKept, Elements, Distinct
    <3>7. CASE history_file' = history_list' /\ histUnsaved' = FALSE
      BY <3>1, <3>4, <3>5, <3>6, <3>7 DEF HistoryInv, Elements, Distinct
    <3>8. CASE /\ history_file' \in {history_file} \cup Prefixes(history_list')
               /\ histUnsaved' = TRUE
      <4>1. Distinct(history_file') /\ Elements(history_file') \subseteq (1..logins') \ gone'
        <5>1. CASE history_file' = history_file
          BY <3>1, <3>2, <5>1 DEF HistoryInv
        <5>2. CASE history_file' \in Prefixes(history_list')
          <6>1. history_list' \in Seq(1..MAX_LOGINS)
            BY <3>1, <3>2, PrependEffect
          <6> QED BY <3>4, <3>5, <5>2, <6>1, PrefixEffect
        <5> QED BY <3>8, <5>1, <5>2
      <4> QED BY <3>1, <3>6, <3>8, <4>1 DEF HistoryInv, Elements, Distinct
    <3> QED BY <2>2, <3>7, <3>8 DEF RightPassword, SaveHistory
  <2>3. ASSUME Quit \/ Die PROVE HistoryInv'
    <3>1. pc # "off" /\ Ends /\ gone' = Lost
      BY <2>3 DEF Quit, Die
    <3>2. history_file' \in {history_file, history_list} \cup Prefixes(history_list)
      BY <2>3 DEF Quit, Die
    <3> QED BY <3>1, <3>2, MemoryGone DEF UsersInv, TypeOK
  <2>4. ASSUME NEW u \in Names, OtherInstance(u) PROVE HistoryInv'
    BY <2>4, SigninsUnchanged DEF OtherInstance, signins
  <2>6. CASE \/ /\ AtMenu \/ (pc = "menu" /\ pc' = "password")
                /\ UNCHANGED <<history_list, history_file, histUnsaved, logins, gone>>
             \/ \E p \in Passwords : WrongPassword(p) \/ LockAccount(p)
             \/ Tick \/ UNCHANGED vars
    BY <2>6, SigninsUnchanged DEF AtMenu, WrongPassword, LockAccount, Tick, vars, memory, signins
  <2>7. ASSUME NEW v \in Names, NEW p \in Passwords,
               RegisterUser(v, p) \/ ResetPassword(v, p) \/ AdminResetPassword(v, p)
        PROVE  HistoryInv'
    BY <2>6, <2>7 DEF RegisterUser, ResetPassword, AdminResetPassword, SetPassword,
                      Admin, LoggedIn, AtMenu, UsersOnly, signins
  <2>8. CASE UpdateAccountInfo \/ AutoUnlock \/ ViewAccounts \/ SignOut
    BY <2>6, <2>8 DEF UpdateAccountInfo, AutoUnlock, ViewAccounts, SignOut, Admin, LoggedIn,
                      AtMenu, UsersOnly, signins
  <2>9. CASE Menu
    <3>1. ASSUME NEW v \in Names, SignIn(v) \/ DeleteAccount(v) PROVE HistoryInv'
      BY <2>6, <3>1 DEF SignIn, DeleteAccount, Admin, LoggedIn, AtMenu, UsersOnly, signins
    <3>2. ASSUME NEW u \in Names, NEW p \in Passwords, ChangePassword(u, p) PROVE HistoryInv'
      BY <2>6, <3>2 DEF ChangePassword, SetPassword, LoggedIn, AtMenu, UsersOnly, signins
    <3> QED BY <2>3, <2>7, <2>8, <2>9, <3>1, <3>2 DEF Menu
  <2> QED BY <2>1, <2>2, <2>3, <2>4, <2>6, <2>9 DEF Next, Prompt
<1> QED BY <1>1, <1>2, UsersInductive, PTL DEF Spec

(* No sign-in is lost or doubled by the reversals and rewrites of the      *)
(* history, but for those a death took before they could be saved.         *)
THEOREM HistoryIsKept == Spec => []HistoryKept
<1>1. HistoryInv => HistoryKept
  BY DEF HistoryInv
<1> QED BY <1>1, HistoryInductive, PTL
====
