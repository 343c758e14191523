---------------------------- MODULE PhonePoolProofs ----------------------------
(***************************************************************************)
(* Proofs about PhonePool: that phones and codes go to one row each, for   *)
(* any number of rows, phones, polls and orders.                           *)
(***************************************************************************)
EXTENDS PhonePool, FiniteSetTheorems, TLAPS

\* An entry has an account only if they were bound one to one.
EmailsBound ==
  \A p \in InPool : pool[p].email # None => {p, pool[p].email} \subseteq bound

(***************************************************************************)
(* The phone of a row changes only for a row that was bound: a poll still  *)
(* on its way will write the phone the row has, and a phone that has left  *)
(* the pool is only left with the rows that lost it.                       *)
(***************************************************************************)
PollsOfRow ==
  \A q \in polls :
    q.live => /\ q.row \in InQueue
              /\ queue[q.row].phone = q.phone \/ q.row \in bound

PhonesOfPool ==
  \A r \in InQueue :
    queue[r].phone \notin InPool \cup {None} => r \in bound

\* The polls that will write to an entry, and what it says of them.
Owned ==
  /\ \A q \in polls : q.own => q.phone \in InPool /\ pool[q.phone].polling
  /\ \A q, k \in polls : q.own /\ k.own /\ q.phone = k.phone => q = k
  /\ \A p \in InPool :
       pool[p].polling => \E q \in polls : q.own /\ q.phone = p

\* An entry stays in the pool while its order is acted on.
Acting == \A p \in Phones : Busy(p) => p \in InPool /\ p \in Orders

IInv ==
  /\ TypeOK
  /\ EmailsBound
  /\ PollsOfRow
  /\ PhonesOfPool
  /\ Owned
  /\ Acting
  /\ PhonesNotShared
  /\ CodeOfItsPhone

-----------------------------------------------------------------------------
LEMMA Members ==
  ASSUME TypeOK
  PROVE  /\ \A p \in InPool : p \in Phones /\ pool[p] \in Entry
         /\ \A r \in InQueue : r \in Rows /\ queue[r] \in RowOf
         /\ \A p \in Phones : pool[p] \in Entry => p \in InPool
         /\ \A r \in Rows : queue[r] \in RowOf => r \in InQueue
         /\ \A q \in polls : q \in Poll /\ q.phone \in Phones
                             /\ q.row \in Rows \cup {None}
BY NoneAssumption DEF TypeOK, InPool, InQueue, Poll

\* An entry with another mode, account or state is an entry.
LEMMA EntryType ==
  /\ \A e \in Entry : /\ \A b \in BOOLEAN : /\ [e EXCEPT !.terminal = b] \in Entry
                                            /\ [e EXCEPT !.polling = b] \in Entry
                      /\ [e EXCEPT !.email = None] \in Entry
                      /\ [e EXCEPT !.terminal = FALSE, !.polling = FALSE] \in Entry
  /\ \A e \in RowOf : [e EXCEPT !.phone = None] \in RowOf
  /\ NewRow \in RowOf
BY DEF Entry, RowOf, NewRow

(***************************************************************************)
(* Steps on the pool: entries come and change, none goes, and what they    *)
(* say of polls stays.                                                     *)
(***************************************************************************)
LEMMA PoolChanges ==
  ASSUME IInv, TypeOK', Acting', UNCHANGED <<queue, polls>>,
         bound \subseteq bound',
         \A p \in Phones :
           /\ p \in InPool => p \in InPool' /\ pool'[p].polling = pool[p].polling
           /\ p \in InPool' =>
                /\ p \notin InPool => ~ pool'[p].polling
                /\ pool'[p].email # None
                     => {p, pool'[p].email} \subseteq bound'
  PROVE  IInv'
<1>1. EmailsBound'
  BY DEF EmailsBound, InPool
<1>2. InQueue' = InQueue
  BY DEF InQueue
<1>3. PollsOfRow'
  BY <1>2 DEF IInv, PollsOfRow
<1>4. PhonesOfPool'
  <2> SUFFICES ASSUME NEW r \in InQueue, queue[r].phone \notin InPool' \cup {None}
               PROVE  r \in bound'
    BY <1>2 DEF PhonesOfPool
  <2>1. queue[r].phone \in Phones
    BY Members DEF IInv, RowOf
  <2> QED BY <2>1 DEF IInv, PhonesOfPool
<1>5. Owned'
  <2>1. \A q \in polls : q.phone \in Phones
    BY Members DEF IInv
  <2>2. \A p \in InPool' : p \in Phones
    BY DEF InPool
  <2> QED BY <2>1, <2>2 DEF IInv, Owned
<1>6. PhonesNotShared' /\ CodeOfItsPhone'
  BY <1>2 DEF IInv, PhonesNotShared, CodeOfItsPhone
<1> QED BY <1>1, <1>3, <1>4, <1>5, <1>6 DEF IInv

\* Steps that leave pool, queue and polls alone.
LEMMA NothingChanges ==
  ASSUME IInv, TypeOK', Acting', UNCHANGED <<pool, queue, polls, bound>>
  PROVE  IInv'
<1>1. InPool' = InPool /\ InQueue' = InQueue
  BY DEF InPool, InQueue
<1> QED
  BY <1>1 DEF IInv, EmailsBound, PollsOfRow, PhonesOfPool, Owned,
              PhonesNotShared, CodeOfItsPhone

LEMMA UnbindOthersType ==
  ASSUME TypeOK, NEW p \in Phones, NEW r
  PROVE  /\ UnbindOthers(p, r) \in [Phones -> Entry \cup {None}]
         /\ \A q \in Phones :
              /\ q \in InPool => UnbindOthers(p, r)[q] # None
              /\ q \notin InPool => UnbindOthers(p, r)[q] = None
         /\ \A q \in InPool :
              /\ UnbindOthers(p, r)[q].polling = pool[q].polling
              /\ UnbindOthers(p, r)[q].email \in {None, pool[q].email}
         /\ UnbindOthers(p, r)[p] = pool[p]
<1> DEFINE u == UnbindOthers(p, r)
<1>1. ASSUME NEW q \in Phones
      PROVE  \/ u[q] = pool[q]
             \/ q \in InPool /\ u[q] = [pool[q] EXCEPT !.email = None]
  BY DEF UnbindOthers
<1>2. \A q \in InPool : q \in Phones /\ pool[q] \in Entry
  BY Members
<1>3. \A q \in Phones : q \in InPool \/ pool[q] = None
  BY DEF InPool
<1>4. \A q \in InPool : [pool[q] EXCEPT !.email = None] \in Entry
  BY <1>2, EntryType
<1>5. \A q \in Phones : u[q] \in Entry \cup {None}
  BY <1>1, <1>2, <1>3, <1>4
<1>6. u \in [Phones -> Entry \cup {None}]
  BY <1>5 DEF UnbindOthers
<1>7. \A q \in Phones : /\ q \in InPool => u[q] # None
                        /\ q \notin InPool => u[q] = None
  BY <1>1, <1>2, <1>3, <1>4, NoneAssumption
<1>8. \A q \in InPool : /\ u[q].polling = pool[q].polling
                        /\ u[q].email \in {None, pool[q].email}
  <2> SUFFICES ASSUME NEW q \in InPool
               PROVE  /\ u[q].polling = pool[q].polling
                      /\ u[q].email \in {None, pool[q].email}
    OBVIOUS
  <2> HIDE DEF u
  <2>1. CASE u[q] = pool[q]
    BY <2>1
  <2>2. CASE u[q] = [pool[q] EXCEPT !.email = None]
    BY <1>2, <2>2 DEF Entry
  <2> QED BY <1>1, <1>2, <2>1, <2>2
<1>9. u[p] = pool[p]
  BY DEF UnbindOthers
<1> QED BY <1>6, <1>7, <1>8, <1>9

LEMMA FlagType ==
  ASSUME TypeOK, NEW p \in Phones
  PROVE  /\ Flag(p, "polling") \in BOOLEAN
         /\ p \in InPool => Flag(p, "polling") = pool[p].polling
         /\ p \notin InPool => ~ Flag(p, "polling")
BY Members DEF Flag, Entry

LEMMA AddKeeps ==
  ASSUME IInv, NEW p \in Phones, NEW r \in Rows \cup {None},
         AddOrUpdatePhoneEntry(p, r)
  PROVE  IInv'
<1> DEFINE email == IF r = None /\ p \in InPool THEN pool[p].email ELSE r
           entry == [mode |-> IF r = None THEN "batch" ELSE "bound",
                     email |-> email, terminal |-> FALSE,
                     polling |-> Flag(p, "polling")]
           u == UnbindOthers(p, r)
<1>1. /\ pool' = [u EXCEPT ![p] = entry]
      /\ bound' = IF r = None THEN bound ELSE bound \cup {p, r}
      /\ UNCHANGED <<queue, polls, actions, sync, dialog, ended>>
  BY DEF AddOrUpdatePhoneEntry, requests
<1>2. email \in Rows \cup {None} /\ Flag(p, "polling") \in BOOLEAN
  BY Members, FlagType DEF IInv, Entry
<1>3. /\ entry \in Entry /\ entry.polling = Flag(p, "polling")
      /\ entry.email = email
  BY <1>2 DEF Entry
<1>4. u \in [Phones -> Entry \cup {None}]
  BY UnbindOthersType DEF IInv
<1>5. email # None => {p, email} \subseteq bound'
  BY <1>1 DEF IInv, EmailsBound
<1> HIDE DEF entry, u, email
<1>6. TypeOK'
  BY <1>1, <1>3, <1>4 DEF IInv, TypeOK
<1>7. p \in InPool' /\ \A q \in Phones : q \in InPool => q \in InPool'
  BY <1>1, <1>3, <1>4, UnbindOthersType, NoneAssumption DEF IInv, InPool, u
<1>8. Acting'
  BY <1>1, <1>7 DEF IInv, Acting, Busy
<1>9. ASSUME NEW q \in Phones
      PROVE  /\ q \in InPool => pool'[q].polling = pool[q].polling
             /\ q \in InPool' =>
                  /\ q \notin InPool => ~ pool'[q].polling
                  /\ pool'[q].email # None
                       => {q, pool'[q].email} \subseteq bound'
  <2>1. CASE q = p
    BY <1>1, <1>3, <1>4, <1>5, <2>1, FlagType DEF IInv
  <2>2. CASE q # p
    <3>1. pool'[q] = u[q] /\ bound \subseteq bound'
      BY <1>1, <1>4, <2>2
    <3>2. q \in InPool' => q \in InPool
      BY <3>1, UnbindOthersType DEF IInv, InPool, u
    <3> QED BY <3>1, <3>2, UnbindOthersType DEF IInv, EmailsBound, u
  <2> QED BY <2>1, <2>2
<1> QED BY <1>1, <1>6, <1>7, <1>8, <1>9, PoolChanges

LEMMA ImportKeeps ==
  ASSUME IInv, NEW p \in Phones, NEW r \in Rows \cup {None},
         ImportPhoneBatchEntry(p, r)
  PROVE  IInv'
<1> DEFINE entry == [mode |-> IF r = None THEN "batch" ELSE "bound",
                     email |-> r, terminal |-> FALSE,
                     polling |-> Flag(p, "polling")]
<1>1. /\ pool' = [pool EXCEPT ![p] = entry]
      /\ bound' = IF r = None THEN bound ELSE bound \cup {p, r}
      /\ UNCHANGED <<queue, polls, actions, sync, dialog, ended>>
  BY DEF ImportPhoneBatchEntry, requests
<1>2. /\ entry \in Entry /\ entry.polling = Flag(p, "polling")
      /\ entry.email = r
  BY FlagType DEF Entry, IInv
<1> HIDE DEF entry
<1>3. TypeOK'
  BY <1>1, <1>2 DEF IInv, TypeOK
<1>4. p \in InPool' /\ \A q \in Phones : q \in InPool => q \in InPool'
  BY <1>1, <1>2, NoneAssumption DEF IInv, TypeOK, InPool
<1>5. Acting'
  BY <1>1, <1>4 DEF IInv, Acting, Busy
<1>6. ASSUME NEW q \in Phones
      PROVE  /\ q \in InPool => pool'[q].polling = pool[q].polling
             /\ q \in InPool' =>
                  /\ q \notin InPool => ~ pool'[q].polling
                  /\ pool'[q].email # None
                       => {q, pool'[q].email} \subseteq bound'
  <2>1. CASE q = p
    BY <1>1, <1>2, <2>1, FlagType DEF IInv, TypeOK
  <2>2. CASE q # p
    <3>1. pool'[q] = pool[q] /\ bound \subseteq bound'
      BY <1>1, <2>2 DEF IInv, TypeOK
    <3>2. q \in InPool' => q \in InPool
      BY <3>1 DEF InPool
    <3> QED BY <3>1, <3>2 DEF IInv, EmailsBound
  <2> QED BY <2>1, <2>2
<1> QED BY <1>1, <1>3, <1>4, <1>5, <1>6, PoolChanges

LEMMA SyncAnsweredKeeps ==
  ASSUME IInv, SyncAnswered
  PROVE  IInv'
<1> DEFINE new == [mode |-> "batch", email |-> None, terminal |-> FALSE,
                   polling |-> FALSE]
<1>1. /\ pool' = [p \in Phones |->
            IF p \notin sync.items THEN pool[p]
            ELSE IF p \in InPool THEN [pool[p] EXCEPT !.terminal = FALSE]
            ELSE new]
      /\ sync' = SyncOff
      /\ UNCHANGED <<queue, polls, actions, dialog, ended, bound>>
  BY DEF SyncAnswered
<1>2. new \in Entry /\ new.email = None /\ new.polling = FALSE
  BY DEF Entry
<1> HIDE DEF new
<1>3. ASSUME NEW p \in Phones
      PROVE  /\ pool'[p] \in Entry \cup {None}
             /\ p \in InPool => /\ p \in InPool'
                                /\ pool'[p].polling = pool[p].polling
                                /\ pool'[p].email = pool[p].email
             /\ p \notin InPool => pool'[p] \in {None, new}
  <2>1. CASE p \in InPool
    <3>1. pool[p] \in Entry
      BY <2>1, Members DEF IInv
    <3>2. [pool[p] EXCEPT !.terminal = FALSE] \in Entry
      BY <3>1, EntryType
    <3> QED BY <1>1, <2>1, <3>1, <3>2, NoneAssumption DEF InPool, Entry
  <2>2. CASE p \notin InPool
    BY <1>1, <1>2, <2>2 DEF InPool
  <2> QED BY <2>1, <2>2
<1>4. TypeOK'
  <2>1. pool' \in [Phones -> Entry \cup {None}]
    BY <1>1, <1>3
  <2> QED BY <1>1, <2>1 DEF IInv, TypeOK, SyncOff
<1>5. Acting'
  BY <1>1, <1>3 DEF IInv, Acting, Busy
<1>6. \A p \in Phones :
        p \in InPool' => /\ p \notin InPool => ~ pool'[p].polling
                         /\ pool'[p].email # None
                              => {p, pool'[p].email} \subseteq bound'
  BY <1>1, <1>2, <1>3 DEF IInv, EmailsBound, InPool
<1> QED BY <1>1, <1>3, <1>4, <1>5, <1>6, PoolChanges

LEMMA ActionAnsweredKeeps ==
  ASSUME IInv, NEW p \in Phones, ActionAnswered(p)
  PROVE  IInv'
<1>1. /\ actions[p] \in {"resend", "done"}
      /\ actions' = [actions EXCEPT ![p] = "none"]
      /\ pool' = [pool EXCEPT ![p].terminal = actions[p] = "done"]
      /\ UNCHANGED <<queue, polls, sync, dialog, ended, bound>>
  BY DEF ActionAnswered
<1>2. p \in InPool /\ pool[p] \in Entry
  BY <1>1, Members DEF IInv, Acting, Busy
<1> DEFINE b == actions[p] = "done"
           entry == [pool[p] EXCEPT !.terminal = b]
<1>3. entry \in Entry /\ entry.polling = pool[p].polling
      /\ entry.email = pool[p].email
  BY <1>2, EntryType DEF Entry
<1>4. pool' = [pool EXCEPT ![p] = entry]
  BY <1>1
<1> HIDE DEF entry
<1>5. TypeOK'
  BY <1>1, <1>3, <1>4 DEF IInv, TypeOK
<1>6. \A q \in Phones : /\ q \in InPool <=> q \in InPool'
                        /\ q \in InPool =>
                             /\ pool'[q].polling = pool[q].polling
                             /\ pool'[q].email = pool[q].email
  BY <1>2, <1>3, <1>4, NoneAssumption DEF IInv, TypeOK, InPool
<1>7. Acting'
  BY <1>1, <1>6 DEF IInv, TypeOK, Acting, Busy
<1> QED BY <1>1, <1>5, <1>6, <1>7, PoolChanges DEF IInv, EmailsBound
-----------------------------------------------------------------------------
LEMMA BindKeeps ==
  ASSUME IInv, NEW p \in Phones, NEW r \in Rows, BindPhoneToSelected(p, r)
  PROVE  IInv'
<1> DEFINE u == UnbindOthers(p, r)
           entry == [u[p] EXCEPT !.mode = "bound", !.email = r]
           row == [queue[r] EXCEPT !.phone = p]
<1>1. /\ p \in InPool /\ ~Busy(p) /\ r \in InQueue
      /\ pool' = [u EXCEPT ![p].mode = "bound", ![p].email = r]
      /\ queue' = [queue EXCEPT ![r] = row]
      /\ bound' = bound \cup {p, r}
      /\ UNCHANGED <<polls, actions, sync, dialog, ended>>
  BY DEF BindPhoneToSelected, CanBind, requests
<1>2. /\ u \in [Phones -> Entry \cup {None}] /\ u[p] = pool[p]
      /\ \A q \in Phones : q \in InPool <=> u[q] # None
      /\ \A q \in InPool : /\ u[q].polling = pool[q].polling
                           /\ u[q].email \in {None, pool[q].email}
  BY UnbindOthersType DEF IInv
<1>3. pool[p] \in Entry /\ queue[r] \in RowOf /\ queue[r] # None
  BY <1>1, Members DEF IInv, InQueue
<1>4. /\ entry \in Entry /\ entry.email = r /\ entry # None
      /\ entry.polling = pool[p].polling
  BY <1>2, <1>3, NoneAssumption DEF Entry
<1>5. row \in RowOf /\ row.phone = p /\ row.code = queue[r].code /\ row # None
  BY <1>3, NoneAssumption DEF RowOf
<1> HIDE DEF u
<1>6. pool' = [u EXCEPT ![p] = entry]
  BY <1>1
<1> HIDE DEF entry, row
<1>7. TypeOK'
  <2>1. pool' \in [Phones -> Entry \cup {None}]
    BY <1>2, <1>4, <1>6
  <2>2. queue' \in [Rows -> RowOf \cup {None}]
    BY <1>1, <1>5 DEF IInv, TypeOK
  <2> QED BY <1>1, <2>1, <2>2 DEF IInv, TypeOK
<1>8. InPool' = InPool /\ InQueue' = InQueue
  BY <1>1, <1>2, <1>4, <1>5, <1>6 DEF IInv, TypeOK, InPool, InQueue
<1>9. \A q \in InPool : /\ pool'[q].polling = pool[q].polling
                        /\ pool'[q].email # None
                             => {q, pool'[q].email} \subseteq bound'
  BY <1>1, <1>2, <1>4, <1>6 DEF IInv, EmailsBound, InPool
<1>10. EmailsBound' /\ Owned' /\ Acting'
  BY <1>1, <1>8, <1>9 DEF EmailsBound, IInv, Owned, Acting, Busy
<1>11. \A s \in InQueue : \/ s \in bound'
                          \/ queue'[s] = queue[s]
  BY <1>1 DEF IInv, TypeOK, InQueue
<1>12. PollsOfRow' /\ PhonesOfPool'
  BY <1>1, <1>8, <1>11 DEF IInv, PollsOfRow, PhonesOfPool
<1>13. PhonesNotShared' /\ CodeOfItsPhone'
  BY <1>1, <1>8, <1>11 DEF IInv, PhonesNotShared, CodeOfItsPhone
<1> QED BY <1>7, <1>10, <1>12, <1>13 DEF IInv

LEMMA RemoveEntryKeeps ==
  ASSUME IInv, NEW p \in Phones, RemovePhoneEntry(p)
  PROVE  IInv'
<1>1. /\ p \in InPool /\ ~Busy(p)
      /\ pool' = [pool EXCEPT ![p] = None]
      /\ queue' = [r \in Rows |->
           IF r \in InQueue /\ queue[r].phone = p
           THEN [queue[r] EXCEPT !.phone = None] ELSE queue[r]]
      /\ polls' = {IF q.phone = p THEN [q EXCEPT !.own = FALSE] ELSE q :
                   q \in polls}
      /\ bound' = bound \cup {p} \cup {r \in InQueue : queue[r].phone = p}
      /\ UNCHANGED <<actions, sync, dialog, ended>>
  BY DEF RemovePhoneEntry
<1>2. InPool' = InPool \ {p}
  BY <1>1 DEF IInv, TypeOK, InPool
<1>3. ASSUME NEW r \in Rows
      PROVE  /\ queue'[r] \in RowOf \cup {None}
             /\ r \in InQueue <=> queue'[r] # None
             /\ r \in InQueue =>
                  /\ queue'[r].code = queue[r].code
                  /\ \/ queue[r].phone = p /\ queue'[r].phone = None
                        /\ r \in bound'
                     \/ queue[r].phone # p /\ queue'[r] = queue[r]
  <2>1. CASE r \in InQueue /\ queue[r].phone = p
    <3>1. queue[r] \in RowOf
      BY <2>1, Members DEF IInv
    <3>2. [queue[r] EXCEPT !.phone = None] \in RowOf
      BY <3>1, EntryType
    <3> QED BY <1>1, <2>1, <3>1, <3>2, NoneAssumption DEF RowOf
  <2>2. CASE ~(r \in InQueue /\ queue[r].phone = p)
    BY <1>1, <2>2 DEF IInv, TypeOK, InQueue
  <2> QED BY <2>1, <2>2
<1>4. InQueue' = InQueue
  BY <1>3 DEF InQueue
<1>5. ASSUME NEW k \in polls'
      PROVE  \E q \in polls :
               /\ k \in Poll /\ k.phone = q.phone /\ k.row = q.row
               /\ k.live = q.live
               /\ k.own => q.own /\ q.phone # p /\ k = q
  <2>1. PICK q \in polls : k = IF q.phone = p THEN [q EXCEPT !.own = FALSE]
                               ELSE q
    BY <1>1
  <2>2. q \in Poll
    BY Members DEF IInv
  <2> QED BY <2>1, <2>2 DEF Poll
<1>6. \A q \in polls : q.phone # p => q \in polls'
  BY <1>1
<1>7. TypeOK'
  <2>1. queue' \in [Rows -> RowOf \cup {None}]
    BY <1>1, <1>3
  <2>2. polls' \subseteq Poll
    BY <1>5
  <2>3. bound' \subseteq Phones \cup Rows
    BY <1>1 DEF IInv, TypeOK, InQueue
  <2> QED BY <1>1, <2>1, <2>2, <2>3 DEF IInv, TypeOK
<1>8. \A q \in InPool' : pool'[q] = pool[q]
  BY <1>1, <1>2 DEF IInv, TypeOK, InPool
<1>9. EmailsBound' /\ Acting'
  BY <1>1, <1>2, <1>8 DEF IInv, EmailsBound, Acting, Busy
<1>10. PollsOfRow'
  <2> SUFFICES ASSUME NEW k \in polls', k.live
               PROVE  /\ k.row \in InQueue
                      /\ queue'[k.row].phone = k.phone \/ k.row \in bound'
    BY <1>4 DEF PollsOfRow
  <2>1. PICK q \in polls : k.phone = q.phone /\ k.row = q.row /\ q.live
    BY <1>5
  <2>2. /\ q.row \in InQueue /\ q.row \in Rows
        /\ queue[q.row].phone = q.phone \/ q.row \in bound
    BY <2>1, Members DEF IInv, PollsOfRow
  <2> QED BY <1>1, <1>3, <2>1, <2>2
<1>11. PhonesOfPool'
  <2> SUFFICES ASSUME NEW r \in InQueue,
                      queue'[r].phone \notin InPool' \cup {None}
               PROVE  r \in bound'
    BY <1>4 DEF PhonesOfPool
  <2>1. r \in Rows
    BY DEF InQueue
  <2> QED BY <1>1, <1>2, <1>3, <2>1 DEF IInv, PhonesOfPool
<1>12. Owned'
  <2>1. \A k \in polls' : k.own => k \in polls /\ k.phone # p
    BY <1>5
  <2> QED BY <1>2, <1>6, <1>8, <2>1 DEF IInv, Owned
<1>13. PhonesNotShared' /\ CodeOfItsPhone'
  <2>1. \A r \in InQueue : r \in Rows
    BY DEF InQueue
  <2>2. bound \subseteq bound'
    BY <1>1
  <2> QED
    BY <1>3, <1>4, <2>1, <2>2 DEF IInv, PhonesNotShared, CodeOfItsPhone
<1> QED BY <1>7, <1>9, <1>10, <1>11, <1>12, <1>13 DEF IInv
-----------------------------------------------------------------------------
(***************************************************************************)
(* A poll begins for an entry that has none, which then says so.           *)
(***************************************************************************)
LEMMA PollStarts ==
  ASSUME IInv, NEW p \in InPool, ~ pool[p].polling,
         NEW r \in InQueue \cup {None}, PollBegins(p, r)
  PROVE  /\ pool' \in [Phones -> Entry \cup {None}] /\ polls' \subseteq Poll
         /\ InPool' = InPool
         /\ EmailsBound' /\ Owned' /\ Acting'
         /\ \A q \in polls' : \/ q \in polls
                              \/ /\ q.phone = p /\ q.row = r
                                 /\ q.live <=> r # None
<1> DEFINE entry == [pool[p] EXCEPT !.polling = TRUE]
           new == [phone |-> p, row |-> r, own |-> TRUE, live |-> r # None]
<1>1. /\ pool' = [pool EXCEPT ![p] = entry]
      /\ polls' = polls \cup {new}
      /\ UNCHANGED <<actions, sync, dialog, ended, bound>>
  BY DEF PollBegins
<1>2. p \in Phones /\ pool[p] \in Entry /\ r \in Rows \cup {None}
  BY Members DEF IInv
<1>3. /\ entry \in Entry /\ entry.polling = TRUE
      /\ entry.email = pool[p].email /\ entry # None
  BY <1>2, NoneAssumption DEF Entry
<1>4. /\ new \in Poll /\ new.phone = p /\ new.row = r /\ new.own
      /\ new.live <=> r # None
  BY <1>2 DEF Poll
<1> HIDE DEF entry, new
<1>5. \A q \in Phones : pool'[q] = IF q = p THEN entry ELSE pool[q]
  BY <1>1 DEF IInv, TypeOK
<1>6. InPool' = InPool
  BY <1>2, <1>3, <1>5 DEF InPool
<1>7. \A q \in InPool : /\ pool'[q].email = pool[q].email
                        /\ q # p => pool'[q].polling = pool[q].polling
  BY <1>3, <1>5 DEF InPool
<1>8. pool'[p].polling = TRUE
  BY <1>2, <1>3, <1>5
<1>9. Owned'
  <2>1. \A q \in polls : q.own => q.phone # p
    BY DEF IInv, Owned
  <2>2. \A q \in polls' : q.own => q.phone \in InPool /\ pool'[q.phone].polling
    BY <1>1, <1>4, <1>7, <1>8, <2>1 DEF IInv, Owned
  <2>3. \A q, k \in polls' : q.own /\ k.own /\ q.phone = k.phone => q = k
    BY <1>1, <1>4, <2>1 DEF IInv, Owned
  <2>4. ASSUME NEW q \in InPool, pool'[q].polling
        PROVE  \E k \in polls' : k.own /\ k.phone = q
    <3>1. CASE q = p
      BY <1>1, <1>4, <3>1
    <3>2. CASE q # p
      BY <1>1, <1>7, <2>4, <3>2 DEF IInv, Owned
    <3> QED BY <3>1, <3>2
  <2> QED BY <1>6, <2>2, <2>3, <2>4 DEF Owned
<1>10. EmailsBound' /\ Acting'
  BY <1>1, <1>6, <1>7 DEF IInv, EmailsBound, Acting, Busy
<1>11. pool' \in [Phones -> Entry \cup {None}] /\ polls' \subseteq Poll
  BY <1>1, <1>3, <1>4 DEF IInv, TypeOK
<1> QED BY <1>1, <1>4, <1>6, <1>9, <1>10, <1>11

(***************************************************************************)
(* ensurePhoneEntryForRow gives a row a phone of the pool that no row has: *)
(* what the row had before was lost to a removal.                          *)
(***************************************************************************)
LEMMA RowGetsPhone ==
  ASSUME IInv, NEW r \in InQueue, NEW p \in Free, EntriesForRow(r) = {},
         queue' = [queue EXCEPT ![r].phone = p], bound' = bound
  PROVE  /\ queue' \in [Rows -> RowOf \cup {None}] /\ InQueue' = InQueue
         /\ queue'[r].phone = p /\ p \in InPool
         /\ \A q \in polls :
              q.live => /\ q.row \in InQueue
                        /\ queue'[q.row].phone = q.phone \/ q.row \in bound
         /\ \A s \in InQueue :
              queue'[s].phone \notin InPool \cup {None} => s \in bound
         /\ PhonesNotShared' /\ CodeOfItsPhone'
<1> DEFINE row == [queue[r] EXCEPT !.phone = p]
<1>1. p \in InPool /\ p \notin Used /\ r \in Rows /\ queue[r] \in RowOf
  BY Members DEF Free, IInv
<1>2. p \in Phones /\ p # None
  BY <1>1, PhoneAssumption DEF InPool
<1>3. row \in RowOf /\ row.phone = p /\ row.code = queue[r].code
  BY <1>1, <1>2 DEF RowOf
<1>4. queue' = [queue EXCEPT ![r] = row]
  OBVIOUS
<1> HIDE DEF row
<1>5. queue' \in [Rows -> RowOf \cup {None}]
  BY <1>1, <1>3, <1>4 DEF IInv, TypeOK
<1>6. InQueue' = InQueue
  BY <1>1, <1>3, <1>4, NoneAssumption DEF IInv, TypeOK, InQueue
<1>7. queue[r].phone = None \/ r \in bound
  BY DEF EntriesForRow, IInv, PhonesOfPool
<1>8. \A s \in InQueue : s # r => queue'[s] = queue[s] /\ queue[s].phone # p
  BY <1>1, <1>2, <1>4 DEF Used, IInv, TypeOK, InQueue
<1>9. queue'[r] = row
  BY <1>1, <1>4 DEF IInv, TypeOK
<1>11. \A q \in polls :
         q.live => /\ q.row \in InQueue
                   /\ queue'[q.row].phone = q.phone \/ q.row \in bound
  <2>1. \A q \in polls : q.phone # None
    BY Members, PhoneAssumption DEF IInv
  <2> QED BY <1>7, <1>8, <2>1 DEF IInv, PollsOfRow
<1>12. \A s \in InQueue :
         queue'[s].phone \notin InPool \cup {None} => s \in bound
  BY <1>1, <1>3, <1>8, <1>9 DEF IInv, PhonesOfPool
<1>13. PhonesNotShared'
  BY <1>3, <1>6, <1>8, <1>9 DEF IInv, PhonesNotShared
<1>14. CodeOfItsPhone'
  <2> SUFFICES ASSUME NEW s \in InQueue, queue'[s].code \in Phones,
                      queue'[s].code # queue'[s].phone
               PROVE  bound \cap {s, queue'[s].code} # {}
    BY <1>6 DEF CodeOfItsPhone
  <2>1. CASE s # r
    BY <1>8, <2>1 DEF IInv, CodeOfItsPhone
  <2>2. CASE s = r
    BY <1>3, <1>7, <1>9, <2>2, PhoneAssumption DEF IInv, CodeOfItsPhone
  <2> QED BY <2>1, <2>2
<1> QED BY <1>1, <1>3, <1>5, <1>6, <1>9, <1>11, <1>12, <1>13, <1>14

LEMMA PollEntryKeeps ==
  ASSUME IInv, NEW p \in Phones, PollPhoneEntry(p)
  PROVE  IInv'
<1>1. /\ p \in InPool /\ ~pool[p].polling /\ queue' = queue
  BY DEF PollPhoneEntry, CanPoll, CanBind
<1>2. PICK r \in InQueue \cup {None} :
        /\ PollBegins(p, r)
        /\ r # None => queue[r].phone = p \/ pool[p].email = r
  BY DEF PollPhoneEntry, RowsOfPhone
<1>3. r # None => queue[r].phone = p \/ r \in bound
  BY <1>1, <1>2 DEF IInv, EmailsBound
<1>4. /\ pool' \in [Phones -> Entry \cup {None}] /\ polls' \subseteq Poll
      /\ InPool' = InPool
      /\ EmailsBound' /\ Owned' /\ Acting'
      /\ \A q \in polls' : \/ q \in polls
                           \/ q.phone = p /\ q.row = r /\ (q.live <=> r # None)
  BY <1>1, <1>2, PollStarts
<1>5. UNCHANGED <<actions, sync, dialog, ended, bound>>
  BY <1>2 DEF PollBegins
<1>6. TypeOK'
  BY <1>1, <1>4, <1>5 DEF IInv, TypeOK
<1>7. InQueue' = InQueue
  BY <1>1 DEF InQueue
<1>8. PollsOfRow'
  BY <1>1, <1>3, <1>4, <1>5, <1>7 DEF IInv, PollsOfRow
<1>9. PhonesOfPool' /\ PhonesNotShared' /\ CodeOfItsPhone'
  BY <1>1, <1>4, <1>5, <1>7
     DEF IInv, PhonesOfPool, PhonesNotShared, CodeOfItsPhone
<1> QED BY <1>4, <1>6, <1>8, <1>9 DEF IInv

LEMMA PollSelectedKeeps ==
  ASSUME IInv, NEW r \in Rows, PollSelectedPhoneCode(r)
  PROVE  IInv'
<1> DEFINE has == EntriesForRow(r) # {}
<1>1. r \in InQueue
  BY DEF PollSelectedPhoneCode
<1>2. PICK p \in IF has THEN EntriesForRow(r) ELSE Free :
        /\ queue' = IF has THEN queue ELSE [queue EXCEPT ![r].phone = p]
        /\ IF pool[p].polling
           THEN UNCHANGED <<pool, requests, dialog, ended, bound>>
           ELSE PollBegins(p, r)
  BY DEF PollSelectedPhoneCode
<1>3. UNCHANGED <<actions, sync, dialog, ended, bound>>
  BY <1>2 DEF PollBegins, requests
<1>4. /\ queue' \in [Rows -> RowOf \cup {None}] /\ InQueue' = InQueue
      /\ p \in InPool
      /\ queue'[r].phone = p \/ r \in bound
      /\ \A q \in polls :
           q.live => /\ q.row \in InQueue
                     /\ queue'[q.row].phone = q.phone \/ q.row \in bound
      /\ \A s \in InQueue :
           queue'[s].phone \notin InPool \cup {None} => s \in bound
      /\ PhonesNotShared' /\ CodeOfItsPhone'
  <2>1. CASE has
    <3>1. queue' = queue /\ bound' = bound /\ InQueue' = InQueue
      BY <1>2, <1>3, <2>1 DEF InQueue
    <3>2. p \in InPool /\ (queue[r].phone = p \/ pool[p].email = r)
      BY <1>2, <2>1 DEF EntriesForRow
    <3>3. r # None
      BY PhoneAssumption
    <3>4. queue[r].phone = p \/ r \in bound
      BY <3>2, <3>3 DEF IInv, EmailsBound
    <3> QED
      BY <3>1, <3>2, <3>4
         DEF IInv, TypeOK, PollsOfRow, PhonesOfPool, PhonesNotShared,
             CodeOfItsPhone
  <2>2. CASE ~has
    BY <1>1, <1>2, <1>3, <2>2, RowGetsPhone
  <2> QED BY <2>1, <2>2
<1>5. r # None
  BY PhoneAssumption
<1>6. /\ pool' \in [Phones -> Entry \cup {None}] /\ polls' \subseteq Poll
      /\ InPool' = InPool
      /\ EmailsBound' /\ Owned' /\ Acting'
      /\ \A q \in polls' : q \in polls \/ (q.phone = p /\ q.row = r)
  <2>1. CASE pool[p].polling
    <3>1. UNCHANGED <<pool, polls>> /\ InPool' = InPool
      BY <1>2, <2>1 DEF requests, InPool
    <3> QED
      BY <1>3, <3>1 DEF IInv, TypeOK, EmailsBound, Owned, Acting, Busy
  <2>2. CASE ~pool[p].polling
    <3>1. PollBegins(p, r)
      BY <1>2, <2>2
    <3> QED BY <1>1, <1>4, <2>2, <3>1, PollStarts
  <2> QED BY <2>1, <2>2
<1> HIDE DEF has
<1>7. TypeOK'
  BY <1>3, <1>4, <1>6 DEF IInv, TypeOK
<1>8. PollsOfRow'
  BY <1>1, <1>3, <1>4, <1>6 DEF PollsOfRow
<1>9. PhonesOfPool'
  BY <1>3, <1>4, <1>6 DEF PhonesOfPool
<1> QED BY <1>4, <1>6, <1>7, <1>8, <1>9 DEF IInv
-----------------------------------------------------------------------------
\* A poll that is over has left its entry.
LEMMA PollEnds ==
  ASSUME IInv, NEW q \in polls, polls' = polls \ {q},
         NEW email \in Rows \cup {None},
         email # pool[q.phone].email => q.own /\ {q.phone, email} \subseteq bound',
         pool' = IF q.own
                 THEN [pool EXCEPT ![q.phone].polling = FALSE,
                                   ![q.phone].email = email]
                 ELSE pool,
         bound \subseteq bound', UNCHANGED actions
  PROVE  /\ pool' \in [Phones -> Entry \cup {None}] /\ polls' \subseteq Poll
         /\ InPool' = InPool
         /\ EmailsBound' /\ Owned' /\ Acting'
<1>1. polls' \subseteq Poll
  BY DEF IInv, TypeOK
<1>2. CASE ~q.own
  <2>1. pool' = pool /\ InPool' = InPool
    BY <1>2 DEF InPool
  <2>2. EmailsBound' /\ Owned'
    BY <1>2, <2>1 DEF IInv, EmailsBound, Owned
  <2>3. pool' \in [Phones -> Entry \cup {None}] /\ Acting'
    BY <2>1 DEF IInv, TypeOK, Acting, Busy
  <2> QED BY <1>1, <2>1, <2>2, <2>3
<1>3. CASE q.own
  <2> DEFINE entry == [pool[q.phone] EXCEPT !.polling = FALSE, !.email = email]
  <2>1. /\ q.phone \in InPool /\ q.phone \in Phones
        /\ pool[q.phone] \in Entry
    BY <1>3, Members DEF IInv, Owned
  <2>2. /\ entry \in Entry /\ entry.polling = FALSE /\ entry.email = email
        /\ entry # None
    BY <2>1, NoneAssumption DEF Entry
  <2>3. pool' = [pool EXCEPT ![q.phone] = entry]
    BY <1>3
  <2> HIDE DEF entry
  <2>4. \A p \in Phones : pool'[p] = IF p = q.phone THEN entry ELSE pool[p]
    BY <2>3 DEF IInv, TypeOK
  <2>5. InPool' = InPool
    BY <2>1, <2>2, <2>4 DEF InPool
  <2>6. EmailsBound'
    <3> SUFFICES ASSUME NEW p \in InPool, pool'[p].email # None
                 PROVE  {p, pool'[p].email} \subseteq bound'
      BY <2>5 DEF EmailsBound
    <3>1. CASE p = q.phone
      BY <2>1, <2>2, <2>4, <3>1 DEF IInv, EmailsBound
    <3>2. CASE p # q.phone
      <4>1. pool'[p] = pool[p]
        BY <2>4, <3>2 DEF InPool
      <4> QED BY <4>1 DEF IInv, EmailsBound
    <3> QED BY <3>1, <3>2
  <2>7. \A k \in polls' : k.own => k.phone # q.phone
    BY <1>3 DEF IInv, Owned
  <2>8. \A k \in polls' : k.own => k.phone \in InPool /\ pool'[k.phone].polling
    BY <2>4, <2>7 DEF IInv, Owned, InPool
  <2>9. \A p \in InPool : pool'[p].polling
                            => \E k \in polls' : k.own /\ k.phone = p
    BY <2>2, <2>4 DEF IInv, Owned, InPool
  <2>10. Owned'
    BY <2>5, <2>8, <2>9 DEF IInv, Owned
  <2>11. pool' \in [Phones -> Entry \cup {None}]
    BY <2>2, <2>3 DEF IInv, TypeOK
  <2>12. Acting'
    BY <2>5 DEF IInv, Acting, Busy
  <2> QED
    BY <1>1, <2>5, <2>6, <2>10, <2>11, <2>12
<1> QED BY <1>2, <1>3

LEMMA PollAnsweredKeeps ==
  ASSUME IInv, NEW q \in polls, PollAnswered(q)
  PROVE  IInv'
<1>1. PICK found, oneToOne \in BOOLEAN :
        /\ polls' = polls \ {q}
        /\ pool' = IF ~q.own THEN pool ELSE
             [pool EXCEPT ![q.phone].polling = FALSE,
                          ![q.phone].email =
                             IF Binds(q, oneToOne) THEN q.row ELSE @]
        /\ queue' = IF ~q.live THEN queue ELSE
             [queue EXCEPT ![q.row] =
               [phone |-> q.phone, code |-> IF found THEN q.phone ELSE @.code]]
        /\ bound' = IF Binds(q, oneToOne) THEN bound \cup {q.phone, q.row}
                    ELSE bound
        /\ UNCHANGED <<actions, sync, dialog, ended>>
  BY DEF PollAnswered
<1>2. q \in Poll /\ q.phone \in Phones /\ q.row \in Rows \cup {None}
  BY Members DEF IInv
<1>3. /\ pool' \in [Phones -> Entry \cup {None}] /\ polls' \subseteq Poll
      /\ InPool' = InPool
      /\ EmailsBound' /\ Owned' /\ Acting'
  <2>1. CASE ~q.own
    <3>1. pool' = pool /\ bound \subseteq bound' /\ InPool' = InPool
      BY <1>1, <2>1 DEF InPool
    <3>2. polls' \subseteq Poll
      BY <1>1 DEF IInv, TypeOK
    <3> QED
      BY <1>1, <2>1, <3>1, <3>2
         DEF IInv, TypeOK, EmailsBound, Owned, Acting, Busy
  <2>2. CASE q.own
    <3> DEFINE email == IF Binds(q, oneToOne) THEN q.row
                        ELSE pool[q.phone].email
    <3>1. pool[q.phone] \in Entry
      BY <2>2, Members DEF IInv, Owned
    <3>2. email \in Rows \cup {None}
      BY <1>2, <3>1 DEF Entry
    <3>3. email # pool[q.phone].email => {q.phone, email} \subseteq bound'
      BY <1>1
    <3>4. pool' = [pool EXCEPT ![q.phone].polling = FALSE,
                               ![q.phone].email = email]
      BY <1>1, <2>2, <3>1 DEF Entry
    <3> HIDE DEF email
    <3>5. bound \subseteq bound'
      BY <1>1
    <3> QED BY <1>1, <2>2, <3>2, <3>3, <3>4, <3>5, PollEnds
  <2> QED BY <2>1, <2>2
<1>4. bound \subseteq bound' /\ bound' \subseteq Phones \cup Rows
  BY <1>1, <1>2 DEF IInv, TypeOK, Binds
<1>5. /\ queue' \in [Rows -> RowOf \cup {None}] /\ InQueue' = InQueue
      /\ \A s \in InQueue :
           \/ queue'[s] = queue[s]
           \/ /\ s = q.row /\ q.live /\ queue'[s].phone = q.phone
              /\ queue'[s].code \in {q.phone, queue[s].code}
  <2>1. CASE ~q.live
    BY <1>1, <2>1 DEF IInv, TypeOK, InQueue
  <2>2. CASE q.live
    <3> DEFINE row == [phone |-> q.phone,
                       code |-> IF found THEN q.phone ELSE queue[q.row].code]
    <3>1. q.row \in InQueue /\ q.row \in Rows /\ queue[q.row] \in RowOf
      BY <2>2, Members DEF IInv, PollsOfRow
    <3>2. /\ row \in RowOf /\ row # None /\ row.phone = q.phone
          /\ row.code \in {q.phone, queue[q.row].code}
      BY <1>2, <3>1, NoneAssumption DEF RowOf
    <3>3. queue' = [queue EXCEPT ![q.row] = row]
      BY <1>1, <2>2
    <3> HIDE DEF row
    <3> QED BY <2>2, <3>1, <3>2, <3>3 DEF IInv, TypeOK, InQueue
  <2> QED BY <2>1, <2>2
<1>6. q.live => queue[q.row].phone = q.phone \/ q.row \in bound
  BY DEF IInv, PollsOfRow
<1>7. \A s \in InQueue : \/ queue'[s].phone = queue[s].phone
                         \/ s \in bound
  BY <1>5, <1>6
<1>8. PollsOfRow'
  BY <1>1, <1>4, <1>5, <1>7 DEF IInv, PollsOfRow
<1>9. PhonesOfPool'
  BY <1>3, <1>4, <1>5, <1>7 DEF IInv, PhonesOfPool
<1>10. PhonesNotShared'
  BY <1>4, <1>5, <1>7 DEF IInv, PhonesNotShared
<1>11. CodeOfItsPhone'
  BY <1>4, <1>5, <1>6, <1>7 DEF IInv, CodeOfItsPhone
<1>12. TypeOK'
  BY <1>1, <1>3, <1>4, <1>5 DEF IInv, TypeOK
<1> QED BY <1>3, <1>8, <1>9, <1>10, <1>11, <1>12 DEF IInv

LEMMA PollFailsKeeps ==
  ASSUME IInv, NEW q \in polls, PollFails(q)
  PROVE  IInv'
<1>1. /\ polls' = polls \ {q}
      /\ pool' = IF q.own THEN [pool EXCEPT ![q.phone].polling = FALSE] ELSE pool
      /\ UNCHANGED <<queue, actions, sync, dialog, ended, bound>>
  BY DEF PollFails
<1>2. /\ pool' \in [Phones -> Entry \cup {None}] /\ polls' \subseteq Poll
      /\ InPool' = InPool
      /\ EmailsBound' /\ Owned' /\ Acting'
  <2>1. CASE ~q.own
    <3>1. pool' = pool /\ InPool' = InPool /\ polls' \subseteq Poll
      BY <1>1, <2>1 DEF IInv, TypeOK, InPool
    <3> QED
      BY <1>1, <2>1, <3>1 DEF IInv, TypeOK, EmailsBound, Owned, Acting, Busy
  <2>2. CASE q.own
    <3> DEFINE email == pool[q.phone].email
    <3>1. pool[q.phone] \in Entry /\ email \in Rows \cup {None}
      BY <2>2, Members DEF IInv, Owned, Entry
    <3>2. [pool[q.phone] EXCEPT !.polling = FALSE]
            = [pool[q.phone] EXCEPT !.polling = FALSE, !.email = email]
      BY <3>1 DEF Entry
    <3>3. pool' = [pool EXCEPT ![q.phone].polling = FALSE,
                               ![q.phone].email = email]
      BY <1>1, <2>2, <3>2
    <3> QED BY <1>1, <2>2, <3>1, <3>3, PollEnds
  <2> QED BY <2>1, <2>2
<1>3. TypeOK'
  BY <1>1, <1>2 DEF IInv, TypeOK
<1>4. InQueue' = InQueue
  BY <1>1 DEF InQueue
<1>5. PollsOfRow' /\ PhonesOfPool' /\ PhonesNotShared' /\ CodeOfItsPhone'
  BY <1>1, <1>2, <1>4
     DEF IInv, PollsOfRow, PhonesOfPool, PhonesNotShared, CodeOfItsPhone
<1> QED BY <1>2, <1>3, <1>5 DEF IInv
-----------------------------------------------------------------------------
(***************************************************************************)
(* The queue.  A row that leaves it, or comes again, is a new object.      *)
(***************************************************************************)
LEMMA DetachedPolls ==
  ASSUME IInv, NEW r \in Rows, polls' = Detached(r),
         UNCHANGED <<pool, actions>>
  PROVE  /\ polls' \subseteq Poll /\ Owned' /\ Acting'
         /\ \A q \in polls' : q.live => q \in polls /\ q.row # r
<1> DEFINE off(q) == IF q.row = r THEN [q EXCEPT !.live = FALSE] ELSE q
<1>1. polls' = {off(q) : q \in polls}
  BY DEF Detached
<1>2. ASSUME NEW q \in polls
      PROVE  /\ off(q) \in Poll /\ off(q).own = q.own
             /\ off(q).phone = q.phone /\ off(q).row = q.row
             /\ off(q).live => off(q) = q /\ q.row # r
  <2>1. q \in Poll
    BY Members DEF IInv
  <2>2. CASE q.row = r
    BY <2>1, <2>2 DEF Poll
  <2>3. CASE q.row # r
    BY <2>1, <2>3
  <2> QED BY <2>2, <2>3
<1> HIDE DEF off
<1>3. InPool' = InPool
  BY DEF InPool
<1>4. Owned'
  <2>1. \A q \in polls' : q.own => q.phone \in InPool /\ pool[q.phone].polling
    BY <1>1, <1>2 DEF IInv, Owned
  <2>2. \A q, k \in polls' : q.own /\ k.own /\ q.phone = k.phone => q = k
    BY <1>1, <1>2 DEF IInv, Owned
  <2>3. \A p \in InPool :
          pool[p].polling => \E q \in polls' : q.own /\ q.phone = p
    BY <1>1, <1>2 DEF IInv, Owned
  <2> QED BY <1>3, <2>1, <2>2, <2>3 DEF Owned
<1>5. Acting'
  BY <1>3 DEF IInv, Acting, Busy
<1> QED BY <1>1, <1>2, <1>4, <1>5

LEMMA QueueKeeps ==
  ASSUME IInv, NEW r \in Rows, AddToQueue(r) \/ RemoveFromQueue(r)
  PROVE  IInv'
<1> DEFINE row == IF RemoveFromQueue(r) THEN None
                  ELSE IF queue[r] = None THEN NewRow ELSE queue[r]
<1>1. /\ polls' = Detached(r)
      /\ UNCHANGED <<pool, actions, sync, dialog, ended, bound>>
  BY DEF AddToQueue, RemoveFromQueue
<1>2. queue' = [queue EXCEPT ![r] = row]
  BY DEF AddToQueue, RemoveFromQueue
<1>3. row \in {None, NewRow, queue[r]}
  OBVIOUS
<1>4. NewRow \in RowOf /\ NewRow.phone = None /\ NewRow.code = None
  BY DEF NewRow, RowOf
<1> HIDE DEF row
<1>5. queue' \in [Rows -> RowOf \cup {None}]
  BY <1>2, <1>3, <1>4 DEF IInv, TypeOK
<1>6. \A s \in InQueue' :
        \/ s \in InQueue /\ queue'[s] = queue[s]
        \/ s = r /\ queue'[s] = NewRow
  BY <1>2, <1>3 DEF IInv, TypeOK, InQueue
<1>7. \A s \in InQueue : s # r => s \in InQueue' /\ queue'[s] = queue[s]
  BY <1>2 DEF IInv, TypeOK, InQueue
<1>8. /\ polls' \subseteq Poll /\ Owned' /\ Acting'
      /\ \A q \in polls' : q.live => q \in polls /\ q.row # r
  BY <1>1, DetachedPolls
<1>9. TypeOK'
  BY <1>1, <1>5, <1>8 DEF IInv, TypeOK
<1>10. InPool' = InPool
  BY <1>1 DEF InPool
<1>11. EmailsBound'
  BY <1>1, <1>10 DEF IInv, EmailsBound
<1>12. PollsOfRow'
  BY <1>1, <1>7, <1>8 DEF IInv, PollsOfRow
<1>13. PhonesOfPool'
  BY <1>1, <1>4, <1>6, <1>10 DEF IInv, PhonesOfPool
<1>14. PhonesNotShared'
  BY <1>1, <1>4, <1>6 DEF IInv, PhonesNotShared
<1>15. CodeOfItsPhone'
  BY <1>1, <1>4, <1>6, PhoneAssumption DEF IInv, CodeOfItsPhone
<1> QED BY <1>8, <1>9, <1>11, <1>12, <1>13, <1>14, <1>15 DEF IInv

LEMMA SubmitKeeps ==
  ASSUME IInv, SubmitManualCodeDialog
  PROVE  IInv'
<1>1. /\ queue' = IF dialog \in InQueue
                   THEN [queue EXCEPT ![dialog].code = Manual] ELSE queue
      /\ dialog' = None
      /\ UNCHANGED <<pool, polls, actions, sync, ended, bound>>
  BY DEF SubmitManualCodeDialog, requests
<1>2. CASE dialog \notin InQueue
  <2>1. queue' = queue
    BY <1>1, <1>2
  <2>2. TypeOK' /\ Acting'
    BY <1>1, <2>1 DEF IInv, TypeOK, Acting, Busy, InPool
  <2> QED BY <1>1, <2>1, <2>2, NothingChanges
<1>3. CASE dialog \in InQueue
  <2> DEFINE row == [queue[dialog] EXCEPT !.code = Manual]
  <2>1. dialog \in Rows /\ queue[dialog] \in RowOf
    BY <1>3, Members DEF IInv
  <2>2. /\ row \in RowOf /\ row.phone = queue[dialog].phone
        /\ row.code = Manual /\ row # None
    BY <2>1, NoneAssumption DEF RowOf
  <2>3. queue' = [queue EXCEPT ![dialog] = row]
    BY <1>1, <1>3
  <2> HIDE DEF row
  <2>4. queue' \in [Rows -> RowOf \cup {None}] /\ InQueue' = InQueue
    <3>1. queue' \in [Rows -> RowOf \cup {None}]
      BY <2>2, <2>3 DEF IInv, TypeOK
    <3>2. \A s \in Rows : queue'[s] = IF s = dialog THEN row ELSE queue[s]
      BY <2>3 DEF IInv, TypeOK
    <3>3. InQueue' = InQueue
      BY <1>3, <2>2, <3>2 DEF InQueue
    <3> QED BY <3>1, <3>3
  <2>5. \A s \in InQueue : /\ queue'[s].phone = queue[s].phone
                            /\ queue'[s].code \in {Manual, queue[s].code}
    BY <2>2, <2>3 DEF IInv, TypeOK, InQueue
  <2>6. InPool' = InPool
    BY <1>1 DEF InPool
  <2>7. TypeOK'
    BY <1>1, <2>4 DEF IInv, TypeOK
  <2>8. EmailsBound' /\ Owned' /\ Acting'
    BY <1>1, <2>6 DEF IInv, EmailsBound, Owned, Acting, Busy
  <2>9. PollsOfRow' /\ PhonesOfPool' /\ PhonesNotShared'
    BY <1>1, <2>4, <2>5, <2>6
       DEF IInv, PollsOfRow, PhonesOfPool, PhonesNotShared
  <2>10. CodeOfItsPhone'
    BY <1>1, <2>4, <2>5, PhoneAssumption DEF IInv, CodeOfItsPhone
  <2> QED BY <2>7, <2>8, <2>9, <2>10 DEF IInv
<1> QED BY <1>2, <1>3

\* The user's dialog, an order's action, and the platform's list.
LEMMA OrdersKeep ==
  ASSUME IInv,
         \/ \E r \in Rows : OpenManualCodeDialog(r)
         \/ CloseManualCodeDialog
         \/ \E p \in Phones : \/ \E a \in {"resend", "end"} : ActionBegins(p, a)
                               \/ PlatformEnds(p) \/ ActionFails(p)
         \/ PlatformLists \/ SyncFails
  PROVE  IInv'
<1>1. UNCHANGED <<pool, queue, polls, bound>>
  BY DEF OpenManualCodeDialog, CloseManualCodeDialog, ActionBegins, PlatformEnds,
         ActionFails, PlatformLists, SyncFails, requests
<1>2. InPool' = InPool
  BY <1>1 DEF InPool
<1>3. CASE \/ \E r \in Rows : OpenManualCodeDialog(r)
           \/ CloseManualCodeDialog
  <2>1. dialog' \in Rows \cup {None} /\ UNCHANGED <<actions, sync, ended>>
    BY <1>3 DEF OpenManualCodeDialog, CloseManualCodeDialog, requests
  <2> QED BY <1>1, <1>2, <2>1, NothingChanges DEF IInv, TypeOK, Acting, Busy
<1>4. CASE PlatformLists \/ SyncFails
  <2>1. sync' \in [at : {"off", "listed"}, items : SUBSET Orders]
    BY <1>4 DEF PlatformLists, SyncFails, SyncOff
  <2>2. UNCHANGED <<actions, dialog, ended>>
    BY <1>4 DEF PlatformLists, SyncFails
  <2> QED BY <1>1, <1>2, <2>1, <2>2, NothingChanges DEF IInv, TypeOK, Acting, Busy
<1>5. ASSUME NEW p \in Phones,
             \/ \E a \in {"resend", "end"} : ActionBegins(p, a)
             \/ PlatformEnds(p) \/ ActionFails(p)
      PROVE  IInv'
  <2>1. PICK a \in {"none", "resend", "end", "done"} :
          /\ actions' = [actions EXCEPT ![p] = a]
          /\ p \in InPool /\ p \in Orders
    BY <1>5 DEF ActionBegins, PlatformEnds, ActionFails, CanAct, CanBind,
                IInv, Acting, Busy
  <2>2. UNCHANGED <<sync, dialog>> /\ ended' \in {ended, ended \cup {p}}
    BY <1>5 DEF ActionBegins, PlatformEnds, ActionFails
  <2>3. TypeOK'
    BY <1>1, <2>1, <2>2 DEF IInv, TypeOK
  <2>4. Acting'
    BY <1>2, <2>1 DEF IInv, TypeOK, Acting, Busy
  <2> QED BY <1>1, <2>3, <2>4, NothingChanges
<1> QED BY <1>3, <1>4, <1>5

LEMMA ReloadKeeps ==
  ASSUME IInv, Reload
  PROVE  IInv'
<1>1. /\ pool' = [p \in Phones |->
            IF p \in InPool
            THEN [pool[p] EXCEPT !.terminal = FALSE, !.polling = FALSE]
            ELSE None]
      /\ polls' = {} /\ actions' = [p \in Phones |-> "none"]
      /\ sync' = SyncOff /\ dialog' = None
      /\ UNCHANGED <<queue, ended, bound>>
  BY DEF Reload
<1>2. ASSUME NEW p \in Phones
      PROVE  /\ pool'[p] \in Entry \cup {None}
             /\ p \in InPool => /\ pool'[p] # None /\ ~ pool'[p].polling
                                /\ pool'[p].email = pool[p].email
             /\ p \notin InPool => pool'[p] = None
  <2>1. CASE p \in InPool
    <3> DEFINE entry == [pool[p] EXCEPT !.terminal = FALSE, !.polling = FALSE]
    <3>1. pool[p] \in Entry /\ pool'[p] = entry
      BY <1>1, <2>1, Members DEF IInv
    <3>2. /\ entry \in Entry /\ entry # None /\ entry.polling = FALSE
          /\ entry.email = pool[p].email
      BY <3>1, NoneAssumption DEF Entry
    <3> HIDE DEF entry
    <3> QED BY <2>1, <3>1, <3>2
  <2>2. CASE p \notin InPool
    BY <1>1, <2>2
  <2> QED BY <2>1, <2>2
<1>3. InPool' = InPool /\ InQueue' = InQueue
  BY <1>1, <1>2 DEF InPool, InQueue
<1>4. TypeOK'
  <2>1. pool' \in [Phones -> Entry \cup {None}]
    BY <1>1, <1>2
  <2> QED BY <1>1, <2>1 DEF IInv, TypeOK, SyncOff
<1>5. EmailsBound' /\ Owned' /\ Acting'
  <2>1. \A p \in InPool : p \in Phones
    BY DEF InPool
  <2>2. EmailsBound'
    BY <1>1, <1>2, <1>3, <2>1 DEF IInv, EmailsBound
  <2>3. Owned'
    BY <1>1, <1>2, <1>3, <2>1 DEF Owned
  <2>4. Acting'
    BY <1>1 DEF Acting, Busy
  <2> QED BY <2>2, <2>3, <2>4
<1>6. PollsOfRow' /\ PhonesOfPool' /\ PhonesNotShared' /\ CodeOfItsPhone'
  BY <1>1, <1>3 DEF IInv, PollsOfRow, PhonesOfPool, PhonesNotShared, CodeOfItsPhone
<1> QED BY <1>4, <1>5, <1>6 DEF IInv

-----------------------------------------------------------------------------
LEMMA InitIInv ==
  ASSUME Init
  PROVE  IInv
<1>1. InPool = {} /\ InQueue = {}
  BY DEF Init, InPool, InQueue
<1>2. TypeOK
  BY DEF Init, TypeOK, SyncOff
<1> QED
  BY <1>1, <1>2 DEF Init, IInv, EmailsBound, PollsOfRow, PhonesOfPool, Owned,
                    Acting, Busy, PhonesNotShared, CodeOfItsPhone

LEMMA NextKeepsIInv ==
  ASSUME IInv, [Next]_vars
  PROVE  IInv'
<1>1. CASE Enter
  BY <1>1, AddKeeps, ImportKeeps DEF Enter
<1>2. CASE Entries
  BY <1>2, RemoveEntryKeeps, PollEntryKeeps, BindKeeps, OrdersKeep,
     ActionAnsweredKeeps DEF Entries
<1>3. CASE QueueRows
  BY <1>3, QueueKeeps, PollSelectedKeeps, OrdersKeep DEF QueueRows
<1>4. CASE PollReturns
  BY <1>4, PollAnsweredKeeps, PollFailsKeeps DEF PollReturns
<1>5. CASE SubmitManualCodeDialog
  BY <1>5, SubmitKeeps
<1>6. CASE CloseManualCodeDialog \/ PlatformLists \/ SyncFails
  BY <1>6, OrdersKeep
<1>7. CASE SyncAnswered
  BY <1>7, SyncAnsweredKeeps
<1>8. CASE Reload
  BY <1>8, ReloadKeeps
<1>9. CASE UNCHANGED vars
  <2>1. UNCHANGED <<pool, queue, polls, actions, sync, dialog, ended, bound>>
    BY <1>9 DEF vars
  <2>2. TypeOK' /\ Acting'
    BY <2>1 DEF IInv, TypeOK, Acting, Busy, InPool
  <2> QED BY <2>1, <2>2, NothingChanges
<1> QED
  BY <1>1, <1>2, <1>3, <1>4, <1>5, <1>6, <1>7, <1>8, <1>9 DEF Next

\* The polls that will write to an entry are none, or one.
LEMMA OwnPolls ==
  ASSUME IInv
  PROVE  OnePollPerEntry
<1> SUFFICES ASSUME NEW p \in InPool
             PROVE  Cardinality({q \in polls : q.phone = p /\ q.own})
                      = IF pool[p].polling THEN 1 ELSE 0
  BY DEF OnePollPerEntry
<1> DEFINE own == {q \in polls : q.phone = p /\ q.own}
<1>1. CASE pool[p].polling
  <2>1. PICK q \in polls : q.own /\ q.phone = p
    BY <1>1 DEF IInv, Owned
  <2>2. own = {q}
    BY <2>1 DEF IInv, Owned
  <2> QED BY <1>1, <2>2, FS_Singleton
<1>2. CASE ~pool[p].polling
  <2>1. own = {}
    BY <1>2 DEF IInv, Owned
  <2> QED BY <1>2, <2>1, FS_EmptySet
<1> QED BY <1>1, <1>2

LEMMA Invariance == Spec => []IInv
<1>1. Init => IInv
  BY InitIInv
<1>2. IInv /\ [Next]_vars => IInv'
  BY NextKeepsIInv
<1> QED BY <1>1, <1>2, PTL DEF Spec

(***************************************************************************)
(* The pool, its polls and its orders are well typed, whatever the user    *)
(* and the platform do.                                                    *)
(***************************************************************************)
THEOREM PoolIsTyped == Spec => []TypeOK
<1>1. IInv => TypeOK
  BY DEF IInv
<1> QED BY <1>1, Invariance, PTL

(***************************************************************************)
(* What the page assigns from the pool goes to one row, for any numbers,   *)
(* rows and orders, through polls, synchronisations and reloads: two rows  *)
(* share a phone only after the user bound or removed it or one of them.   *)
(***************************************************************************)
THEOREM PhonesGoToOneRow == Spec => []PhonesNotShared
<1>1. IInv => PhonesNotShared
  BY DEF IInv
<1> QED BY <1>1, Invariance, PTL

(***************************************************************************)
(* The code a row shows was sent to the phone it shows, although polls     *)
(* outlive the bindings they began with.                                   *)
(***************************************************************************)
THEOREM CodesGoToTheirRow == Spec => []CodeOfItsPhone
<1>1. IInv => CodeOfItsPhone
  BY DEF IInv
<1> QED BY <1>1, Invariance, PTL

(***************************************************************************)
(* An entry that is being polled has one poll of its own on its way, and   *)
(* an entry that is not has none.                                          *)
(***************************************************************************)
THEOREM PollsDoNotOverlap == Spec => []OnePollPerEntry
<1> QED BY OwnPolls, Invariance, PTL
=============================================================================
