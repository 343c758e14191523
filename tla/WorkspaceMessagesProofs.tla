------------------------ MODULE WorkspaceMessagesProofs ------------------------
(***************************************************************************)
(* Proofs about WorkspaceMessages, for any number of messages, threads,    *)
(* restarts and failing writes: type correctness, and that the files and   *)
(* locks keep the promises of MessageCache.                                *)
(***************************************************************************)
EXTENDS WorkspaceMessages, FiniteSetTheorems, FunctionTheorems,
        WellFoundedInduction, TLAPS

-----------------------------------------------------------------------------
(***************************************************************************)
(* The newest messages of a set.                                           *)
(***************************************************************************)
LEMMA LessIsWellFounded ==
  \E less : /\ IsWellFoundedOn(less, Nat)
            /\ \A x, y \in Nat : (<<x, y>> \in less) <=> (x < y)
<1>1. \A x, y \in Nat : (<<x, y>> \in OpToRel(<, Nat)) <=> (x < y)
  BY DEF OpToRel
<1> QED BY <1>1, NatLessThanWellFounded, Zenon

LEMMA Smallest ==
  ASSUME NEW S \in SUBSET Nat, S # {}
  PROVE  \E x \in S : \A y \in S : x <= y
<1>1. PICK less : /\ IsWellFoundedOn(less, Nat)
                  /\ \A x, y \in Nat : (<<x, y>> \in less) <=> (x < y)
  BY LessIsWellFounded
<1>2. PICK x \in S : \A y \in S : ~ (<<y, x>> \in less)
  <2>1. S \subseteq Nat
    OBVIOUS
  <2>2. IsWellFoundedOn(less, Nat)
    BY <1>1
  <2> QED BY <2>1, <2>2, WFMin
<1>3. \A y \in S : y \in Nat
  OBVIOUS
<1>4. \A y \in S : ~(y < x)
  BY <1>1, <1>2, <1>3, Zenon
<1> QED BY <1>2, <1>3, <1>4

Newer(ms, m) == {n \in ms : n > m}

LEMMA CountsAreNat ==
  ASSUME NEW ms \in SUBSET Messages
  PROVE  /\ IsFiniteSet(ms) /\ Cardinality(ms) \in Nat
         /\ \A m \in Messages : /\ IsFiniteSet(Newer(ms, m))
                                /\ Cardinality(Newer(ms, m)) \in Nat
<1>1. \A ns \in SUBSET Messages : IsFiniteSet(ns) /\ Cardinality(ns) \in Nat
  BY ConstantsAssumption, FS_Subset, FS_CardinalityType
<1>2. \A m \in Messages : Newer(ms, m) \in SUBSET Messages
  BY DEF Newer
<1> QED BY <1>1, <1>2

\* The newest are at most as many as a file keeps.
LEMMA NewestSize ==
  ASSUME NEW ms \in SUBSET Messages
  PROVE  Newest(ms) \subseteq ms /\ Cardinality(Newest(ms)) <= Cap
<1> DEFINE kept == Newest(ms)
<1>1. kept \subseteq ms /\ kept \in SUBSET Nat /\ Cap \in Nat \ {0}
  BY ConstantsAssumption DEF Newest
<1>2. CASE kept = {}
  BY <1>1, <1>2, FS_EmptySet
<1>3. CASE kept # {}
  <2>1. PICK x \in kept : \A y \in kept : x <= y
    BY <1>1, <1>3, Smallest
  <2>2. /\ IsFiniteSet(kept) /\ Cardinality(kept) \in Nat
        /\ IsFiniteSet(Newer(ms, x)) /\ Cardinality(Newer(ms, x)) \in Nat
    BY <1>1, CountsAreNat
  <2>3. Cardinality(Newer(ms, x)) < Cap
    BY DEF Newest, Newer
  <2>4. kept \ {x} \subseteq Newer(ms, x)
    BY <1>1, <2>1 DEF Newer
  <2>5. Cardinality(kept \ {x}) <= Cardinality(Newer(ms, x))
    BY <2>2, <2>4, FS_Subset
  <2>6. Cardinality(kept \ {x}) = Cardinality(kept) - 1
    BY <2>2, FS_RemoveElement
  <2> QED BY <1>1, <2>2, <2>3, <2>5, <2>6
<1> QED BY <1>2, <1>3

\* Whatever is cut off is older than all that a file keeps.
LEMMA NewestKeeps ==
  ASSUME NEW ms \in SUBSET Messages, NEW m \in ms \ Newest(ms)
  PROVE  Cardinality(Newer(Newest(ms), m)) >= Cap
<1> DEFINE cut == ms \ Newest(ms)
           counts == {Cardinality(Newer(ms, x)) : x \in cut}
<1>1. Newest(ms) \subseteq ms /\ Messages \subseteq Nat
  BY NewestSize, ConstantsAssumption
<1>2. counts \in SUBSET Nat /\ counts # {}
  BY CountsAreNat
<1>3. PICK x \in cut :
        \A y \in cut : Cardinality(Newer(ms, x)) <= Cardinality(Newer(ms, y))
  <2> HIDE DEF cut
  <2>1. PICK c \in counts : \A d \in counts : c <= d
    BY <1>2, Smallest
  <2> QED BY <2>1
<1>4. Cardinality(Newer(ms, x)) >= Cap
  BY CountsAreNat, ConstantsAssumption DEF Newest, Newer
<1>0. \A n \in ms : n \in Nat
  BY <1>1
<1>5. ASSUME NEW y \in cut, y > x
      PROVE  FALSE
  <2>1. Newer(ms, y) \subseteq Newer(ms, x) \ {y} /\ y \in Newer(ms, x)
    <3>1. \A n \in ms : n > y => n > x /\ n # y
      BY <1>0, <1>5
    <3> QED BY <1>5, <3>1 DEF Newer
  <2>2. IsFiniteSet(Newer(ms, x)) /\ Cardinality(Newer(ms, x)) \in Nat
    BY CountsAreNat
  <2>3. /\ IsFiniteSet(Newer(ms, x) \ {y})
        /\ Cardinality(Newer(ms, x) \ {y}) = Cardinality(Newer(ms, x)) - 1
    BY <2>1, <2>2, FS_RemoveElement
  <2>4. Cardinality(Newer(ms, y)) <= Cardinality(Newer(ms, x)) - 1
    BY <2>1, <2>3, FS_Subset
  <2>5. Cardinality(Newer(ms, y)) \in Nat
    BY CountsAreNat
  <2> QED BY <1>3, <1>5, <2>2, <2>4, <2>5
<1>6. Newer(ms, x) \subseteq Newer(Newest(ms), m)
  <2>1. ~(m > x) /\ m \in ms /\ x \in ms
    BY <1>5
  <2>2. \A n \in ms : n > x => n \notin cut /\ n > m
    BY <1>0, <1>5, <2>1
  <2> QED BY <2>2 DEF Newer
<1>7. /\ IsFiniteSet(Newer(Newest(ms), m))
      /\ Cardinality(Newer(Newest(ms), m)) \in Nat
      /\ Cardinality(Newer(ms, x)) \in Nat
  BY <1>1, CountsAreNat
<1>8. Cardinality(Newer(ms, x)) <= Cardinality(Newer(Newest(ms), m))
  BY <1>6, <1>7, FS_Subset
<1> QED BY <1>4, <1>7, <1>8, ConstantsAssumption

-----------------------------------------------------------------------------
(***************************************************************************)
(* The list of ignored keys: nothing is in it twice, and all that is added *)
(* stays in it as long as the list is not full.                            *)
(***************************************************************************)
LEMMA LengthIsCount ==
  ASSUME NEW s \in Seq(Messages), IsInjective(s)
  PROVE  Len(s) = Cardinality(ToSet(s)) /\ ToSet(s) \in SUBSET Messages
<1>1. Len(s) \in Nat /\ DOMAIN s = 1 .. Len(s) /\ s \in [1 .. Len(s) -> Messages]
  OBVIOUS
<1>2. \A i \in 1 .. Len(s) : s[i] \in Messages
  BY <1>1
<1>3. /\ s \in [1 .. Len(s) -> ToSet(s)]
      /\ \A t \in ToSet(s) : \E i \in 1 .. Len(s) : s[i] = t
      /\ ToSet(s) \in SUBSET Messages
  BY <1>1, <1>2 DEF ToSet
<1>4. \A i, j \in 1 .. Len(s) : s[i] = s[j] => i = j
  BY <1>1 DEF IsInjective
<1>5. s \in Bijection(1 .. Len(s), ToSet(s))
  BY <1>3, <1>4, Fun_IsBij
<1>6. IsFiniteSet(1 .. Len(s)) /\ Cardinality(1 .. Len(s)) = Len(s)
  <2>1. 1 \in Int /\ Len(s) \in Int
    BY <1>1
  <2>2. /\ IsFiniteSet(1 .. Len(s))
        /\ Cardinality(1 .. Len(s)) = IF 1 > Len(s) THEN 0 ELSE Len(s) - 1 + 1
    BY <2>1, FS_Interval
  <2> QED BY <1>1, <2>2
<1>7. ExistsBijection(1 .. Len(s), ToSet(s))
  BY <1>5 DEF ExistsBijection
<1> QED BY <1>3, <1>6, <1>7, FS_Bijection

LEMMA RememberedIs ==
  ASSUME NEW known \in Seq(Messages), IsInjective(known),
         NEW targets \in SUBSET Messages,
         NEW keys \in SetToSeqs(targets \ ToSet(known))
  PROVE  /\ Remembered(known, keys) \in Seq(Messages)
         /\ IsInjective(Remembered(known, keys))
         /\ Len(Remembered(known, keys)) <= IgnoredCap
         /\ Cardinality(Messages) <= IgnoredCap
              => ToSet(Remembered(known, keys)) = ToSet(known) \cup targets
<1> DEFINE new == targets \ ToSet(known)
           k == Len(known)
           n == Cardinality(new)
           all == known \o keys
           first == IF Len(all) > IgnoredCap THEN Len(all) - IgnoredCap + 1
                    ELSE 1
<1>1. /\ new \in SUBSET Messages /\ IsFiniteSet(new) /\ n \in Nat
      /\ n = Cardinality(new)
      /\ \A m : m \in new <=> m \in targets /\ m \notin ToSet(known)
  BY CountsAreNat
<1>2. /\ keys \in [1 .. n -> new]
      /\ \A i, j \in 1 .. n : keys[i] = keys[j] => i = j
  BY DEF SetToSeqs
<1>5. /\ k \in Nat /\ k = Len(known) /\ DOMAIN known = 1 .. k
      /\ \A i \in 1 .. k : known[i] \in Messages
  OBVIOUS
<1> HIDE DEF new, k, n
<1>3. \A i \in 1 .. n : keys[i] \in new /\ keys[i] \in Messages
  BY <1>1, <1>2
<1>4. keys \in Seq(Messages) /\ Len(keys) = n
  BY <1>1, <1>2, <1>3
<1>6. /\ all \in Seq(Messages) /\ Len(all) = k + n
      /\ \A i \in 1 .. k : all[i] = known[i]
      /\ \A i \in 1 .. n : all[k + i] = keys[i]
  BY <1>4, <1>5
<1>11. Remembered(known, keys) = SubSeq(all, first, Len(all))
  BY DEF Remembered
<1> HIDE DEF all
<1>7. \A i \in 1 .. (k + n) : /\ i \in 1 .. k => all[i] \in ToSet(known)
                              /\ i \notin 1 .. k => all[i] \in new
  <2> SUFFICES ASSUME NEW i \in 1 .. (k + n)
               PROVE  /\ i \in 1 .. k => all[i] \in ToSet(known)
                      /\ i \notin 1 .. k => all[i] \in new
    OBVIOUS
  <2>1. CASE i \in 1 .. k
    BY <1>5, <1>6, <2>1 DEF ToSet
  <2>2. CASE i \notin 1 .. k
    <3>1. i - k \in 1 .. n /\ i = k + (i - k)
      BY <1>1, <1>5, <2>2
    <3> QED BY <1>3, <1>6, <2>2, <3>1
  <2> QED BY <2>1, <2>2
<1>8. ASSUME NEW i \in 1 .. (k + n), NEW j \in 1 .. (k + n), all[i] = all[j]
      PROVE  i = j
  <2>1. CASE i \in 1 .. k /\ j \in 1 .. k
    BY <1>5, <1>6, <1>8, <2>1 DEF IsInjective
  <2>2. CASE i \notin 1 .. k /\ j \notin 1 .. k
    <3>1. /\ i - k \in 1 .. n /\ i = k + (i - k)
          /\ j - k \in 1 .. n /\ j = k + (j - k)
      BY <1>1, <1>5, <2>2
    <3>2. keys[i - k] = keys[j - k]
      BY <1>6, <1>8, <3>1
    <3>3. i - k = j - k
      BY <1>2, <3>1, <3>2
    <3> QED BY <3>1, <3>3
  <2>3. CASE ~(i \in 1 .. k <=> j \in 1 .. k)
    <3>1. \A m : ~(m \in ToSet(known) /\ m \in new)
      BY <1>1
    <3> QED BY <1>7, <1>8, <2>3, <3>1
  <2> QED BY <2>1, <2>2, <2>3
<1>9. ToSet(all) = ToSet(known) \cup targets
  <2>1. ToSet(all) \subseteq ToSet(known) \cup targets
    BY <1>1, <1>5, <1>6, <1>7 DEF ToSet
  <2>2. ToSet(known) \subseteq ToSet(all)
    <3>1. \A i \in 1 .. k : i \in 1 .. (k + n)
      BY <1>1, <1>5
    <3> QED BY <1>5, <1>6, <3>1 DEF ToSet
  <2>3. new \subseteq ToSet(all)
    <3>1. keys \in Surjection(1 .. n, new)
      <4>1. IsFiniteSet(1 .. n) /\ Cardinality(1 .. n) = n
        <5>1. 1 \in Int /\ n \in Int
          BY <1>1
        <5>2. /\ IsFiniteSet(1 .. n)
              /\ Cardinality(1 .. n) = IF 1 > n THEN 0 ELSE n - 1 + 1
          BY <5>1, FS_Interval
        <5> QED BY <1>1, <5>2
      <4>2. keys \in Injection(1 .. n, new)
        BY <1>2, Fun_IsInj
      <4> QED BY <1>1, <4>1, <4>2, FS_Injection
    <3>2. \A m \in new : \E i \in 1 .. n : keys[i] = m
      BY <3>1 DEF Surjection
    <3>3. \A i \in 1 .. n : k + i \in 1 .. (k + n)
      BY <1>1, <1>5
    <3> QED BY <1>6, <3>2, <3>3 DEF ToSet
  <2> QED BY <1>1, <2>1, <2>2, <2>3
<1>10. /\ first \in 1 .. (Len(all) + 1) /\ Len(all) \in Nat
       /\ Len(all) - first + 1 <= IgnoredCap
       /\ Len(all) <= IgnoredCap => first = 1
  <2>1. Len(all) \in Nat /\ IgnoredCap \in Nat \ {0}
    BY <1>1, <1>5, <1>6, ConstantsAssumption
  <2> QED BY <2>1
<1>12. Len(all) = Cardinality(ToSet(all)) /\ ToSet(all) \in SUBSET Messages
  <2>1. IsInjective(all)
    BY <1>6, <1>8 DEF IsInjective
  <2> QED BY <1>6, <2>1, LengthIsCount
<1>13. Cardinality(Messages) <= IgnoredCap => Len(all) <= IgnoredCap
  <2>1. IsFiniteSet(Messages)
    BY ConstantsAssumption
  <2>2. Cardinality(ToSet(all)) <= Cardinality(Messages)
    BY <1>12, <2>1, FS_Subset
  <2>3. Cardinality(Messages) \in Nat
    BY <2>1, FS_CardinalityType
  <2> QED BY <1>10, <1>12, <2>2, <2>3, ConstantsAssumption
<1> HIDE DEF first
<1>14. /\ SubSeq(all, first, Len(all)) \in Seq(Messages)
       /\ Len(SubSeq(all, first, Len(all))) = Len(all) - first + 1
       /\ \A i \in 1 .. (Len(all) - first + 1) :
            SubSeq(all, first, Len(all))[i] = all[first + i - 1]
  BY <1>6, <1>10
<1>15. IsInjective(SubSeq(all, first, Len(all)))
  <2> DEFINE part == SubSeq(all, first, Len(all))
  <2>1. DOMAIN part = 1 .. (Len(all) - first + 1)
    BY <1>14
  <2> SUFFICES ASSUME NEW i \in DOMAIN part, NEW j \in DOMAIN part,
                      part[i] = part[j]
               PROVE  i = j
    BY DEF IsInjective
  <2>2. /\ first + i - 1 \in 1 .. (k + n) /\ first + j - 1 \in 1 .. (k + n)
        /\ i \in Int /\ j \in Int
    BY <1>6, <1>10, <2>1
  <2>3. all[first + i - 1] = all[first + j - 1]
    BY <1>14, <2>1
  <2>4. first + i - 1 = first + j - 1
    BY <1>8, <2>2, <2>3
  <2> QED BY <1>10, <2>2, <2>4
<1>16. Cardinality(Messages) <= IgnoredCap
         => SubSeq(all, first, Len(all)) = all
  BY <1>6, <1>10, <1>13
<1> QED BY <1>9, <1>10, <1>11, <1>14, <1>15, <1>16

-----------------------------------------------------------------------------
(***************************************************************************)
(* The types.  What a thread has read of the ignored list has no           *)
(* duplicates, what it copies to SQLite fits into a file, and there is a   *)
(* lock to take once a thread has asked for it.                            *)
(***************************************************************************)
FilesOK ==
  /\ json \in [Paths -> SUBSET Messages]
  /\ sqlite \in [Paths -> SUBSET Messages]
  /\ \A p \in Paths : Cardinality(json[p]) <= Cap
                      /\ Cardinality(sqlite[p]) <= Cap
  /\ ignored \in Seq(Messages) /\ IsInjective(ignored)
  /\ Len(ignored) <= IgnoredCap
  /\ lock \in Requests \cup {None}
  /\ promised \in SUBSET Messages
  /\ restarts \in 0 .. MaxRestarts

ThreadOK(t) ==
  /\ t \in Thread
  /\ IsInjective(t.known)
  /\ t.pc = "backfill" => Cardinality(t.out) <= Cap
  /\ t.pc \in {"acquire", "reacquire"} => t.lock # None

Behind(t) ==
  \/ t.pc \in {"acquire", "known", "decide", "ignore", "reenter", "reacquire"}
  \/ t.pc \in {"load", "load_json", "backfill"} /\ t.kind # "read"

Typed ==
  /\ FilesOK
  /\ req \in [Requests -> Thread]
  /\ \A r \in Requests : ThreadOK(req[r]) /\ (Behind(req[r]) => lock # None)

LEMMA ThreadMoves ==
  ASSUME Typed, FilesOK', NEW r \in Requests, NEW t, ThreadOK(t),
         Behind(t) => lock' # None, lock # None => lock' # None,
         req' = [req EXCEPT ![r] = t]
  PROVE  Typed'
<1>1. t \in Thread
  BY DEF ThreadOK
<1>2. req' \in [Requests -> Thread]
  BY <1>1 DEF Typed
<1>3. \A o \in Requests : req'[o] = IF o = r THEN t ELSE req[o]
  BY DEF Typed
<1>4. \A o \in Requests : ThreadOK(req'[o]) /\ (Behind(req'[o]) => lock' # None)
  BY <1>3 DEF Typed
<1>5. \A o \in Requests :
        ThreadOK(req[o])' /\ (Behind(req[o])' => lock' # None)
  BY <1>4 DEF ThreadOK, Behind
<1> QED BY <1>2, <1>5 DEF Typed

LEMMA NewThreadIs ==
  /\ NewThread \in Thread /\ IsInjective(NewThread.known)
  /\ NewThread.pc = "idle" /\ NewThread.held = {} /\ NewThread.path = 1
  /\ NewThread.loaded = {}
  /\ NewThread = [NewThread EXCEPT !.pc = "idle"]
<1>1. /\ NewThread.pc = "idle" /\ NewThread.held = {} /\ NewThread.path = 1
      /\ NewThread.loaded = {} /\ NewThread.known = <<>>
  BY DEF NewThread
<1>2. 1 \in Paths
  BY ConstantsAssumption DEF Paths
<1>3. PICK e : e = <<>>
  OBVIOUS
<1>4. e \in Seq(Messages)
  BY <1>3
<1>5. [pc |-> "idle", kind |-> None, input |-> {}, lock |-> None, held |-> {},
       path |-> 1, loaded |-> {}, known |-> e, out |-> {}] \in Thread
  BY <1>2, <1>4 DEF Thread
<1>6. NewThread \in Thread
  BY <1>3, <1>5 DEF NewThread
<1>7. NewThread = [NewThread EXCEPT !.pc = "idle"]
  BY <1>1, <1>6 DEF Thread
<1>8. IsInjective(NewThread.known)
  BY <1>1 DEF IsInjective
<1> QED BY <1>1, <1>6, <1>7, <1>8

LEMMA NewThreadOK ==
  ASSUME NEW pc \in {"idle", "done"}
  PROVE  /\ ThreadOK([NewThread EXCEPT !.pc = pc])
         /\ ~ Behind([NewThread EXCEPT !.pc = pc])
<1> DEFINE t == [NewThread EXCEPT !.pc = pc]
<1>1. t \in Thread /\ t.pc = pc /\ t.known = NewThread.known
  BY NewThreadIs DEF Thread
<1> HIDE DEF t
<1>2. IsInjective(t.known)
  <2>1. PICK known : known = NewThread.known
    OBVIOUS
  <2>2. IsInjective(known) /\ t.known = known
    BY <1>1, <2>1, NewThreadIs, Zenon
  <2> QED BY <2>2, Zenon
<1>3. ThreadOK(t) /\ ~ Behind(t)
  BY <1>1, <1>2 DEF ThreadOK, Behind
<1> QED BY <1>3 DEF t

\* The record of a thread.
LEMMA ThreadFields ==
  ASSUME NEW t, ThreadOK(t)
  PROVE  /\ t.kind \in Kinds \cup {None} /\ t.input \in SUBSET Messages
         /\ t.path \in Paths /\ t.loaded \in SUBSET Messages
         /\ t.known \in Seq(Messages) /\ IsInjective(t.known)
         /\ t.out \in SUBSET Messages /\ t.held \in SUBSET Requests
         /\ t.lock \in Requests \cup {None}
BY DEF ThreadOK, Thread

(***************************************************************************)
(* The steps that leave the files alone, but for the lock.                 *)
(***************************************************************************)
LEMMA TypedBegin ==
  ASSUME Typed, NEW r \in Requests, Begin(r)
  PROVE  Typed'
<1> DEFINE t == req[r]
<1>1. ThreadOK(t)
  BY DEF Typed
<1>2. PICK kind \in Kinds : \E input \in Inputs(kind) :
        /\ req' = [req EXCEPT ![r].pc = IF kind = "read" THEN "load" ELSE "lookup",
                              ![r].kind = kind,
                              ![r].input = input]
        /\ UNCHANGED <<json, sqlite, ignored, lock, promised, restarts>>
  BY DEF Begin
<1>3. PICK input \in Inputs(kind) :
        /\ req' = [req EXCEPT ![r].pc = IF kind = "read" THEN "load" ELSE "lookup",
                              ![r].kind = kind,
                              ![r].input = input]
        /\ UNCHANGED <<json, sqlite, ignored, lock, promised, restarts>>
  BY <1>2
<1> DEFINE pc == IF kind = "read" THEN "load" ELSE "lookup"
           u == [t EXCEPT !.pc = pc, !.kind = kind, !.input = input]
<1>4. input \in SUBSET Messages
  BY DEF Inputs
<1>5. ThreadOK(u) /\ ~ Behind(u)
  BY <1>1, <1>4 DEF ThreadOK, Thread, Behind
<1>6. req' = [req EXCEPT ![r] = u]
  BY <1>3
<1>7. FilesOK'
  BY <1>3 DEF Typed, FilesOK
<1> HIDE DEF u
<1> QED BY <1>3, <1>5, <1>6, <1>7, ThreadMoves

LEMMA TypedLookup ==
  ASSUME Typed, NEW r \in Requests, Lookup(r)
  PROVE  Typed'
<1> DEFINE t == req[r]
<1>1. ThreadOK(t) /\ (Behind(t) => lock # None)
  BY DEF Typed
<1>2. FilesOK' /\ UNCHANGED lock
  BY DEF Lookup, Typed, FilesOK
<1>3. CASE t.pc = "lookup" /\ lock # None
  <2> DEFINE u == [t EXCEPT !.pc = "acquire", !.lock = lock]
  <2>1. ThreadOK(u)
    BY <1>1, <1>3 DEF Typed, FilesOK, ThreadOK, Thread
  <2>2. req' = [req EXCEPT ![r] = u]
    BY <1>3 DEF Lookup
  <2> HIDE DEF u
  <2> QED BY <1>2, <1>3, <2>1, <2>2, ThreadMoves
<1>4. CASE t.pc = "lookup" /\ lock = None
  <2> DEFINE u == [t EXCEPT !.pc = "make"]
  <2>1. ThreadOK(u) /\ ~ Behind(u)
    BY <1>1 DEF ThreadOK, Thread, Behind
  <2>2. req' = [req EXCEPT ![r] = u]
    BY <1>4 DEF Lookup
  <2> HIDE DEF u
  <2> QED BY <1>2, <2>1, <2>2, ThreadMoves
<1>5. CASE t.pc = "reenter"
  <2> DEFINE u == [t EXCEPT !.pc = "reacquire", !.lock = lock]
  <2>1. lock # None
    BY <1>1, <1>5 DEF Behind
  <2>2. ThreadOK(u)
    BY <1>1, <2>1 DEF Typed, FilesOK, ThreadOK, Thread
  <2>3. req' = [req EXCEPT ![r] = u]
    BY <1>5 DEF Lookup
  <2> HIDE DEF u
  <2> QED BY <1>2, <2>1, <2>2, <2>3, ThreadMoves
<1> QED BY <1>3, <1>4, <1>5 DEF Lookup

LEMMA TypedMake ==
  ASSUME Typed, NEW r \in Requests, Make(r)
  PROVE  Typed'
<1> DEFINE u == [req[r] EXCEPT !.pc = "acquire", !.lock = r]
<1>1. ThreadOK(req[r]) /\ r # None
  BY ConstantsAssumption DEF Typed
<1>2. ThreadOK(u)
  BY <1>1 DEF ThreadOK, Thread
<1>3. req' = [req EXCEPT ![r] = u] /\ lock' = r
  BY DEF Make
<1>4. FilesOK'
  BY DEF Make, Typed, FilesOK
<1> HIDE DEF u
<1> QED BY <1>1, <1>2, <1>3, <1>4, ThreadMoves

LEMMA TypedAcquire ==
  ASSUME Typed, NEW r \in Requests, Acquire(r)
  PROVE  Typed'
<1> DEFINE t == req[r]
           pc == IF t.pc = "reacquire" THEN "write_json"
                 ELSE IF t.kind = "receive" THEN "known" ELSE "load"
           u == [t EXCEPT !.pc = pc, !.held = @ \cup {t.lock}]
<1>1. ThreadOK(t) /\ (Behind(t) => lock # None)
  BY DEF Typed
<1>2. t.pc \in {"acquire", "reacquire"} /\ Behind(t)
  BY DEF Acquire, Behind
<1>3. ThreadOK(u)
  BY <1>1, <1>2 DEF ThreadOK, Thread
<1>4. req' = [req EXCEPT ![r] = u] /\ UNCHANGED lock
  BY DEF Acquire
<1>5. FilesOK'
  BY DEF Acquire, Typed, FilesOK
<1> HIDE DEF u
<1> QED BY <1>1, <1>2, <1>3, <1>4, <1>5, ThreadMoves

LEMMA TypedLoadIgnored ==
  ASSUME Typed, NEW r \in Requests, LoadIgnored(r)
  PROVE  Typed'
<1> DEFINE t == req[r]
           pc == IF t.kind = "receive" THEN "load" ELSE "ignore"
           u == [t EXCEPT !.known = ignored, !.pc = pc]
<1>1. ThreadOK(t) /\ (Behind(t) => lock # None)
  BY DEF Typed
<1>2. t.pc = "known" /\ Behind(t)
  BY DEF LoadIgnored, Behind
<1>3. ThreadOK(u)
  <2>1. ignored \in Seq(Messages) /\ IsInjective(ignored)
    BY DEF Typed, FilesOK
  <2>2. u \in Thread /\ u.known = ignored /\ u.pc = pc
    BY <1>1, <2>1 DEF ThreadOK, Thread
  <2> HIDE DEF u
  <2> QED BY <2>1, <2>2 DEF ThreadOK
<1>4. req' = [req EXCEPT ![r] = u] /\ UNCHANGED lock
  BY DEF LoadIgnored
<1>5. FilesOK'
  BY DEF LoadIgnored, Typed, FilesOK
<1> HIDE DEF u
<1> QED BY <1>1, <1>2, <1>3, <1>4, <1>5, ThreadMoves

LEMMA TypedDecide ==
  ASSUME Typed, NEW r \in Requests, Merge(r) \/ ChooseTargets(r)
  PROVE  Typed'
<1> DEFINE t == req[r]
<1>1. ThreadOK(t) /\ (Behind(t) => lock # None)
  BY DEF Typed
<1>2. t.pc = "decide" /\ Behind(t)
  BY DEF Merge, ChooseTargets, Behind
<1>3. FilesOK' /\ UNCHANGED lock
  BY DEF Merge, ChooseTargets, Typed, FilesOK
<1>4. CASE Merge(r)
  <2> DEFINE out == Merged(t.loaded, t.input, ToSet(t.known))
             u == [t EXCEPT !.out = out, !.pc = "reenter"]
  <2>1. out \in SUBSET Messages
    BY <1>1, ThreadFields DEF Merged
  <2>2. req' = [req EXCEPT ![r] = u]
    BY <1>4 DEF Merge
  <2> HIDE DEF out
  <2>3. ThreadOK(u)
    BY <1>1, <2>1 DEF ThreadOK, Thread
  <2> HIDE DEF u
  <2> QED BY <1>1, <1>2, <1>3, <2>2, <2>3, ThreadMoves
<1>5. CASE ChooseTargets(r)
  <2>1. PICK targets \in SUBSET Messages :
          req' = [req EXCEPT ![r].input = targets,
                             ![r].out = req[r].loaded \ targets,
                             ![r].pc = IF targets = {} THEN "reply"
                                       ELSE "known"]
    BY <1>5 DEF ChooseTargets
  <2> DEFINE pc == IF targets = {} THEN "reply" ELSE "known"
             u == [t EXCEPT !.input = targets, !.out = t.loaded \ targets,
                            !.pc = pc]
  <2>2. t.loaded \ targets \in SUBSET Messages
    BY <1>1, ThreadFields
  <2>3. req' = [req EXCEPT ![r] = u]
    BY <2>1
  <2>4. ThreadOK(u)
    BY <1>1, <2>2 DEF ThreadOK, Thread
  <2> HIDE DEF u
  <2> QED BY <1>1, <1>2, <1>3, <2>3, <2>4, ThreadMoves
<1> QED BY <1>4, <1>5

(***************************************************************************)
(* The steps that read and write the files.                                *)
(***************************************************************************)
\* A thread has read a path.
LEMMA TypedLoads ==
  ASSUME Typed, NEW r \in Requests, NEW ms \in SUBSET Messages,
         Loads(r, ms), FilesOK', UNCHANGED lock,
         req[r].kind # "read" => lock # None
  PROVE  Typed'
<1> DEFINE t == req[r]
           path == IF t.path < Files THEN t.path + 1 ELSE 1
           pc == IF t.path < Files THEN "load"
                 ELSE IF t.kind = "read" THEN "done" ELSE "decide"
           u == [t EXCEPT !.loaded = t.loaded \cup ms, !.path = path, !.pc = pc]
<1>0. ThreadOK(t)
  BY DEF Typed
<1>1. path \in Paths
  BY <1>0, ThreadFields, ConstantsAssumption DEF Paths
<1>2. t.loaded \cup ms \in SUBSET Messages
  BY <1>0, ThreadFields
<1>3. req' = [req EXCEPT ![r] = u]
  BY DEF Loads
<1> HIDE DEF path
<1>4. ThreadOK(u) /\ u.kind = t.kind /\ u.pc = pc
  BY <1>0, <1>1, <1>2 DEF ThreadOK, Thread
<1>5. Behind(u) => lock # None
  <2> HIDE DEF u
  <2> QED BY <1>4 DEF Behind
<1> HIDE DEF u
<1> QED BY <1>3, <1>4, <1>5, ThreadMoves

LEMMA TypedLoad ==
  ASSUME Typed, NEW r \in Requests,
         LoadSqlite(r) \/ LoadJson(r) \/ Backfill(r)
  PROVE  Typed'
<1> DEFINE t == req[r]
<1>1. /\ ThreadOK(t) /\ (Behind(t) => lock # None)
      /\ t.path \in Paths /\ t.out \in SUBSET Messages
  BY ThreadFields DEF Typed
<1>2. t.pc \in {"load", "load_json", "backfill"} /\ UNCHANGED lock
  BY DEF LoadSqlite, LoadJson, Backfill
<1>3. t.kind # "read" => lock # None
  BY <1>1, <1>2 DEF Behind
<1>4. FilesOK'
  <2>1. CASE UNCHANGED <<json, sqlite>>
    BY <2>1 DEF LoadSqlite, LoadJson, Backfill, Typed, FilesOK
  <2>2. CASE Backfill(r)
    <3>1. sqlite' = [sqlite EXCEPT ![t.path] = t.out] /\ Cardinality(t.out) <= Cap
      BY <1>1, <2>2 DEF Backfill, ThreadOK
    <3> QED BY <1>1, <2>2, <3>1 DEF Backfill, Typed, FilesOK
  <2> QED BY <2>1, <2>2 DEF LoadSqlite, LoadJson
<1>5. ASSUME NEW ms \in SUBSET Messages, Loads(r, ms)
      PROVE  Typed'
  BY <1>2, <1>3, <1>4, <1>5, TypedLoads
<1>6. CASE LoadSqlite(r)
  <2>1. CASE sqlite[t.path] # {}
    <3>1. Loads(r, sqlite[t.path])
      BY <1>6, <2>1 DEF LoadSqlite
    <3>2. sqlite[t.path] \in SUBSET Messages
      BY <1>1 DEF Typed, FilesOK
    <3> QED BY <1>5, <3>1, <3>2
  <2>2. CASE sqlite[t.path] = {}
    <3> DEFINE u == [t EXCEPT !.pc = "load_json"]
    <3>1. req' = [req EXCEPT ![r] = u]
      BY <1>6, <2>2 DEF LoadSqlite
    <3>2. ThreadOK(u) /\ (Behind(u) => t.kind # "read")
      BY <1>1 DEF ThreadOK, Thread, Behind
    <3> HIDE DEF u
    <3> QED BY <1>2, <1>3, <1>4, <3>1, <3>2, ThreadMoves
  <2> QED BY <2>1, <2>2
<1>7. CASE LoadJson(r)
  <2>1. CASE json[t.path] = {}
    <3>1. Loads(r, {}) /\ {} \in SUBSET Messages
      BY <1>7, <2>1 DEF LoadJson
    <3> QED BY <1>5, <3>1
  <2>2. CASE json[t.path] # {}
    <3> DEFINE ms == json[t.path]
               u == [t EXCEPT !.pc = "backfill", !.out = ms]
    <3>1. req' = [req EXCEPT ![r] = u]
      BY <1>7, <2>2 DEF LoadJson
    <3>2. ms \in SUBSET Messages /\ Cardinality(ms) <= Cap
      BY <1>1 DEF Typed, FilesOK
    <3> HIDE DEF ms
    <3>3. ThreadOK(u) /\ (Behind(u) => t.kind # "read")
      BY <1>1, <3>2 DEF ThreadOK, Thread, Behind
    <3> HIDE DEF u
    <3> QED BY <1>2, <1>3, <1>4, <3>1, <3>3, ThreadMoves
  <2> QED BY <2>1, <2>2
<1>8. CASE Backfill(r)
  BY <1>1, <1>5, <1>8 DEF Backfill
<1> QED BY <1>6, <1>7, <1>8

LEMMA TypedIgnore ==
  ASSUME Typed, NEW r \in Requests, Ignore(r)
  PROVE  Typed'
<1> DEFINE t == req[r]
           pc == IF t.out # t.loaded THEN "reenter" ELSE "reply"
           u == [t EXCEPT !.pc = pc]
<1>1. /\ ThreadOK(t) /\ (Behind(t) => lock # None)
      /\ t.known \in Seq(Messages) /\ IsInjective(t.known)
      /\ t.input \in SUBSET Messages
  BY ThreadFields DEF Typed
<1>2. PICK keys \in SetToSeqs(t.input \ ToSet(t.known)) :
        ignored' = Remembered(t.known, keys)
  BY DEF Ignore
<1>3. /\ ignored' \in Seq(Messages) /\ IsInjective(ignored')
      /\ Len(ignored') <= IgnoredCap
  BY <1>1, <1>2, RememberedIs
<1>4. FilesOK'
  <2>1. IsInjective(ignored)'
    BY <1>3 DEF IsInjective
  <2> QED BY <1>3, <2>1 DEF Ignore, Typed, FilesOK
<1>5. Behind(t) /\ UNCHANGED lock /\ req' = [req EXCEPT ![r] = u]
  BY DEF Ignore, Behind
<1>6. ThreadOK(u)
  BY <1>1 DEF ThreadOK, Thread
<1> HIDE DEF u
<1> QED BY <1>1, <1>4, <1>5, <1>6, ThreadMoves

LEMMA TypedWrite ==
  ASSUME Typed, NEW r \in Requests, WriteJson(r) \/ WriteSqlite(r)
  PROVE  Typed'
<1> DEFINE t == req[r]
           n == Newest(t.out)
<1>1. /\ ThreadOK(t) /\ t.path \in Paths
      /\ n \in SUBSET Messages /\ Cardinality(n) <= Cap
  BY ThreadFields, NewestSize DEF Typed
<1>2. CASE WriteJson(r)
  <2> DEFINE u == [t EXCEPT !.pc = "write_sqlite"]
  <2>1. FilesOK'
    <3>1. json' = [json EXCEPT ![t.path] = n]
      BY <1>2 DEF WriteJson
    <3> HIDE DEF n
    <3> QED BY <1>1, <1>2, <3>1 DEF WriteJson, Typed, FilesOK
  <2>2. ThreadOK(u) /\ ~ Behind(u)
    BY <1>1 DEF ThreadOK, Thread, Behind
  <2>3. req' = [req EXCEPT ![r] = u] /\ UNCHANGED lock
    BY <1>2 DEF WriteJson
  <2> HIDE DEF u
  <2> QED BY <2>1, <2>2, <2>3, ThreadMoves
<1>3. CASE WriteSqlite(r)
  <2> DEFINE pc == IF t.path < Files THEN "write_json" ELSE "reply"
             path == IF t.path < Files THEN t.path + 1 ELSE t.path
             u == [t EXCEPT !.pc = pc, !.path = path]
  <2>1. FilesOK'
    <3>1. sqlite' = [sqlite EXCEPT ![t.path] = n]
      BY <1>3 DEF WriteSqlite
    <3> HIDE DEF n
    <3> QED BY <1>1, <1>3, <3>1 DEF WriteSqlite, Typed, FilesOK
  <2>2. path \in Paths
    BY <1>1, ConstantsAssumption DEF Paths
  <2>3. req' = [req EXCEPT ![r] = u] /\ UNCHANGED lock
    BY <1>3 DEF WriteSqlite
  <2> HIDE DEF path
  <2>4. ThreadOK(u) /\ ~ Behind(u)
    BY <1>1, <2>2 DEF ThreadOK, Thread, Behind
  <2> HIDE DEF u
  <2> QED BY <2>1, <2>3, <2>4, ThreadMoves
<1> QED BY <1>2, <1>3

LEMMA TypedEnds ==
  ASSUME Typed, NEW r \in Requests, Reply(r) \/ WriteFails(r)
  PROVE  Typed'
<1> DEFINE u == [NewThread EXCEPT !.pc = "done"]
<1>1. ThreadOK(u) /\ ~ Behind(u)
  BY NewThreadOK
<1>2. req' = [req EXCEPT ![r] = u] /\ UNCHANGED lock
  BY DEF Reply, WriteFails
<1>3. req[r].input \in SUBSET Messages
  BY ThreadFields DEF Typed
<1>4. FilesOK'
  BY <1>3 DEF Reply, WriteFails, Typed, FilesOK
<1> HIDE DEF u
<1> QED BY <1>1, <1>2, <1>4, ThreadMoves

LEMMA TypedRestart ==
  ASSUME Typed, Restart
  PROVE  Typed'
<1> DEFINE Idle == [NewThread EXCEPT !.pc = "idle"]
           Done == [NewThread EXCEPT !.pc = "done"]
<1>1. ThreadOK(Idle) /\ ThreadOK(Done) /\ ~ Behind(Idle) /\ ~ Behind(Done)
  BY NewThreadOK
<1>2. Idle = NewThread
  BY NewThreadIs
<1>3. req' = [r \in Requests |-> IF req[r].pc = "idle" THEN Idle ELSE Done]
  BY <1>2 DEF Restart
<1>4. FilesOK'
  BY ConstantsAssumption DEF Restart, Typed, FilesOK
<1> HIDE DEF Idle, Done
<1>5. \A r \in Requests : ThreadOK(req'[r]) /\ ~ Behind(req'[r])
  BY <1>1, <1>3
<1>6. req' \in [Requests -> Thread]
  BY <1>1, <1>3 DEF ThreadOK
<1>7. \A r \in Requests : ThreadOK(req[r])' /\ ~ Behind(req[r])'
  BY <1>5 DEF ThreadOK, Behind
<1> QED BY <1>4, <1>6, <1>7 DEF Typed

LEMMA TypedInit ==
  ASSUME Init
  PROVE  Typed
<1>2. ThreadOK(NewThread) /\ ~ Behind(NewThread)
  BY NewThreadIs, NewThreadOK
<1>3. \A p \in Paths : Cardinality(json[p]) <= Cap /\ Cardinality(sqlite[p]) <= Cap
  <2>1. Cardinality({}) <= Cap
    BY FS_EmptySet, ConstantsAssumption
  <2> QED BY <2>1 DEF Init
<1>4. /\ ignored \in Seq(Messages) /\ IsInjective(ignored)
      /\ Len(ignored) <= IgnoredCap
  BY ConstantsAssumption DEF Init, IsInjective
<1>5. FilesOK
  BY <1>3, <1>4, ConstantsAssumption DEF Init, FilesOK
<1> QED BY <1>2, <1>5 DEF Init, Typed, ThreadOK

LEMMA TypedNext ==
  ASSUME Typed, [Next]_vars
  PROVE  Typed'
<1>1. ASSUME NEW r \in Requests, Begin(r) \/ Advance(r)
      PROVE  Typed'
  BY <1>1, TypedBegin, TypedLookup, TypedMake, TypedAcquire, TypedLoadIgnored,
     TypedDecide, TypedLoad, TypedIgnore, TypedWrite, TypedEnds DEF Advance
<1>2. CASE UNCHANGED vars
  BY <1>2 DEF vars, Typed, FilesOK, ThreadOK, Behind
<1> QED BY <1>1, <1>2, TypedRestart DEF Next

(***************************************************************************)
(* Every file and every thread holds what its type says: no file more      *)
(* messages than it keeps, no key twice in the ignored list (save_messages *)
(* and save_ignored_message_keys), with any number of locks and readers.   *)
(***************************************************************************)
THEOREM FilesAreTyped == Spec => []TypeOK
<1>1. Init => Typed
  BY TypedInit
<1>2. Typed /\ [Next]_vars => Typed'
  BY TypedNext
<1>3. Typed => TypeOK
  BY LengthIsCount DEF Typed, FilesOK, TypeOK
<1> QED BY <1>1, <1>2, <1>3, PTL DEF Spec

-----------------------------------------------------------------------------
(***************************************************************************)
(* The refinement.  It holds of threads that share one lock, of a          *)
(* workspace nobody reads while it has to be migrated, and as long as the  *)
(* ignored list is not full: what the code does not keep otherwise is in   *)
(* the README.                                                             *)
(***************************************************************************)
Sound ==
  ~ Races /\ "read" \notin Kinds /\ Cardinality(Messages) <= IgnoredCap

Critical(t) == t.pc \notin {"idle", "lookup", "make", "acquire", "done"}

\* One lock, held by whoever is in the critical section, and one maker of it.
Locked(threads, l) ==
  /\ \A r \in Requests :
       /\ threads[r].held = IF Critical(threads[r]) THEN {l} ELSE {}
       /\ threads[r].pc = "make" => l = None
       /\ threads[r].pc \in {"acquire", "reacquire"} => threads[r].lock = l
       /\ Critical(threads[r]) => l # None
  /\ \A r \in Requests : \A o \in Requests \ {r} :
       /\ ~(Critical(threads[r]) /\ Critical(threads[o]))
       /\ ~(threads[r].pc = "make" /\ threads[o].pc = "make")

(***************************************************************************)
(* The work of a thread in the critical section, against the files js and  *)
(* sq and the ignored list.                                                *)
(***************************************************************************)
ShownIn(js, sq, p) == IF sq[p] # {} THEN sq[p] ELSE js[p]
ViewIn(js, sq) == UNION {ShownIn(js, sq, p) : p \in Paths}
ShownBefore(js, sq, n) == UNION {ShownIn(js, sq, p) : p \in {q \in Paths : q < n}}

Receives(t) == t.kind = "receive"
Starts(t) == ~Critical(t) \/ (t.pc = "known" /\ Receives(t))
Reads(t) == t.pc \in {"load", "load_json", "backfill"}
Plans(t) == t.pc \in {"ignore", "reenter", "reacquire"}
            \/ (t.pc = "known" /\ ~Receives(t))
Saves(t) == t.pc \in {"write_json", "write_sqlite"}

\* Between the first path it reads and the last.
Reading(t, js, sq) ==
  /\ t.loaded = ShownBefore(js, sq, t.path)
  /\ t.pc # "load" => sq[t.path] = {}
  /\ t.pc = "backfill" => t.out = js[t.path]

\* What a thread that has loaded everything is about to write.
Plan(t) ==
  IF Receives(t) THEN Merged(t.loaded, t.input, ToSet(t.known))
  ELSE t.loaded \ t.input

\* Between the first file it writes and the last.
Writing(t, js, sq, new) ==
  /\ \A p \in Paths : p < t.path => js[p] = new /\ sq[p] = new
  /\ t.pc = "write_sqlite" => js[t.path] = new
  /\ ViewIn(js, sq) \subseteq t.loaded \cup new
  /\ ViewIn(js, sq) = t.loaded \/ new \subseteq ViewIn(js, sq)

Work(t, js, sq, keys) ==
  /\ Starts(t) => t.loaded = {} /\ t.path = 1
  /\ Reads(t) => Reading(t, js, sq)
  /\ Critical(t) /\ t.pc # "known" /\ Receives(t) => t.known = keys
  /\ t.pc = "decide" \/ Plans(t) => t.loaded = ViewIn(js, sq) /\ t.path = 1
  /\ Plans(t) \/ Saves(t) => t.out = Plan(t)
  /\ t.pc = "ignore" => t.known = keys /\ ~Receives(t)
  /\ t.pc \in {"reenter", "reacquire", "reply"} \/ Saves(t) =>
       Receives(t) \/ t.input \subseteq ToSet(keys)
  /\ Saves(t) => Writing(t, js, sq, Newest(t.out))
  /\ t.pc = "reply" => Receives(t) \/ t.input \cap ViewIn(js, sq) = {}

IInv ==
  /\ Typed
  /\ Locked(req, lock)
  /\ \A r \in Requests : Work(req[r], json, sqlite, ignored)

LEMMA ViewIs == View = ViewIn(json, sqlite) /\ View' = ViewIn(json', sqlite')
BY DEF View, ViewIn, Shown, ShownIn

(***************************************************************************)
(* What readers see when a file is written.                                *)
(***************************************************************************)
FileMap == [Paths -> SUBSET Messages]

LEMMA JsonShows ==
  ASSUME NEW js \in FileMap, NEW sq \in FileMap, NEW p \in Paths,
         NEW new, NEW js2, js2 = [js EXCEPT ![p] = new]
  PROVE  /\ ViewIn(js2, sq) \subseteq ViewIn(js, sq) \cup new
         /\ ViewIn(js2, sq) = ViewIn(js, sq) \/ new \subseteq ViewIn(js2, sq)
<1>1. \A q \in Paths \ {p} : ShownIn(js2, sq, q) = ShownIn(js, sq, q)
  BY DEF ShownIn, FileMap
<1>2. CASE sq[p] # {}
  <2>1. \A q \in Paths : ShownIn(js2, sq, q) = ShownIn(js, sq, q)
    BY <1>1, <1>2 DEF ShownIn
  <2> QED BY <2>1 DEF ViewIn
<1>3. CASE sq[p] = {}
  <2>1. ShownIn(js2, sq, p) = new
    BY <1>3 DEF ShownIn, FileMap
  <2> QED BY <1>1, <2>1 DEF ViewIn
<1> QED BY <1>2, <1>3

LEMMA SqliteShows ==
  ASSUME NEW js \in FileMap, NEW sq \in FileMap, NEW p \in Paths,
         NEW sq2, sq2 = [sq EXCEPT ![p] = js[p]]
  PROVE  /\ ViewIn(js, sq2) \subseteq ViewIn(js, sq) \cup js[p]
         /\ js[p] \subseteq ViewIn(js, sq2)
<1>1. \A q \in Paths \ {p} : ShownIn(js, sq2, q) = ShownIn(js, sq, q)
  BY DEF ShownIn, FileMap
<1>2. ShownIn(js, sq2, p) = js[p]
  BY DEF ShownIn, FileMap
<1> QED BY <1>1, <1>2 DEF ViewIn

\* From a step that writes new to what has changed since all was loaded.
LEMMA WriteShows ==
  ASSUME NEW before, NEW after, NEW loaded, NEW new,
         before \subseteq loaded \cup new,
         before = loaded \/ new \subseteq before,
         after \subseteq before \cup new,
         after = before \/ new \subseteq after
  PROVE  /\ after \subseteq loaded \cup new
         /\ after = loaded \/ new \subseteq after
         /\ after \ before \subseteq new \ loaded
         /\ before \ after \subseteq loaded \ new
         /\ after = before \/ new \subseteq after
OBVIOUS

-----------------------------------------------------------------------------
(***************************************************************************)
(* A thread goes on: what the others rely on stays.                        *)
(***************************************************************************)
LEMMA LockedMoves ==
  ASSUME NEW q \in [Requests -> Thread], NEW l, Locked(q, l),
         NEW r \in Requests, NEW t \in Thread,
         t.held = IF Critical(t) THEN {l} ELSE {},
         Critical(t) => l # None /\ \A o \in Requests \ {r} : ~Critical(q[o]),
         t.pc = "make" => l = None /\ \A o \in Requests \ {r} : q[o].pc # "make",
         t.pc \in {"acquire", "reacquire"} => t.lock = l
  PROVE  Locked([q EXCEPT ![r] = t], l)
<1> DEFINE q2 == [q EXCEPT ![r] = t]
<1>1. q2[r] = t /\ \A o \in Requests \ {r} : q2[o] = q[o]
  OBVIOUS
<1> HIDE DEF q2
<1>2. \A o \in Requests :
        /\ q2[o].held = IF Critical(q2[o]) THEN {l} ELSE {}
        /\ q2[o].pc = "make" => l = None
        /\ q2[o].pc \in {"acquire", "reacquire"} => q2[o].lock = l
        /\ Critical(q2[o]) => l # None
  <2> SUFFICES ASSUME NEW o \in Requests
               PROVE  /\ q2[o].held = IF Critical(q2[o]) THEN {l} ELSE {}
                      /\ q2[o].pc = "make" => l = None
                      /\ q2[o].pc \in {"acquire", "reacquire"} => q2[o].lock = l
                      /\ Critical(q2[o]) => l # None
    OBVIOUS
  <2>1. CASE o = r
    BY <1>1, <2>1
  <2>2. CASE o # r
    BY <1>1, <2>2 DEF Locked
  <2> QED BY <2>1, <2>2
<1>3. ASSUME NEW a \in Requests, NEW b \in Requests \ {a}
      PROVE  /\ ~(Critical(q2[a]) /\ Critical(q2[b]))
             /\ ~(q2[a].pc = "make" /\ q2[b].pc = "make")
  <2>1. CASE a = r
    BY <1>1, <2>1
  <2>2. CASE b = r
    BY <1>1, <2>2
  <2>3. CASE a # r /\ b # r
    BY <1>1, <2>3 DEF Locked
  <2> QED BY <2>1, <2>2, <2>3
<1>4. Locked(q2, l)
  BY <1>2, <1>3 DEF Locked
<1> QED BY <1>4 DEF q2

LEMMA OutsideWork ==
  ASSUME NEW t, ~Critical(t)
  PROVE  \A js, sq, keys : Work(t, js, sq, keys) <=> t.loaded = {} /\ t.path = 1
BY DEF Work, Critical, Starts, Reads, Plans, Saves

LEMMA Moves ==
  ASSUME IInv, Typed', NEW r \in Requests, NEW t \in Thread,
         req' = [req EXCEPT ![r] = t], UNCHANGED lock,
         t.held = IF Critical(t) THEN {lock} ELSE {},
         Critical(t) => lock # None
                        /\ \A o \in Requests \ {r} : ~Critical(req[o]),
         t.pc = "make" => lock = None
                          /\ \A o \in Requests \ {r} : req[o].pc # "make",
         t.pc \in {"acquire", "reacquire"} => t.lock = lock,
         Work(t, json', sqlite', ignored'),
         UNCHANGED <<json, sqlite, ignored>> \/ Critical(req[r])
  PROVE  IInv'
<1>1. req \in [Requests -> Thread] /\ Locked(req, lock)
  BY DEF IInv, Typed
<1>2. Locked(req', lock')
  BY <1>1, LockedMoves
<1>3. ASSUME NEW o \in Requests
      PROVE  Work(req'[o], json', sqlite', ignored')
  <2>1. CASE o = r
    BY <1>1, <2>1
  <2>2. CASE o # r
    <3>1. req'[o] = req[o] /\ Work(req[o], json, sqlite, ignored)
      BY <1>1, <2>2 DEF IInv
    <3>2. CASE UNCHANGED <<json, sqlite, ignored>>
      BY <3>1, <3>2
    <3>3. CASE Critical(req[r])
      <4>1. ~Critical(req[o])
        BY <1>1, <2>2, <3>3 DEF Locked
      <4> QED BY <3>1, <4>1, OutsideWork
    <3> QED BY <3>2, <3>3
  <2> QED BY <2>1, <2>2
<1> QED BY <1>2, <1>3 DEF IInv

\* A thread in the critical section stays in it.
LEMMA MovesInside ==
  ASSUME IInv, Typed', NEW r \in Requests, NEW t \in Thread,
         req' = [req EXCEPT ![r] = t], UNCHANGED lock,
         Critical(req[r]), Critical(t), t.held = req[r].held,
         t.pc = "reacquire" => t.lock = lock,
         Work(t, json', sqlite', ignored')
  PROVE  IInv'
<1>1. Locked(req, lock)
  BY DEF IInv
<1>2. /\ req[r].held = {lock} /\ lock # None
      /\ \A o \in Requests \ {r} : ~Critical(req[o])
  BY <1>1 DEF Locked
<1>3. t.pc # "make" /\ t.pc # "acquire"
  BY DEF Critical
<1> QED BY <1>2, <1>3, Moves

\* What is known of a thread.
LEMMA ThreadIs ==
  ASSUME IInv, NEW r \in Requests
  PROVE  /\ req[r] \in Thread /\ Work(req[r], json, sqlite, ignored)
         /\ req[r].path \in Paths /\ req[r].known \in Seq(Messages)
         /\ IsInjective(req[r].known)
         /\ req[r].loaded \in SUBSET Messages /\ req[r].input \in SUBSET Messages
         /\ req[r].out \in SUBSET Messages
         /\ json \in FileMap /\ sqlite \in FileMap
         /\ Locked(req, lock)
BY ThreadFields DEF IInv, Typed, FilesOK, FileMap, ThreadOK

-----------------------------------------------------------------------------
(***************************************************************************)
(* The steps outside the critical section, and into it.                    *)
(***************************************************************************)
LEMMA WorkBegin ==
  ASSUME Sound, IInv, Typed', NEW r \in Requests, Begin(r)
  PROVE  IInv'
<1> DEFINE t == req[r]
<1>1. PICK kind \in Kinds : \E input \in Inputs(kind) :
        req' = [req EXCEPT ![r].pc = IF kind = "read" THEN "load" ELSE "lookup",
                           ![r].kind = kind,
                           ![r].input = input]
  BY DEF Begin
<1>2. PICK input \in Inputs(kind) :
        req' = [req EXCEPT ![r].pc = "lookup", ![r].kind = kind,
                           ![r].input = input]
  BY <1>1 DEF Sound
<1> DEFINE u == [t EXCEPT !.pc = "lookup", !.kind = kind, !.input = input]
<1>3. t \in Thread /\ Work(t, json, sqlite, ignored) /\ Locked(req, lock)
  BY ThreadIs
<1>4. ~Critical(t)
  BY DEF Begin, Critical
<1>5. /\ u \in Thread /\ u.pc = "lookup" /\ u.held = t.held
      /\ u.loaded = t.loaded /\ u.path = t.path
  BY <1>3 DEF Thread, Inputs
<1>6. req' = [req EXCEPT ![r] = u]
  BY <1>2
<1> HIDE DEF u
<1>7. ~Critical(u)
  BY <1>5 DEF Critical
<1>8. Work(u, json', sqlite', ignored')
  BY <1>3, <1>4, <1>5, <1>7, OutsideWork
<1>9. u.held = {}
  BY <1>3, <1>4, <1>5 DEF Locked
<1> QED BY <1>5, <1>6, <1>7, <1>8, <1>9, Moves DEF Begin

LEMMA WorkLookup ==
  ASSUME Sound, IInv, Typed', NEW r \in Requests, Lookup(r)
  PROVE  IInv'
<1> DEFINE t == req[r]
<1>1. t \in Thread /\ Work(t, json, sqlite, ignored) /\ Locked(req, lock)
  BY ThreadIs
<1>2. UNCHANGED <<json, sqlite, ignored, lock>>
  BY DEF Lookup
<1>3. lock \in Requests \cup {None}
  BY DEF IInv, Typed, FilesOK
<1>4. ASSUME t.pc = "lookup", NEW u \in Thread, req' = [req EXCEPT ![r] = u],
             u.pc \in {"make", "acquire"}, u.held = t.held,
             u.loaded = t.loaded, u.path = t.path,
             u.pc = "acquire" => u.lock = lock,
             u.pc = "make" => lock = None
                              /\ \A o \in Requests : req[o].pc # "make"
      PROVE  IInv'
  <2>1. ~Critical(t) /\ ~Critical(u)
    BY <1>4 DEF Critical
  <2>2. Work(u, json', sqlite', ignored')
    BY <1>1, <1>4, <2>1, OutsideWork
  <2>3. u.held = {}
    BY <1>1, <1>4, <2>1 DEF Locked
  <2> QED BY <1>2, <1>4, <2>1, <2>2, <2>3, Moves
<1>5. CASE t.pc = "lookup" /\ lock # None
  <2> DEFINE u == [t EXCEPT !.pc = "acquire", !.lock = lock]
  <2>1. /\ u \in Thread /\ u.pc = "acquire" /\ u.lock = lock
        /\ u.held = t.held /\ u.loaded = t.loaded /\ u.path = t.path
    BY <1>1, <1>3 DEF Thread
  <2>2. req' = [req EXCEPT ![r] = u]
    BY <1>5 DEF Lookup
  <2> HIDE DEF u
  <2> QED BY <1>4, <1>5, <2>1, <2>2
<1>6. CASE t.pc = "lookup" /\ lock = None
  <2> DEFINE u == [t EXCEPT !.pc = "make"]
  <2>1. /\ u \in Thread /\ u.pc = "make"
        /\ u.held = t.held /\ u.loaded = t.loaded /\ u.path = t.path
    BY <1>1 DEF Thread
  <2>2. req' = [req EXCEPT ![r] = u] /\ \A o \in Requests : req[o].pc # "make"
    BY <1>6 DEF Lookup, Sound
  <2> HIDE DEF u
  <2> QED BY <1>4, <1>6, <2>1, <2>2
<1>7. CASE t.pc = "reenter"
  <2> DEFINE u == [t EXCEPT !.pc = "reacquire", !.lock = lock]
  <2>1. /\ u \in Thread /\ u.pc = "reacquire" /\ u.lock = lock
        /\ u.held = t.held /\ u.loaded = t.loaded /\ u.path = t.path
        /\ u.kind = t.kind /\ u.input = t.input /\ u.known = t.known
        /\ u.out = t.out
    BY <1>1, <1>3 DEF Thread
  <2>2. req' = [req EXCEPT ![r] = u]
    BY <1>7 DEF Lookup
  <2> HIDE DEF u
  <2>3. Critical(t) /\ Critical(u)
    BY <1>7, <2>1 DEF Critical
  <2>4. Plan(u) = Plan(t)
    BY <2>1 DEF Plan, Receives
  <2>5. Work(u, json', sqlite', ignored')
    BY <1>1, <1>2, <1>7, <2>1, <2>4
    DEF Work, Critical, Starts, Reads, Plans, Saves, Receives
  <2> QED BY <1>2, <2>1, <2>2, <2>3, <2>5, MovesInside
<1> QED BY <1>5, <1>6, <1>7 DEF Lookup

\* There is one maker, and nobody is in the critical section yet.
LEMMA WorkMake ==
  ASSUME IInv, Typed', NEW r \in Requests, Make(r)
  PROVE  IInv'
<1> DEFINE t == req[r]
           u == [t EXCEPT !.pc = "acquire", !.lock = r]
<1>1. t \in Thread /\ Work(t, json, sqlite, ignored) /\ Locked(req, lock)
  BY ThreadIs
<1>2. UNCHANGED <<json, sqlite, ignored>> /\ lock' = r /\ t.pc = "make"
      /\ req' = [req EXCEPT ![r] = u]
  BY DEF Make
<1>3. /\ u \in Thread /\ u.pc = "acquire" /\ u.lock = r
      /\ u.held = t.held /\ u.loaded = t.loaded /\ u.path = t.path
  BY <1>1 DEF Thread
<1> HIDE DEF u
<1>4. ~Critical(t) /\ ~Critical(u)
  BY <1>2, <1>3 DEF Critical
<1>5. req \in [Requests -> Thread]
  BY DEF IInv, Typed
<1>6. /\ req'[r] = u
      /\ \A o \in Requests \ {r} :
           req'[o] = req[o] /\ ~Critical(req[o]) /\ req[o].held = {}
           /\ req[o].pc # "make" /\ req[o].pc \notin {"acquire", "reacquire"}
  <2>1. lock = None
    BY <1>1, <1>2 DEF Locked
  <2>2. \A o \in Requests \ {r} : ~Critical(req[o]) /\ req[o].held = {}
                                  /\ req[o].pc # "make"
    BY <1>1, <1>2, <2>1 DEF Locked
  <2>3. \A o \in Requests : req[o].pc \notin {"acquire", "reacquire"}
    BY <1>1, <2>1 DEF Locked, IInv, Typed, ThreadOK
  <2> QED BY <1>2, <1>5, <2>2, <2>3
<1>7. u.held = {}
  BY <1>1, <1>3, <1>4 DEF Locked
<1>8. Locked(req', lock')
  <2> SUFFICES ASSUME NEW o \in Requests
               PROVE  /\ req'[o].held = {} /\ ~Critical(req'[o])
                      /\ req'[o].pc # "make"
                      /\ req'[o].pc \in {"acquire", "reacquire"} =>
                           req'[o].lock = lock'
    BY DEF Locked
  <2>1. CASE o = r
    BY <1>2, <1>3, <1>4, <1>6, <1>7, <2>1
  <2>2. CASE o # r
    BY <1>6, <2>2
  <2> QED BY <2>1, <2>2
<1>9. ASSUME NEW o \in Requests
      PROVE  Work(req'[o], json', sqlite', ignored')
  <2>1. CASE o = r
    BY <1>1, <1>3, <1>4, <1>6, <2>1, OutsideWork
  <2>2. CASE o # r
    BY <1>2, <1>6, <2>2 DEF IInv
  <2> QED BY <2>1, <2>2
<1> QED BY <1>8, <1>9 DEF IInv

\* A lock that is free is held by nobody: nobody else is inside.
LEMMA WorkAcquire ==
  ASSUME Sound, IInv, Typed', NEW r \in Requests, Acquire(r)
  PROVE  IInv'
<1> DEFINE t == req[r]
           pc == IF t.pc = "reacquire" THEN "write_json"
                 ELSE IF t.kind = "receive" THEN "known" ELSE "load"
           u == [t EXCEPT !.pc = pc, !.held = @ \cup {t.lock}]
<1>1. t \in Thread /\ Work(t, json, sqlite, ignored) /\ Locked(req, lock)
      /\ t.path \in Paths
  BY ThreadIs
<1>2. UNCHANGED <<json, sqlite, ignored, lock>>
      /\ t.pc \in {"acquire", "reacquire"} /\ req' = [req EXCEPT ![r] = u]
  BY DEF Acquire
<1>3. t.lock = lock /\ lock # None
  BY <1>1, <1>2 DEF Locked, IInv, Typed, ThreadOK
<1>4. t.held \cup {t.lock} = {lock}
  BY <1>1, <1>2, <1>3 DEF Locked
<1>5. lock \in Requests
  BY <1>3 DEF IInv, Typed, FilesOK
<1>6. /\ u \in Thread /\ u.pc = pc /\ u.held = {lock}
      /\ u.loaded = t.loaded /\ u.path = t.path
      /\ u.kind = t.kind /\ u.input = t.input /\ u.known = t.known
      /\ u.out = t.out
  BY <1>1, <1>3, <1>4, <1>5 DEF Thread
<1> HIDE DEF u
<1>7. \A o \in Requests \ {r} : ~Critical(req[o])
  <2>1. \A o \in Requests \ {r} : lock \notin req[o].held
    BY <1>3 DEF Acquire, Free
  <2> QED BY <1>1, <2>1 DEF Locked
<1>8. Critical(u) /\ u.pc \notin {"make", "acquire", "reacquire"}
  BY <1>6 DEF Critical
<1>9. Work(u, json', sqlite', ignored')
  <2>1. CASE t.pc = "reacquire"
    <3>1. u.pc = "write_json" /\ Plan(u) = Plan(t)
      BY <1>6, <2>1 DEF Plan, Receives
    <3>2. u.loaded = ViewIn(json', sqlite') /\ u.path = 1
      BY <1>1, <1>2, <1>6, <2>1 DEF Work, Plans
    <3>3. Writing(u, json', sqlite', Newest(u.out))
      BY <3>1, <3>2 DEF Writing, Paths
    <3> QED BY <1>1, <1>2, <1>6, <2>1, <3>1, <3>3
            DEF Work, Critical, Starts, Reads, Plans, Saves, Receives
  <2>2. CASE t.pc = "acquire"
    <3>1. u.loaded = {} /\ u.path = 1 /\ u.pc \in {"known", "load"}
          /\ (u.pc = "known" <=> Receives(u))
      BY <1>1, <1>6, <2>2 DEF Work, Critical, Starts, Receives
    <3>2. ShownBefore(json', sqlite', 1) = {}
      BY DEF ShownBefore, Paths
    <3> QED BY <3>1, <3>2
            DEF Work, Critical, Starts, Reads, Plans, Saves, Reading
  <2> QED BY <1>2, <2>1, <2>2
<1> QED BY <1>2, <1>3, <1>6, <1>7, <1>8, <1>9, Moves

(***************************************************************************)
(* The steps of the critical section up to the first write.                *)
(***************************************************************************)
LEMMA WorkLoadIgnored ==
  ASSUME IInv, Typed', NEW r \in Requests, LoadIgnored(r)
  PROVE  IInv'
<1> DEFINE t == req[r]
           pc == IF Receives(t) THEN "load" ELSE "ignore"
           u == [t EXCEPT !.known = ignored, !.pc = pc]
<1>1. t \in Thread /\ Work(t, json, sqlite, ignored) /\ Locked(req, lock)
  BY ThreadIs
<1>2. UNCHANGED <<json, sqlite, ignored, lock>> /\ t.pc = "known"
      /\ req' = [req EXCEPT ![r] = u]
  BY DEF LoadIgnored, Receives
<1>3. ignored \in Seq(Messages)
  BY DEF IInv, Typed, FilesOK
<1>4. /\ u \in Thread /\ u.pc = pc /\ u.held = t.held /\ u.known = ignored
      /\ u.loaded = t.loaded /\ u.path = t.path
      /\ u.kind = t.kind /\ u.input = t.input /\ u.out = t.out
  BY <1>1, <1>3 DEF Thread
<1> HIDE DEF u
<1>5. Critical(t) /\ Critical(u) /\ u.pc # "reacquire"
  BY <1>2, <1>4 DEF Critical
<1>6. Work(u, json', sqlite', ignored')
  <2>1. CASE Receives(t)
    <3>1. u.pc = "load" /\ Receives(u) /\ u.loaded = {} /\ u.path = 1
      BY <1>1, <1>2, <1>4, <2>1 DEF Work, Starts, Receives
    <3>2. ShownBefore(json', sqlite', 1) = {}
      BY DEF ShownBefore, Paths
    <3> QED BY <1>2, <1>4, <3>1, <3>2
            DEF Work, Critical, Starts, Reads, Plans, Saves, Reading
  <2>2. CASE ~Receives(t)
    <3>1. u.pc = "ignore" /\ ~Receives(u) /\ Plan(u) = Plan(t)
      BY <1>4, <2>2 DEF Receives, Plan
    <3>2. u.loaded = ViewIn(json', sqlite') /\ u.path = 1 /\ u.out = Plan(u)
      BY <1>1, <1>2, <1>4, <2>2, <3>1 DEF Work, Plans
    <3> QED BY <1>2, <1>4, <3>1, <3>2
            DEF Work, Critical, Starts, Reads, Plans, Saves
  <2> QED BY <2>1, <2>2
<1> QED BY <1>2, <1>4, <1>5, <1>6, MovesInside

\* A path has been read, and maybe copied to SQLite.
LEMMA WorkLoads ==
  ASSUME Sound, IInv, Typed', NEW r \in Requests, Reads(req[r]),
         NEW ms \in SUBSET Messages, Loads(r, ms),
         ms = ShownIn(json, sqlite, req[r].path),
         UNCHANGED <<json, ignored, lock>>,
         ViewIn(json', sqlite') = ViewIn(json, sqlite),
         \A n : ShownBefore(json', sqlite', n) = ShownBefore(json, sqlite, n),
         \A p \in Paths : ShownIn(json', sqlite', p) = ShownIn(json, sqlite, p)
  PROVE  IInv'
<1> DEFINE t == req[r]
           path == IF t.path < Files THEN t.path + 1 ELSE 1
           pc == IF t.path < Files THEN "load" ELSE "decide"
           u == [t EXCEPT !.loaded = t.loaded \cup ms, !.path = path, !.pc = pc]
<1>1. t \in Thread /\ Work(t, json, sqlite, ignored) /\ Locked(req, lock)
      /\ t.path \in Paths /\ t.loaded \in SUBSET Messages
  BY ThreadIs
<1>2. t.kind # "read"
  BY <1>1, ConstantsAssumption DEF Sound, Thread
<1>3. req' = [req EXCEPT ![r] = u]
  BY <1>2 DEF Loads
<1>4. path \in Paths
  BY <1>1, ConstantsAssumption DEF Paths
<1>5. t.loaded = ShownBefore(json, sqlite, t.path)
  BY <1>1 DEF Work, Reading
<1> HIDE DEF path
<1>6. /\ u \in Thread /\ u.pc = pc /\ u.held = t.held /\ u.known = t.known
      /\ u.loaded = t.loaded \cup ms /\ u.path = path
      /\ u.kind = t.kind /\ u.input = t.input /\ u.out = t.out
  BY <1>1, <1>4 DEF Thread
<1> HIDE DEF u
<1>7. Critical(t) /\ Critical(u) /\ u.pc # "reacquire"
  BY <1>6 DEF Critical, Reads
<1>8. u.loaded = IF t.path < Files THEN ShownBefore(json', sqlite', path)
                 ELSE ViewIn(json', sqlite')
  <2>1. CASE t.path < Files
    <3>1. path = t.path + 1
      BY <2>1 DEF path
    <3>2. \A q \in Paths : q < path <=> q < t.path \/ q = t.path
      BY <1>1, <3>1, ConstantsAssumption DEF Paths
    <3>3. ShownBefore(json, sqlite, path)
          = ShownBefore(json, sqlite, t.path) \cup ms
      BY <1>1, <3>2 DEF ShownBefore
    <3> QED BY <1>5, <1>6, <2>1, <3>3
  <2>2. CASE ~(t.path < Files)
    <3>1. \A q \in Paths : q < t.path \/ q = t.path
      BY <1>1, <2>2, ConstantsAssumption DEF Paths
    <3>2. ViewIn(json, sqlite) = ShownBefore(json, sqlite, t.path) \cup ms
      BY <1>1, <3>1 DEF ShownBefore, ViewIn
    <3> QED BY <1>5, <1>6, <2>2, <3>2
  <2> QED BY <2>1, <2>2
<1>9. Receives(t) => t.known = ignored
  BY <1>1, <1>7 DEF Work, Reads
<1>10. Work(u, json', sqlite', ignored')
  <2>1. CASE t.path < Files
    <3>1. u.pc = "load" /\ u.loaded = ShownBefore(json', sqlite', u.path)
      BY <1>6, <1>8, <2>1
    <3> QED BY <1>6, <1>9, <3>1
            DEF Work, Critical, Starts, Reads, Plans, Saves, Reading, Receives
  <2>2. CASE ~(t.path < Files)
    <3>1. u.pc = "decide" /\ u.loaded = ViewIn(json', sqlite') /\ u.path = 1
      BY <1>6, <1>8, <2>2 DEF path
    <3> QED BY <1>6, <1>9, <3>1
            DEF Work, Critical, Starts, Reads, Plans, Saves, Receives
  <2> QED BY <2>1, <2>2
<1> QED BY <1>3, <1>6, <1>7, <1>10, MovesInside

LEMMA WorkLoad ==
  ASSUME Sound, IInv, Typed', NEW r \in Requests,
         LoadSqlite(r) \/ LoadJson(r) \/ Backfill(r)
  PROVE  IInv' /\ UNCHANGED <<View, ignored, promised>>
<1> DEFINE t == req[r]
<1>1. /\ t \in Thread /\ Work(t, json, sqlite, ignored) /\ Locked(req, lock)
      /\ t.path \in Paths /\ t.out \in SUBSET Messages
      /\ json \in FileMap /\ sqlite \in FileMap
  BY ThreadIs
<1>2. Reads(t) /\ Critical(t) /\ UNCHANGED <<json, ignored, lock, promised>>
  BY DEF LoadSqlite, LoadJson, Backfill, Reads, Critical
<1>3. Reading(t, json, sqlite)
  BY <1>1, <1>2 DEF Work
<1>4. /\ json[t.path] \in SUBSET Messages /\ sqlite[t.path] \in SUBSET Messages
  BY <1>1 DEF FileMap
<1>5. ASSUME UNCHANGED sqlite, NEW u \in Thread, req' = [req EXCEPT ![r] = u],
             u.pc \in {"load_json", "backfill"}, sqlite[t.path] = {},
             u.pc = "backfill" => u.out = json[t.path],
             u.held = t.held, u.known = t.known, u.loaded = t.loaded,
             u.path = t.path, u.kind = t.kind, u.input = t.input
      PROVE  IInv' /\ View' = View
  <2>1. Critical(u) /\ u.pc # "reacquire"
    BY <1>5 DEF Critical
  <2>2. Reading(u, json', sqlite')
    BY <1>2, <1>3, <1>5 DEF Reading
  <2>3. Receives(t) => t.known = ignored
    BY <1>1, <1>2 DEF Work, Reads
  <2>4. Work(u, json', sqlite', ignored')
    BY <1>2, <1>5, <2>2, <2>3
    DEF Work, Critical, Starts, Reads, Plans, Saves, Receives
  <2>5. IInv'
    BY <1>2, <1>5, <2>1, <2>4, MovesInside
  <2> QED BY <1>2, <1>5, <2>5 DEF View, Shown
<1>6. ASSUME UNCHANGED sqlite, NEW ms \in SUBSET Messages, Loads(r, ms),
             ms = ShownIn(json, sqlite, t.path)
      PROVE  IInv' /\ View' = View
  <2>1. IInv'
    BY <1>2, <1>6, WorkLoads
  <2> QED BY <1>2, <1>6, <2>1 DEF View, Shown
<1>7. CASE LoadSqlite(r)
  <2>1. CASE sqlite[t.path] # {}
    <3>1. Loads(r, sqlite[t.path]) /\ UNCHANGED sqlite
      BY <1>7, <2>1 DEF LoadSqlite
    <3>2. sqlite[t.path] = ShownIn(json, sqlite, t.path)
      BY <2>1 DEF ShownIn
    <3> QED BY <1>2, <1>4, <1>6, <3>1, <3>2
  <2>2. CASE sqlite[t.path] = {}
    <3> DEFINE u == [t EXCEPT !.pc = "load_json"]
    <3>1. req' = [req EXCEPT ![r] = u] /\ UNCHANGED sqlite
      BY <1>7, <2>2 DEF LoadSqlite
    <3>2. /\ u \in Thread /\ u.pc = "load_json"
          /\ u.held = t.held /\ u.known = t.known /\ u.loaded = t.loaded
          /\ u.path = t.path /\ u.kind = t.kind /\ u.input = t.input
      BY <1>1 DEF Thread
    <3> HIDE DEF u
    <3> QED BY <1>2, <1>5, <2>2, <3>1, <3>2
  <2> QED BY <2>1, <2>2
<1>8. CASE LoadJson(r)
  <2>0. sqlite[t.path] = {} /\ UNCHANGED sqlite
    BY <1>3, <1>8 DEF Reading, LoadJson
  <2>1. CASE json[t.path] = {}
    <3>1. Loads(r, {})
      BY <1>8, <2>1 DEF LoadJson
    <3>2. {} = ShownIn(json, sqlite, t.path)
      BY <2>0, <2>1 DEF ShownIn
    <3> QED BY <1>2, <1>6, <2>0, <3>1, <3>2
  <2>2. CASE json[t.path] # {}
    <3> DEFINE u == [t EXCEPT !.pc = "backfill", !.out = json[t.path]]
    <3>1. req' = [req EXCEPT ![r] = u]
      BY <1>8, <2>2 DEF LoadJson
    <3>2. /\ u \in Thread /\ u.pc = "backfill" /\ u.out = json[t.path]
          /\ u.held = t.held /\ u.known = t.known /\ u.loaded = t.loaded
          /\ u.path = t.path /\ u.kind = t.kind /\ u.input = t.input
      BY <1>1, <1>4 DEF Thread
    <3> HIDE DEF u
    <3> QED BY <1>2, <1>5, <2>0, <3>1, <3>2
  <2> QED BY <2>1, <2>2
<1>9. CASE Backfill(r)
  <2>1. sqlite[t.path] = {} /\ t.out = json[t.path]
    BY <1>3, <1>9 DEF Reading, Backfill
  <2>2. sqlite' = [sqlite EXCEPT ![t.path] = json[t.path]] /\ Loads(r, t.out)
    BY <1>9, <2>1 DEF Backfill
  \* SQLite is filled from the JSON next to it: nobody sees a difference.
  <2>3. /\ \A q \in Paths : ShownIn(json, sqlite', q) = ShownIn(json, sqlite, q)
        /\ ViewIn(json, sqlite') = ViewIn(json, sqlite)
        /\ \A n : ShownBefore(json, sqlite', n) = ShownBefore(json, sqlite, n)
    <3>1. \A q \in Paths : ShownIn(json, sqlite', q) = ShownIn(json, sqlite, q)
      BY <1>1, <2>1, <2>2 DEF ShownIn, FileMap
    <3> QED BY <3>1 DEF ViewIn, ShownBefore
  <2>4. t.out = ShownIn(json, sqlite, t.path)
    BY <2>1 DEF ShownIn
  <2>5. IInv'
    BY <1>1, <1>2, <2>2, <2>3, <2>4, WorkLoads
  <2> QED BY <1>2, <2>3, <2>5, ViewIs
<1> QED BY <1>7, <1>8, <1>9

LEMMA WorkDecide ==
  ASSUME IInv, Typed', NEW r \in Requests, Merge(r) \/ ChooseTargets(r)
  PROVE  IInv'
<1> DEFINE t == req[r]
<1>1. t \in Thread /\ Work(t, json, sqlite, ignored) /\ Locked(req, lock)
      /\ t.loaded \in SUBSET Messages /\ t.input \in SUBSET Messages
  BY ThreadIs
<1>2. t.pc = "decide" /\ Critical(t) /\ UNCHANGED <<json, sqlite, ignored, lock>>
  BY DEF Merge, ChooseTargets, Critical
<1>3. /\ t.loaded = ViewIn(json, sqlite) /\ t.path = 1
      /\ Receives(t) => t.known = ignored
  BY <1>1, <1>2 DEF Work
<1>4. CASE Merge(r)
  <2> DEFINE out == Merged(t.loaded, t.input, ToSet(t.known))
             u == [t EXCEPT !.out = out, !.pc = "reenter"]
  <2>1. out \in SUBSET Messages
    BY <1>1 DEF Merged
  <2>2. req' = [req EXCEPT ![r] = u] /\ Receives(t)
    BY <1>4 DEF Merge, Receives
  <2> HIDE DEF out
  <2>3. /\ u \in Thread /\ u.pc = "reenter" /\ u.held = t.held
        /\ u.known = t.known /\ u.loaded = t.loaded /\ u.path = t.path
        /\ u.kind = t.kind /\ u.input = t.input /\ u.out = out
    BY <1>1, <2>1 DEF Thread
  <2> HIDE DEF u
  <2>4. Receives(u) /\ u.out = Plan(u) /\ Critical(u)
    BY <2>2, <2>3 DEF Receives, Plan, Critical, out
  <2>5. Work(u, json', sqlite', ignored')
    BY <1>2, <1>3, <2>2, <2>3, <2>4
    DEF Work, Critical, Starts, Reads, Plans, Saves
  <2> QED BY <1>2, <2>2, <2>3, <2>4, <2>5, MovesInside
<1>5. CASE ChooseTargets(r)
  <2>1. PICK targets \in SUBSET Messages :
          /\ t.kind = "delete" \/ t.kind = "delete_matching"
          /\ req' = [req EXCEPT ![r].input = targets,
                                ![r].out = req[r].loaded \ targets,
                                ![r].pc = IF targets = {} THEN "reply"
                                          ELSE "known"]
    BY <1>5 DEF ChooseTargets
  <2> DEFINE pc == IF targets = {} THEN "reply" ELSE "known"
             u == [t EXCEPT !.input = targets, !.out = t.loaded \ targets,
                            !.pc = pc]
  <2>2. req' = [req EXCEPT ![r] = u]
    BY <2>1
  <2>3. /\ u \in Thread /\ u.pc = pc /\ u.held = t.held
        /\ u.known = t.known /\ u.loaded = t.loaded /\ u.path = t.path
        /\ u.kind = t.kind /\ u.input = targets /\ u.out = t.loaded \ targets
    BY <1>1 DEF Thread
  <2> HIDE DEF u
  <2>4. ~Receives(u) /\ u.out = Plan(u) /\ Critical(u)
    BY <2>1, <2>3 DEF Receives, Plan, Critical
  <2>5. Work(u, json', sqlite', ignored')
    BY <1>2, <1>3, <2>3, <2>4
    DEF Work, Critical, Starts, Reads, Plans, Saves
  <2>6. u.pc # "reacquire"
    BY <2>3
  <2> QED BY <1>2, <2>2, <2>3, <2>4, <2>5, <2>6, MovesInside
<1> QED BY <1>4, <1>5

(***************************************************************************)
(* A step of the cache as MessageCache sees it, or none.                   *)
(***************************************************************************)
CacheStep == [Cache!Next]_(Cache!vars)

LEMMA SilentStep ==
  ASSUME UNCHANGED <<View, ignored, promised>>
  PROVE  CacheStep
BY DEF CacheStep, Cache!vars

LEMMA AskStep ==
  ASSUME NEW ms \in SUBSET Messages, Cache!Ask(ms)
  PROVE  CacheStep
BY DEF CacheStep, Cache!Next

LEMMA ConfirmStep ==
  ASSUME NEW ms \in SUBSET Messages, Cache!Confirm(ms)
  PROVE  CacheStep
BY DEF CacheStep, Cache!Next

LEMMA ChangeStep ==
  ASSUME NEW received \in SUBSET Messages, NEW dropped \in SUBSET Messages,
         Cache!Change(received, dropped)
  PROVE  CacheStep
BY DEF CacheStep, Cache!Next

(***************************************************************************)
(* The targets of a deletion are recorded before anything is removed, and  *)
(* none of the keys recorded earlier is lost.                              *)
(***************************************************************************)
LEMMA WorkIgnore ==
  ASSUME Sound, IInv, Typed', NEW r \in Requests, Ignore(r)
  PROVE  IInv' /\ CacheStep
<1> DEFINE t == req[r]
           pc == IF t.out # t.loaded THEN "reenter" ELSE "reply"
           u == [t EXCEPT !.pc = pc]
<1>1. /\ t \in Thread /\ Work(t, json, sqlite, ignored) /\ Locked(req, lock)
      /\ t.known \in Seq(Messages) /\ IsInjective(t.known)
      /\ t.input \in SUBSET Messages /\ t.loaded \in SUBSET Messages
  BY ThreadIs
<1>2. /\ t.pc = "ignore" /\ Critical(t) /\ req' = [req EXCEPT ![r] = u]
      /\ UNCHANGED <<json, sqlite, lock, promised>>
  BY DEF Ignore, Critical
<1>3. /\ t.loaded = ViewIn(json, sqlite) /\ t.path = 1 /\ t.known = ignored
      /\ ~Receives(t) /\ t.out = t.loaded \ t.input
  BY <1>1, <1>2 DEF Work, Plans, Plan
<1>4. ToSet(ignored') = ToSet(ignored) \cup t.input
  <2>1. PICK keys \in SetToSeqs(t.input \ ToSet(t.known)) :
          ignored' = Remembered(t.known, keys)
    BY DEF Ignore
  <2> QED BY <1>1, <1>3, <2>1, RememberedIs DEF Sound
<1>5. /\ u \in Thread /\ u.pc = pc /\ u.held = t.held /\ u.known = t.known
      /\ u.loaded = t.loaded /\ u.path = t.path
      /\ u.kind = t.kind /\ u.input = t.input /\ u.out = t.out
  BY <1>1 DEF Thread
<1> HIDE DEF u
<1>6. Critical(u) /\ u.pc # "reacquire" /\ ~Receives(u)
  BY <1>3, <1>5 DEF Critical, Receives
<1>7. Work(u, json', sqlite', ignored')
  <2>1. u.out = Plan(u) /\ u.input \subseteq ToSet(ignored')
    BY <1>3, <1>4, <1>5, <1>6 DEF Plan
  <2>2. u.pc = "reply" => u.input \cap ViewIn(json', sqlite') = {}
    BY <1>2, <1>3, <1>5
  <2> QED BY <1>2, <1>3, <1>5, <1>6, <2>1, <2>2
          DEF Work, Critical, Starts, Reads, Plans, Saves
<1>8. IInv'
  BY <1>2, <1>5, <1>6, <1>7, MovesInside
<1>9. Cache!Ask(t.input)
  BY <1>2, <1>4 DEF Cache!Ask, View, Shown
<1> QED BY <1>1, <1>8, <1>9, AskStep

(***************************************************************************)
(* What a write adds to what readers see was received and is not ignored;  *)
(* what it takes away was deleted, or is older than all that a file keeps. *)
(***************************************************************************)
LEMMA WriteIsChange ==
  ASSUME IInv, NEW r \in Requests, Saves(req[r]),
         UNCHANGED <<ignored, promised>>,
         View' \subseteq View \cup Newest(req[r].out),
         View' = View \/ Newest(req[r].out) \subseteq View'
  PROVE  /\ CacheStep
         /\ View' \subseteq req[r].loaded \cup Newest(req[r].out)
         /\ View' = req[r].loaded \/ Newest(req[r].out) \subseteq View'
<1> DEFINE t == req[r]
           new == Newest(t.out)
           received == View' \ View
           dropped == View \ View'
<1>1. /\ Work(t, json, sqlite, ignored) /\ t.loaded \in SUBSET Messages
      /\ t.out \in SUBSET Messages /\ t.input \in SUBSET Messages
  BY ThreadIs
<1>2. new \subseteq t.out /\ new \subseteq Messages
  BY <1>1, NewestSize
<1>3. /\ View \subseteq t.loaded \cup new
      /\ View = t.loaded \/ new \subseteq View
  BY <1>1, ViewIs DEF Work, Writing
<1>4. /\ t.loaded \ t.out \subseteq ToSet(ignored)
      /\ \A m \in t.out : m \notin t.loaded => m \notin ToSet(ignored)
  <2>1. CASE Receives(t)
    <3>1. t.out = (t.loaded \cup t.input) \ ToSet(ignored)
      BY <1>1, <2>1 DEF Work, Saves, Critical, Plan, Merged
    <3> QED BY <3>1
  <2>2. CASE ~Receives(t)
    <3>1. t.out = t.loaded \ t.input /\ t.input \subseteq ToSet(ignored)
      BY <1>1, <2>2 DEF Work, Plan
    <3> QED BY <3>1
  <2> QED BY <2>1, <2>2
<1> HIDE DEF new
<1>5. /\ View' \subseteq t.loaded \cup new
      /\ View' = t.loaded \/ new \subseteq View'
      /\ received \subseteq new \ t.loaded
      /\ dropped \subseteq t.loaded \ new
      /\ View' = View \/ new \subseteq View'
  BY <1>3, WriteShows DEF new
<1>6. View \in SUBSET Messages /\ View' \in SUBSET Messages
  BY <1>1, <1>2, <1>3, <1>5
<1>7. ASSUME NEW m \in dropped, m \notin ToSet(ignored)
      PROVE  Cardinality({n \in View' : n > m}) >= Cap
  <2>1. m \in t.out \ new /\ new \subseteq View'
    BY <1>4, <1>5, <1>7
  <2>2. Cardinality(Newer(new, m)) >= Cap
    BY <1>1, <2>1, NewestKeeps DEF new
  <2>3. Newer(new, m) \subseteq Newer(View', m)
    BY <2>1 DEF Newer
  <2>4. /\ IsFiniteSet(Newer(View', m)) /\ Cardinality(Newer(View', m)) \in Nat
        /\ Cardinality(Newer(new, m)) \in Nat
    BY <1>1, <1>2, <1>6, <2>1, CountsAreNat
  <2>5. Cardinality(Newer(new, m)) <= Cardinality(Newer(View', m))
    BY <2>3, <2>4, FS_Subset
  <2>6. Cardinality(Newer(View', m)) >= Cap
    BY <2>2, <2>4, <2>5, ConstantsAssumption
  <2> QED BY <2>6 DEF Newer
<1>8. Cache!Change(received, dropped)
  <2>1. received \cap ToSet(ignored) = {}
    BY <1>2, <1>4, <1>5
  <2>2. View' = (View \ dropped) \cup received
    OBVIOUS
  <2>3. \A m \in dropped :
          m \in ToSet(ignored) \/ Cardinality({n \in View' : n > m}) >= Cap
    BY <1>7
  <2> HIDE DEF received, dropped
  <2>4. \A S : Cache!Cardinality(S) = Cardinality(S)
    BY Zenon DEF Cache!Cardinality, Cardinality
  <2> QED BY <2>1, <2>2, <2>3, <2>4 DEF Cache!Change, Cache!Outdated
<1>9. CacheStep
  BY <1>6, <1>8, ChangeStep
<1> QED BY <1>5, <1>9 DEF new

LEMMA WorkWriteJson ==
  ASSUME IInv, Typed', NEW r \in Requests, WriteJson(r)
  PROVE  IInv' /\ CacheStep
<1> DEFINE t == req[r]
           new == Newest(t.out)
           u == [t EXCEPT !.pc = "write_sqlite"]
<1>1. /\ t \in Thread /\ Work(t, json, sqlite, ignored) /\ Locked(req, lock)
      /\ t.path \in Paths /\ json \in FileMap /\ sqlite \in FileMap
  BY ThreadIs
<1>2. /\ t.pc = "write_json" /\ Critical(t) /\ Saves(t)
      /\ req' = [req EXCEPT ![r] = u] /\ json' = [json EXCEPT ![t.path] = new]
      /\ UNCHANGED <<sqlite, ignored, lock, promised>>
  BY DEF WriteJson, Critical, Saves
<1>3. Writing(t, json, sqlite, new) /\ t.out = Plan(t)
      /\ (Receives(t) => t.known = ignored)
      /\ (Receives(t) \/ t.input \subseteq ToSet(ignored))
  BY <1>1, <1>2 DEF Work
<1>4. /\ View' \subseteq View \cup new
      /\ View' = View \/ new \subseteq View'
  <2>1. PICK js2 : js2 = json'
    OBVIOUS
  <2>2. PICK p \in Paths : p = t.path
    BY <1>1
  <2>3. js2 = [json EXCEPT ![p] = new]
    BY <1>2, <2>1, <2>2
  <2> HIDE DEF new
  <2>4. /\ ViewIn(js2, sqlite) \subseteq ViewIn(json, sqlite) \cup new
        /\ ViewIn(js2, sqlite) = ViewIn(json, sqlite)
             \/ new \subseteq ViewIn(js2, sqlite)
    BY <1>1, <2>3, JsonShows
  <2> QED BY <1>2, <2>1, <2>4, ViewIs
<1>5. /\ CacheStep
      /\ View' \subseteq t.loaded \cup new
      /\ View' = t.loaded \/ new \subseteq View'
  BY <1>2, <1>4, WriteIsChange
<1>6. /\ u \in Thread /\ u.pc = "write_sqlite" /\ u.held = t.held
      /\ u.known = t.known /\ u.loaded = t.loaded /\ u.path = t.path
      /\ u.kind = t.kind /\ u.input = t.input /\ u.out = t.out
  BY <1>1 DEF Thread
<1> HIDE DEF u
<1>7. /\ \A p \in Paths : p < t.path => json'[p] = new /\ sqlite'[p] = new
      /\ json'[t.path] = new
  <2>1. \A p \in Paths : p < t.path => p # t.path
    BY <1>1 DEF Paths
  <2> HIDE DEF new
  <2> QED BY <1>1, <1>2, <1>3, <2>1 DEF Writing, FileMap
<1>8. Newest(u.out) = new
  BY <1>6
<1>9. Work(u, json', sqlite', ignored')
  <2> HIDE DEF new
  <2>1. Writing(u, json', sqlite', new)
    BY <1>5, <1>6, <1>7, ViewIs DEF Writing
  <2>2. Plan(u) = Plan(t) /\ (Receives(u) <=> Receives(t))
    BY <1>6 DEF Plan, Receives
  <2> QED BY <1>2, <1>3, <1>6, <1>8, <2>1, <2>2
          DEF Work, Critical, Starts, Reads, Plans, Saves
<1>10. Critical(u)
  BY <1>6 DEF Critical
<1>11. IInv'
  BY <1>2, <1>6, <1>9, <1>10, MovesInside
<1> QED BY <1>5, <1>11

LEMMA WorkWriteSqlite ==
  ASSUME IInv, Typed', NEW r \in Requests, WriteSqlite(r)
  PROVE  IInv' /\ CacheStep
<1> DEFINE t == req[r]
           new == Newest(t.out)
           pc == IF t.path < Files THEN "write_json" ELSE "reply"
           path == IF t.path < Files THEN t.path + 1 ELSE t.path
           u == [t EXCEPT !.pc = pc, !.path = path]
<1>1. /\ t \in Thread /\ Work(t, json, sqlite, ignored) /\ Locked(req, lock)
      /\ t.path \in Paths /\ json \in FileMap /\ sqlite \in FileMap
      /\ t.out \in SUBSET Messages
  BY ThreadIs
<1>2. /\ t.pc = "write_sqlite" /\ Critical(t) /\ Saves(t)
      /\ req' = [req EXCEPT ![r] = u] /\ sqlite' = [sqlite EXCEPT ![t.path] = new]
      /\ UNCHANGED <<json, ignored, lock, promised>>
  BY DEF WriteSqlite, Critical, Saves
<1>3. Writing(t, json, sqlite, new) /\ t.out = Plan(t)
      /\ (Receives(t) => t.known = ignored)
      /\ (Receives(t) \/ t.input \subseteq ToSet(ignored))
  BY <1>1, <1>2 DEF Work
<1>4. /\ View' \subseteq View \cup new
      /\ new \subseteq View'
  <2>1. PICK sq2 : sq2 = sqlite'
    OBVIOUS
  <2>2. PICK p \in Paths : p = t.path
    BY <1>1
  <2>3. sq2 = [sqlite EXCEPT ![p] = json[p]] /\ json[p] = new
    BY <1>2, <1>3, <2>1, <2>2 DEF Writing
  <2> HIDE DEF new
  <2>4. /\ ViewIn(json, sq2) \subseteq ViewIn(json, sqlite) \cup json[p]
        /\ json[p] \subseteq ViewIn(json, sq2)
    BY <1>1, <2>3, SqliteShows
  <2> QED BY <1>2, <2>1, <2>3, <2>4, ViewIs
<1>5. /\ CacheStep
      /\ View' \subseteq t.loaded \cup new
      /\ View' = t.loaded \/ new \subseteq View'
  BY <1>2, <1>4, WriteIsChange
<1>6. path \in Paths
  BY <1>1, ConstantsAssumption DEF Paths
<1>7. /\ u \in Thread /\ u.pc = pc /\ u.held = t.held
      /\ u.known = t.known /\ u.loaded = t.loaded /\ u.path = path
      /\ u.kind = t.kind /\ u.input = t.input /\ u.out = t.out
  <2> HIDE DEF path
  <2> QED BY <1>1, <1>6 DEF Thread
<1> HIDE DEF u
<1>8. /\ \A p \in Paths : p < t.path => json'[p] = new /\ sqlite'[p] = new
      /\ json'[t.path] = new /\ sqlite'[t.path] = new
  <2>1. \A p \in Paths : p < t.path => p # t.path
    BY <1>1 DEF Paths
  <2> HIDE DEF new
  <2> QED BY <1>1, <1>2, <1>3, <2>1 DEF Writing, FileMap
<1>9. Newest(u.out) = new
  BY <1>7
<1>10. Plan(u) = Plan(t) /\ (Receives(u) <=> Receives(t))
  BY <1>7 DEF Plan, Receives
<1>11. Work(u, json', sqlite', ignored')
  <2>1. CASE t.path < Files
    <3>1. u.path = t.path + 1 /\ u.pc = "write_json"
      BY <1>7, <2>1
    <3>2. \A p \in Paths : p < u.path => p < t.path \/ p = t.path
      BY <1>1, <3>1 DEF Paths
    <3> HIDE DEF new
    <3>3. Writing(u, json', sqlite', new)
      BY <1>5, <1>7, <1>8, <3>1, <3>2, ViewIs DEF Writing
    <3> QED BY <1>2, <1>3, <1>7, <1>9, <1>10, <3>1, <3>3
            DEF Work, Critical, Starts, Reads, Plans, Saves
  <2>2. CASE ~(t.path < Files)
    <3>1. u.pc = "reply"
      BY <1>7, <2>2
    <3>2. \A p \in Paths : p < t.path \/ p = t.path
      BY <1>1, <2>2, ConstantsAssumption DEF Paths
    <3>3. new \subseteq t.out
      BY <1>1, NewestSize
    <3> HIDE DEF new
    <3>4. \A p \in Paths : ShownIn(json', sqlite', p) = new
      BY <1>8, <3>2 DEF ShownIn
    <3>5. ViewIn(json', sqlite') \subseteq new
      BY <3>4 DEF ViewIn
    <3>6. Receives(t) \/ t.input \cap ViewIn(json', sqlite') = {}
      BY <1>3, <3>3, <3>5 DEF Plan
    <3> QED BY <1>2, <1>3, <1>7, <1>10, <3>1, <3>6
            DEF Work, Critical, Starts, Reads, Plans, Saves
  <2> QED BY <2>1, <2>2
<1>12. Critical(u) /\ u.pc # "reacquire"
  BY <1>7 DEF Critical
<1>13. IInv'
  BY <1>2, <1>7, <1>11, <1>12, MovesInside
<1> QED BY <1>5, <1>13

-----------------------------------------------------------------------------
(***************************************************************************)
(* The end of a request, and of the process.                               *)
(***************************************************************************)
LEMMA DoneThread ==
  \E u \in Thread : /\ u = [NewThread EXCEPT !.pc = "done"]
                    /\ u.pc = "done" /\ u.held = {} /\ ~Critical(u)
                    /\ \A js, sq, keys : Work(u, js, sq, keys)
<1> DEFINE u == [NewThread EXCEPT !.pc = "done"]
<1>1. /\ u \in Thread /\ u.pc = "done" /\ u.held = {} /\ u.loaded = {}
      /\ u.path = 1
  BY NewThreadIs DEF Thread
<1> HIDE DEF u
<1>2. ~Critical(u)
  BY <1>1 DEF Critical
<1>3. \A js, sq, keys : Work(u, js, sq, keys)
  BY <1>1, <1>2, OutsideWork
<1> QED BY <1>1, <1>2, <1>3 DEF u

LEMMA WorkEnds ==
  ASSUME IInv, Typed', NEW r \in Requests, Reply(r) \/ WriteFails(r)
  PROVE  IInv' /\ CacheStep
<1> DEFINE t == req[r]
<1>1. PICK u \in Thread : /\ u = [NewThread EXCEPT !.pc = "done"]
                          /\ u.pc = "done" /\ u.held = {} /\ ~Critical(u)
                          /\ \A js, sq, keys : Work(u, js, sq, keys)
  BY DoneThread
<1>2. /\ req' = [req EXCEPT ![r] = u]
      /\ UNCHANGED <<json, sqlite, ignored, lock>>
  BY <1>1 DEF Reply, WriteFails
<1>3. IInv'
  BY <1>1, <1>2, Moves
<1>4. View' = View
  BY <1>2 DEF View, Shown
<1>5. CASE UNCHANGED promised
  BY <1>2, <1>3, <1>4, <1>5, SilentStep
<1>6. CASE Reply(r) /\ ~Receives(t)
  <2>1. t.input \in SUBSET Messages /\ Work(t, json, sqlite, ignored)
    BY ThreadIs
  <2>2. /\ t.pc = "reply" /\ promised' = promised \cup t.input
    BY <1>6 DEF Reply, Receives
  <2>3. t.input \subseteq ToSet(ignored) /\ t.input \cap View = {}
    BY <1>6, <2>1, <2>2, ViewIs DEF Work
  <2>4. Cache!Confirm(t.input)
    BY <1>2, <1>4, <2>2, <2>3 DEF Cache!Confirm
  <2> QED BY <1>3, <2>1, <2>4, ConfirmStep
<1> QED BY <1>5, <1>6 DEF Reply, WriteFails, Receives

LEMMA WorkRestart ==
  ASSUME IInv, Typed', Restart
  PROVE  IInv' /\ UNCHANGED <<View, ignored, promised>>
<1>1. PICK u \in Thread : /\ u = [NewThread EXCEPT !.pc = "done"]
                          /\ u.pc = "done" /\ u.held = {} /\ ~Critical(u)
                          /\ \A js, sq, keys : Work(u, js, sq, keys)
  BY DoneThread
<1>2. PICK idle : /\ idle = NewThread /\ idle.pc = "idle" /\ idle.held = {}
                  /\ idle.loaded = {} /\ idle.path = 1
  BY NewThreadIs
<1>3. ~Critical(idle)
  BY <1>2 DEF Critical
<1>4. \A js, sq, keys : Work(idle, js, sq, keys)
  BY <1>2, <1>3, OutsideWork
<1>5. \A r \in Requests : req'[r] \in {idle, u}
  BY <1>1, <1>2 DEF Restart
<1>6. Locked(req', lock')
  BY <1>1, <1>2, <1>3, <1>5 DEF Locked
<1>7. \A r \in Requests : Work(req'[r], json', sqlite', ignored')
  BY <1>1, <1>4, <1>5
<1> QED BY <1>6, <1>7 DEF IInv, Restart, View, Shown

LEMMA WorkInit ==
  ASSUME Init
  PROVE  IInv /\ Cache!Init
<1>1. PICK idle : /\ idle = NewThread /\ idle.pc = "idle" /\ idle.held = {}
                  /\ idle.loaded = {} /\ idle.path = 1
  BY NewThreadIs
<1>2. ~Critical(idle)
  BY <1>1 DEF Critical
<1>3. \A js, sq, keys : Work(idle, js, sq, keys)
  BY <1>1, <1>2, OutsideWork
<1>4. \A r \in Requests : req[r] = idle
  BY <1>1 DEF Init
<1>5. Locked(req, lock)
  BY <1>1, <1>2, <1>4 DEF Locked
<1>6. IInv
  BY <1>3, <1>4, <1>5, TypedInit DEF IInv
<1>7. View \in SUBSET Messages
  BY <1>6 DEF IInv, Typed, FilesOK, View, Shown
<1>8. ToSet(ignored) = {}
  BY DEF Init, ToSet
<1> QED BY <1>6, <1>7, <1>8 DEF Cache!Init, Init

(***************************************************************************)
(* Every step keeps the invariant, and is a step of the cache or none.     *)
(***************************************************************************)
LEMMA WorkNext ==
  ASSUME Sound, IInv, [Next]_vars
  PROVE  IInv' /\ CacheStep
<1>1. Typed'
  BY TypedNext DEF IInv
<1>2. ASSUME NEW r \in Requests, Begin(r)
      PROVE  IInv' /\ UNCHANGED <<View, ignored, promised>>
  <2>1. IInv'
    BY <1>1, <1>2, WorkBegin
  <2>2. UNCHANGED <<json, sqlite, ignored, promised>>
    BY <1>2 DEF Begin
  <2> QED BY <2>1, <2>2 DEF View, Shown
<1>3. ASSUME NEW r \in Requests, Lookup(r) \/ Acquire(r) \/ Make(r) \/ LoadIgnored(r)
      PROVE  IInv' /\ UNCHANGED <<View, ignored, promised>>
  <2>1. IInv'
    BY <1>1, <1>3, WorkLookup, WorkAcquire, WorkMake, WorkLoadIgnored
  <2>2. UNCHANGED <<json, sqlite, ignored, promised>>
    BY <1>3 DEF Lookup, Acquire, Make, LoadIgnored
  <2> QED BY <2>1, <2>2 DEF View, Shown
<1>4. ASSUME NEW r \in Requests, LoadSqlite(r) \/ LoadJson(r) \/ Backfill(r)
      PROVE  IInv' /\ UNCHANGED <<View, ignored, promised>>
  BY <1>1, <1>4, WorkLoad
<1>5. ASSUME NEW r \in Requests, Merge(r) \/ ChooseTargets(r)
      PROVE  IInv' /\ UNCHANGED <<View, ignored, promised>>
  <2>1. IInv'
    BY <1>1, <1>5, WorkDecide
  <2>2. UNCHANGED <<json, sqlite, ignored, promised>>
    BY <1>5 DEF Merge, ChooseTargets
  <2> QED BY <2>1, <2>2 DEF View, Shown
<1>6. ASSUME NEW r \in Requests,
             Ignore(r) \/ WriteJson(r) \/ WriteSqlite(r) \/ Reply(r) \/ WriteFails(r)
      PROVE  IInv' /\ CacheStep
  BY <1>1, <1>6, WorkIgnore, WorkWriteJson, WorkWriteSqlite, WorkEnds
<1>7. CASE Restart
  BY <1>1, <1>7, WorkRestart, SilentStep
<1>8. CASE UNCHANGED vars
  <2>1. IInv'
    BY <1>1, <1>8 DEF IInv, vars
  <2> QED BY <1>8, <2>1, SilentStep DEF vars, View, Shown
<1>9. ASSUME NEW r \in Requests, Begin(r) \/ Advance(r)
      PROVE  IInv' /\ CacheStep
  BY <1>2, <1>3, <1>4, <1>5, <1>6, <1>9, SilentStep DEF Advance
<1> QED BY <1>7, <1>8, <1>9 DEF Next

(***************************************************************************)
(* What a mail cache promises (MessageCache), whatever keeps it: mail whose*)
(* deletion was confirmed does not come back, since what may still come    *)
(* back is never among the keys users asked to delete.                     *)
(***************************************************************************)
THEOREM DeletionIsForGood == Cache!Spec => []Cache!PromiseKept
<1> DEFINE Kept == Cache!PromisesAreRecorded /\ Cache!PromiseKept
<1>1. Cache!Init => Kept
  BY DEF Cache!Init, Cache!PromisesAreRecorded, Cache!PromiseKept
<1>2. Kept /\ [Cache!Next]_(Cache!vars) => Kept'
  <2> SUFFICES ASSUME Kept, [Cache!Next]_(Cache!vars) PROVE Kept'
    OBVIOUS
  <2> USE DEF Cache!PromisesAreRecorded, Cache!PromiseKept
  <2>1. ASSUME NEW ms \in SUBSET Messages, Cache!Ask(ms) PROVE Kept'
    BY <2>1 DEF Cache!Ask
  <2>2. ASSUME NEW ms \in SUBSET Messages, Cache!Confirm(ms) PROVE Kept'
    BY <2>2 DEF Cache!Confirm
  <2>3. ASSUME NEW received \in SUBSET Messages,
               NEW dropped \in SUBSET Messages,
               Cache!Change(received, dropped)
        PROVE  Kept'
    BY <2>3 DEF Cache!Change
  <2>4. CASE UNCHANGED Cache!vars
    BY <2>4 DEF Cache!vars
  <2> QED BY <2>1, <2>2, <2>3, <2>4 DEF Cache!Next
<1> QED BY <1>1, <1>2, PTL DEF Cache!Spec

(***************************************************************************)
(* The files, the lock and the threads keep the promises of MessageCache,  *)
(* whatever is read, written or lost in between: mail only leaves what     *)
(* readers see because it was deleted or is too old, deleted mail does not *)
(* come back, and a deletion is confirmed once the mail is gone            *)
(* (upsert_messages_state, delete_messages_state, save_messages).          *)
(***************************************************************************)
THEOREM FilesKeepThePromises == Sound => (Spec => KeepsThePromises)
<1> SUFFICES ASSUME Sound PROVE Spec => KeepsThePromises
  OBVIOUS
<1>1. Init => IInv /\ Cache!Init
  BY WorkInit
<1>2. IInv /\ [Next]_vars => IInv' /\ [Cache!Next]_(Cache!vars)
  BY WorkNext DEF CacheStep
<1> QED BY <1>1, <1>2, PTL DEF Spec, KeepsThePromises, Cache!Spec

(***************************************************************************)
(* A deletion that was confirmed stays one: mail received later, by        *)
(* whichever thread, is not merged back into the files (README.md:14).     *)
(***************************************************************************)
THEOREM ConfirmedDeletionsStay == Sound => (Spec => []DeletedStaysDeleted)
<1>1. Cache!PromiseKept <=> DeletedStaysDeleted
  BY DEF Cache!PromiseKept, DeletedStaysDeleted
<1> QED BY <1>1, DeletionIsForGood, FilesKeepThePromises, PTL
        DEF KeepsThePromises
=============================================================================
