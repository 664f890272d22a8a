----------------------------- MODULE UartProofs -----------------------------
(***************************************************************************)
(* Printing through the mutex, for any number of tasks, any priorities,    *)
(* any timeout and strings of any length: no inversion of priorities, no   *)
(* priority kept, no waiter forgotten, and, as long as everybody takes the *)
(* mutex, no character overwritten and no string interrupted.              *)
(***************************************************************************)
EXTENDS Uart, FiniteSetTheorems, WellFoundedInduction, TLAPS

(* Of finitely many tasks one has the greatest number: the set of those    *)
(* with at least as great a one contains no other such set.                *)
LEMMA GreatestExists ==
    ASSUME NEW W, IsFiniteSet(W), W # {}, NEW f \in [W -> Nat]
    PROVE  \E x \in W : \A y \in W : f[y] <= f[x]
<1> DEFINE R == StrictSubsetOrdering(W)
           Above(x) == {w \in W : f[w] >= f[x]}
           F == {Above(x) : x \in W}
<1>1. IsWellFoundedOn(R, FiniteSubsetsOf(W))
  BY FS_StrictSubsetOrderingWellFounded
<1>2. F \subseteq FiniteSubsetsOf(W) /\ F # {}
  <2>1. \A x \in W : Above(x) \in SUBSET W /\ IsFiniteSet(Above(x))
    BY FS_Subset
  <2>2. \A x \in W : Above(x) \in FiniteSubsetsOf(W)
    BY <2>1 DEF FiniteSubsetsOf
  <2> HIDE DEF Above
  <2> QED  BY <2>2
<1>3. \E i \in F : \A j \in F : ~(<<j, i>> \in R)
  <2> HIDE DEF R, F
  <2> QED  BY <1>1, <1>2, WFMin
<1>4. PICK x \in W : \A y \in W : ~(<<Above(y), Above(x)>> \in R)
  <2> HIDE DEF R, Above
  <2> QED  BY <1>3
<1>5. ASSUME NEW y \in W, f[y] > f[x] PROVE FALSE
  <2>1. x \in Above(x) /\ x \notin Above(y) /\ Above(y) \subseteq Above(x)
    BY <1>5
  <2>2. Above(x) \subseteq W /\ Above(y) \subseteq W
    OBVIOUS
  <2> HIDE DEF Above
  <2> QED  BY <2>1, <2>2, <1>4 DEF StrictSubsetOrdering
<1> QED  BY <1>5

LEMMA WaitersFinite == TypeOK => IsFiniteSet(waiters) /\ waiters \in SUBSET Tasks
  BY UartAssumption, FS_Subset DEF TypeOK

LEMMA HighestWaitingOK ==
    ASSUME TypeOK
    PROVE  /\ HighestWaiting \in Nat
           /\ \A w \in waiters : uxPriority[w] <= HighestWaiting
           /\ HighestWaiting # 0 => \E w \in waiters : uxPriority[w] = HighestWaiting
<1> DEFINE S == {0} \cup {uxPriority[w] : w \in waiters}
<1>1. \E p \in S : \A q \in S : q <= p
  <2>1. CASE waiters = {}
    BY <2>1
  <2>2. CASE waiters # {}
    <3> DEFINE f == [w \in waiters |-> uxPriority[w]]
    <3>1. f \in [waiters -> Nat]
      BY WaitersFinite DEF TypeOK
    <3>2. PICK x \in waiters : \A y \in waiters : f[y] <= f[x]
      <4> HIDE DEF f
      <4> QED  BY <2>2, <3>1, WaitersFinite, GreatestExists
    <3>3. \A y \in waiters : uxPriority[y] <= uxPriority[x]
      BY <3>2
    <3>4. uxPriority[x] \in S /\ uxPriority[x] \in Nat
      BY WaitersFinite DEF TypeOK
    <3>5. \A q \in S : q <= uxPriority[x]
      BY <3>3, <3>4
    <3> QED  BY <3>4, <3>5
  <2> QED  BY <2>1, <2>2
<1>2. HighestWaiting \in S /\ \A q \in S : q <= HighestWaiting
  BY <1>1 DEF HighestWaiting, Greatest
<1>3. \A w \in waiters : uxPriority[w] \in Nat
  BY WaitersFinite DEF TypeOK
<1> QED  BY <1>2, <1>3

LEMMA GreatestOfTwo ==
    ASSUME NEW a \in Nat, NEW b \in Nat
    PROVE  Greatest({a, b}) = IF a < b THEN b ELSE a
  BY DEF Greatest
-----------------------------------------------------------------------------
(***************************************************************************)
(* Who holds the mutex, who has a string to print, who has a priority that *)
(* is not its own.                                                         *)
(***************************************************************************)
Printing == {"poll", "write", "give"}
Taking   == {"take", "again", "last", "suspend", "blocked", "expired", "disinherit"}

PathOK ==
    \A t \in Tasks :
        /\ t \in RawPrinters => pc[t] \notin Taking \cup {"give"}
        /\ pc[t] \in (Taking \ {"disinherit"}) \cup {"poll", "write"} => rest[t] > 0

HolderOK ==
    \A t \in Tasks : xMutexHolder = t <=> pc[t] \in Printing /\ t \notin RawPrinters

PriorityOK ==
    \A t \in Tasks : /\ uxBasePriority[t] <= uxPriority[t]
                     /\ uxPriority[t] # uxBasePriority[t] => xMutexHolder = t

BaseInv == TypeOK /\ PathOK /\ HolderOK /\ PriorityOK

Places == {"idle", "asleep", "spin", "take", "again", "last", "suspend",
           "blocked", "expired", "disinherit", "poll", "write", "give"}

LEMMA BaseInit == Init => BaseInv
<1> SUFFICES ASSUME Init PROVE BaseInv
  OBVIOUS
<1>1. TypeOK
  BY UartAssumption DEF Init, TypeOK
<1>2. PathOK /\ HolderOK
  BY UartAssumption DEF Init, PathOK, HolderOK, Printing, Taking
<1>3. PriorityOK
  BY UartAssumption DEF Init, PriorityOK
<1> QED  BY <1>1, <1>2, <1>3 DEF BaseInv

(* A task moves on; nobody blocks or wakes, the mutex stays where it is.   *)
LEMMA MoveBase ==
    ASSUME BaseInv, NEW t \in Tasks, NEW place \in Places \ {"blocked"}, pc[t] # "blocked",
           Goes(t, place), UNCHANGED lock,
           left' \in [Tasks -> Nat], xInheritanceOccurred' \in [Tasks -> BOOLEAN],
           rest' \in [Tasks -> Nat], \A u \in Tasks \ {t} : rest'[u] = rest[u],
           TDR' \in Chars \cup {NONE}, sent' \in Chars \cup {NONE},
           t \in RawPrinters => place \notin Taking \cup {"give"},
           place \in (Taking \ {"disinherit"}) \cup {"poll", "write"} => rest'[t] > 0,
           pc[t] \in Printing /\ t \notin RawPrinters
              <=> place \in Printing /\ t \notin RawPrinters
    PROVE  BaseInv'
<1> USE DEF lock, Goes
<1>1. TypeOK'
  BY DEF BaseInv, TypeOK, Places
<1>2. PathOK' /\ HolderOK' /\ PriorityOK'
  BY DEF BaseInv, TypeOK, PathOK, HolderOK, PriorityOK
<1> QED  BY <1>1, <1>2 DEF BaseInv

LEMMA StepBase == ASSUME BaseInv, NEW t \in Tasks, Step(t) PROVE BaseInv'
<1>0. /\ left \in [Tasks -> Nat] /\ xInheritanceOccurred \in [Tasks -> BOOLEAN] /\ rest \in [Tasks -> Nat]
      /\ TDR \in Chars \cup {NONE} /\ sent \in Chars \cup {NONE} /\ TypeOK
      /\ pc[t] \in {"take", "again", "last", "suspend", "expired"} => rest[t] > 0 /\ t \notin RawPrinters
  BY DEF BaseInv, TypeOK, PathOK, Taking
<1> USE DEF Places, Taking, Printing
<1>1. CASE Call(t)
  <2>1. PICK n \in Lengths : rest' = [rest EXCEPT ![t] = n]
    BY <1>1 DEF Call
  <2>2. n \in Nat /\ n > 0
    BY UartAssumption
  <2>3. rest' \in [Tasks -> Nat] /\ rest'[t] > 0 /\ \A u \in Tasks \ {t} : rest'[u] = rest[u]
    BY <1>0, <2>1, <2>2
  <2> QED  BY <1>0, <1>1, <2>3, MoveBase DEF Call, wire
<1>2. CASE vTaskDelay(t)
  <2>1. left' \in [Tasks -> Nat]
    BY <1>0, <1>2, UartAssumption DEF vTaskDelay
  <2> QED  BY <1>0, <1>2, <2>1, MoveBase DEF vTaskDelay, wire
<1>3. CASE Spin(t) \/ Release(t)
  BY <1>0, <1>3, MoveBase DEF Spin, Release, wire
<1>4. CASE FindTaken(t)
  <2>1. left' \in [Tasks -> Nat]
    BY <1>0, <1>4, UartAssumption DEF FindTaken
  <2> QED  BY <1>0, <1>4, <2>1, MoveBase DEF FindTaken, wire
<1>5. ASSUME Drop(t), UNCHANGED lock, pc[t] \in {"last", "expired", "disinherit"} PROVE BaseInv'
  <2>1. /\ rest' \in [Tasks -> Nat] /\ \A u \in Tasks \ {t} : rest'[u] = rest[u]
        /\ xInheritanceOccurred' \in [Tasks -> BOOLEAN]
    BY <1>0, <1>5 DEF Drop
  <2> QED  BY <1>0, <1>5, <2>1, MoveBase DEF Drop, wire
<1>6. CASE GiveUp(t)
  BY <1>5, <1>6 DEF GiveUp
<1>7. CASE TimedOut(t) \/ FindGiven(t)
  BY <1>0, <1>7, MoveBase DEF TimedOut, FindGiven, wire
<1>8. CASE Expire(t)
  BY <1>0, <1>8, MoveBase DEF Expire, wire
<1>9. CASE PollTXE(t)
  <2>1. rest[t] > 0 /\ pc[t] = "poll"
    BY <1>9 DEF BaseInv, PathOK, PollTXE
  <2> QED  BY <1>0, <1>9, <2>1, MoveBase DEF PollTXE, wire
<1>10. CASE WriteTDR(t)
  <2>1. rest[t] > 0 /\ pc[t] = "write" /\ rest[t] \in Nat
    BY <1>0, <1>10 DEF BaseInv, PathOK, WriteTDR
  <2>2. rest' \in [Tasks -> Nat] /\ rest'[t] = rest[t] - 1 /\ \A u \in Tasks \ {t} : rest'[u] = rest[u]
    BY <1>0, <1>10, <2>1 DEF WriteTDR
  <2>3. TDR' \in Chars /\ sent' = sent
    BY <1>10, <2>1 DEF WriteTDR, Chars
  <2> DEFINE place == IF rest[t] > 1 THEN "poll" ELSE IF t \in RawPrinters THEN "idle" ELSE "give"
  <2>4. Goes(t, place) /\ UNCHANGED <<left, xInheritanceOccurred, lock>>
    BY <1>10 DEF WriteTDR
  <2>5. place = "poll" => rest'[t] > 0
    BY <2>1, <2>2
  <2>6. place \in {"poll", "idle", "give"} /\ (place = "idle" <=> ~(rest[t] > 1) /\ t \in RawPrinters)
        /\ (t \in RawPrinters => place # "give")
    OBVIOUS
  <2> HIDE DEF place
  <2> QED  BY <1>0, <2>1, <2>2, <2>3, <2>4, <2>5, <2>6, MoveBase
<1>11. CASE TakeMutex(t)
  <2>1. /\ pc' = [pc EXCEPT ![t] = "poll"] /\ xMutexHolder = NONE /\ xMutexHolder' = t
        /\ UNCHANGED <<rest, uxPriority, waiters, wire>> /\ pc[t] \in {"take", "again", "last"}
        /\ left' = [left EXCEPT ![t] = 0]
        /\ xInheritanceOccurred' = [xInheritanceOccurred EXCEPT ![t] = FALSE]
    BY <1>11 DEF TakeMutex, Goes
  <2>2. TypeOK'
    BY <1>0, <2>1 DEF TypeOK, wire
  <2>3. PathOK'
    BY <1>0, <2>1 DEF BaseInv, TypeOK, PathOK
  <2>4. HolderOK' /\ PriorityOK'
    BY <1>0, <2>1, UartAssumption DEF BaseInv, TypeOK, HolderOK, PriorityOK
  <2> QED  BY <2>2, <2>3, <2>4 DEF BaseInv
<1>12. CASE BlockOnMutex(t)
  <2> DEFINE h == xMutexHolder
  <2>1. /\ pc' = [pc EXCEPT ![t] = "blocked"] /\ pc[t] = "suspend" /\ h # NONE
        /\ waiters' = waiters \cup {t} /\ UNCHANGED <<left, rest, xMutexHolder, wire>>
        /\ h \in Tasks
    BY <1>0, <1>12 DEF BlockOnMutex, Goes, TypeOK
  <2>2. /\ uxPriority' \in [Tasks -> Nat]
        /\ \A u \in Tasks : uxPriority'[u] >= uxPriority[u] /\ (u # h => uxPriority'[u] = uxPriority[u])
        /\ xInheritanceOccurred' \in [Tasks -> BOOLEAN]
    <3>1. uxPriority \in [Tasks -> Nat]
      BY <1>0 DEF TypeOK
    <3>2. \/ uxPriority' = uxPriority
          \/ /\ uxPriority[h] < uxPriority[t]
             /\ uxPriority' = [uxPriority EXCEPT ![h] = uxPriority[t]]
      BY <1>12 DEF BlockOnMutex, xTaskPriorityInherit
    <3>3. xInheritanceOccurred' \in [Tasks -> BOOLEAN]
      <4>1. (uxBasePriority[h] < uxPriority[t]) \in BOOLEAN
        OBVIOUS
      <4> QED  BY <1>0, <1>12, <4>1 DEF BlockOnMutex, xTaskPriorityInherit
    <3>4. \A u \in Tasks : uxPriority[u] \in Nat
      BY <3>1
    <3> QED  BY <2>1, <3>1, <3>2, <3>3, <3>4
  <2>3. TypeOK'
    BY <1>0, <2>1, <2>2 DEF TypeOK, wire
  <2>4. PathOK' /\ HolderOK'
    BY <1>0, <2>1 DEF BaseInv, TypeOK, PathOK, HolderOK
  <2>5. PriorityOK'
    <3> SUFFICES ASSUME NEW u \in Tasks
                 PROVE  /\ uxBasePriority[u] <= uxPriority'[u]
                        /\ uxPriority'[u] # uxBasePriority[u] => xMutexHolder' = u
      BY DEF PriorityOK
    <3>1. uxPriority[u] \in Nat /\ uxPriority'[u] \in Nat /\ uxBasePriority[u] \in Nat
      BY <1>0, <2>2, UartAssumption DEF TypeOK
    <3>2. /\ uxBasePriority[u] <= uxPriority[u]
          /\ uxPriority[u] # uxBasePriority[u] => xMutexHolder = u
      BY DEF BaseInv, PriorityOK
    <3>3. uxPriority'[u] >= uxPriority[u] /\ (u # h => uxPriority'[u] = uxPriority[u])
      BY <2>2
    <3>4. xMutexHolder' = h
      BY <2>1
    <3> HIDE DEF h
    <3>5. uxBasePriority[u] <= uxPriority'[u]
      BY <3>1, <3>2, <3>3
    <3>6. CASE u = h
      BY <3>4, <3>5, <3>6
    <3>7. CASE u # h
      BY <3>2, <3>3, <3>4, <3>5, <3>7 DEF h
    <3> QED  BY <3>6, <3>7
  <2> QED  BY <2>3, <2>4, <2>5 DEF BaseInv
<1>13. CASE vTaskPriorityDisinheritAfterTimeout(t)
  <2> DEFINE h == xMutexHolder
             g == Greatest({uxBasePriority[h], HighestWaiting})
  <2>1. /\ pc' = [pc EXCEPT ![t] = "idle"] /\ pc[t] = "disinherit"
        /\ rest' = [rest EXCEPT ![t] = 0]
        /\ xInheritanceOccurred' = [xInheritanceOccurred EXCEPT ![t] = FALSE]
        /\ UNCHANGED <<left, xMutexHolder, waiters, wire>>
    BY <1>13 DEF vTaskPriorityDisinheritAfterTimeout, Drop, Goes
  <2>2. h # NONE => h \in Tasks /\ g \in Nat /\ uxBasePriority[h] <= g
    <3>1. h # NONE => h \in Tasks
      BY <1>0 DEF TypeOK
    <3>2. h # NONE => uxBasePriority[h] \in Nat
      BY <3>1, UartAssumption
    <3>3. HighestWaiting \in Nat
      BY <1>0, HighestWaitingOK
    <3>4. h # NONE => g = IF uxBasePriority[h] < HighestWaiting THEN HighestWaiting ELSE uxBasePriority[h]
      BY <3>2, <3>3, GreatestOfTwo
    <3> HIDE DEF g, h
    <3> QED  BY <3>1, <3>2, <3>3, <3>4
  <2>3. uxPriority' = IF h = NONE THEN uxPriority ELSE [uxPriority EXCEPT ![h] = g]
    BY <1>13 DEF vTaskPriorityDisinheritAfterTimeout
  <2> HIDE DEF g
  <2>4. TypeOK'
    <3>1. uxPriority' \in [Tasks -> Nat]
      BY <1>0, <2>2, <2>3 DEF TypeOK
    <3> QED  BY <1>0, <2>1, <3>1 DEF TypeOK, wire
  <2>5. PathOK' /\ HolderOK'
    BY <1>0, <2>1 DEF BaseInv, TypeOK, PathOK, HolderOK
  <2>6. PriorityOK'
    <3>1. /\ uxPriority \in [Tasks -> Nat] /\ uxBasePriority \in [Tasks -> Nat]
          /\ xMutexHolder' = h /\ PriorityOK
      BY <1>0, <2>1, UartAssumption DEF BaseInv, TypeOK
    <3>2. CASE h = NONE
      BY <2>3, <3>1, <3>2 DEF PriorityOK
    <3>3. CASE h # NONE
      <4>1. \A u \in Tasks : uxPriority'[u] = IF u = h THEN g ELSE uxPriority[u]
        BY <2>2, <2>3, <3>1, <3>3
      <4> HIDE DEF h
      <4> SUFFICES ASSUME NEW u \in Tasks
                   PROVE  /\ uxBasePriority[u] <= uxPriority'[u]
                          /\ uxPriority'[u] # uxBasePriority[u] => h = u
        BY <3>1 DEF PriorityOK
      <4>2. CASE u = h
        BY <2>2, <3>3, <4>1, <4>2
      <4>3. CASE u # h
        <5>1. /\ uxBasePriority[u] <= uxPriority[u]
              /\ uxPriority[u] # uxBasePriority[u] => h = u
          BY DEF PriorityOK, h, BaseInv
        <5> QED  BY <4>1, <4>3, <5>1
      <4> QED  BY <4>2, <4>3
    <3> QED  BY <3>2, <3>3
  <2> QED  BY <2>4, <2>5, <2>6 DEF BaseInv
<1>14. CASE GiveMutex(t)
  <2>1. /\ pc[t] = "give" /\ xMutexHolder' = NONE
        /\ uxPriority' = [uxPriority EXCEPT ![t] = uxBasePriority[t]]
        /\ UNCHANGED <<left, xInheritanceOccurred, rest, wire>>
    BY <1>14 DEF GiveMutex
  <2>2. xMutexHolder = t /\ t \notin RawPrinters
    BY <2>1 DEF BaseInv, HolderOK, PathOK
  <2>3. uxPriority' \in [Tasks -> Nat] /\ PriorityOK'
    <3>1. uxPriority \in [Tasks -> Nat] /\ uxBasePriority \in [Tasks -> Nat] /\ PriorityOK
      BY <1>0, UartAssumption DEF BaseInv, TypeOK
    <3>2. \A u \in Tasks : uxPriority'[u] = IF u = t THEN uxBasePriority[t] ELSE uxPriority[u]
      BY <2>1, <3>1
    <3>3. \A u \in Tasks : uxPriority'[u] = uxBasePriority[u] /\ uxBasePriority[u] \in Nat
      BY <2>2, <3>1, <3>2 DEF PriorityOK
    <3>4. PriorityOK'
      BY <3>3 DEF PriorityOK
    <3> QED  BY <2>1, <3>1, <3>4
  <2>4. CASE waiters = {} /\ Goes(t, "idle") /\ UNCHANGED waiters
    <3>1. TypeOK'
      BY <1>0, <2>1, <2>3, <2>4 DEF TypeOK, Goes, wire
    <3>2. PathOK' /\ HolderOK'
      BY <1>0, <2>1, <2>2, <2>4, UartAssumption DEF BaseInv, TypeOK, PathOK, HolderOK, Goes
    <3> QED  BY <2>3, <3>1, <3>2 DEF BaseInv
  <2>5. CASE \E w \in waiters : /\ waiters' = waiters \ {w}
                               /\ pc' = [pc EXCEPT ![t] = "idle", ![w] = "again"]
    <3>1. PICK w \in waiters : /\ waiters' = waiters \ {w}
                               /\ pc' = [pc EXCEPT ![t] = "idle", ![w] = "again"]
      BY <2>5
    <3>2. w \in Tasks /\ pc[w] = "blocked" /\ w # t
      BY <1>0, <2>1 DEF TypeOK
    <3>3. TypeOK'
      BY <1>0, <2>1, <2>3, <3>1, <3>2 DEF TypeOK, wire
    <3>4. PathOK'
      BY <1>0, <2>1, <3>1, <3>2 DEF BaseInv, TypeOK, PathOK
    <3>5. HolderOK'
      BY <1>0, <2>1, <2>2, <3>1, <3>2, UartAssumption DEF BaseInv, TypeOK, HolderOK
    <3> QED  BY <2>3, <3>3, <3>4, <3>5 DEF BaseInv
  <2> QED  BY <1>14, <2>4, <2>5 DEF GiveMutex
<1> QED
  BY <1>1, <1>2, <1>3, <1>4, <1>6, <1>7, <1>8, <1>9, <1>10, <1>11, <1>12, <1>13, <1>14 DEF Step

(* A tick ends delays and timeouts; who is neither asleep nor blocked goes *)
(* on as before.                                                           *)
LEMMA TickBase == ASSUME BaseInv, Tick PROVE BaseInv'
<1> DEFINE due == {t \in Tasks : left[t] = 1 /\ ~Ready(t)}
<1> USE DEF Places, Taking, Printing
<1>1. /\ left' = [t \in Tasks |-> Passed(t)]
      /\ waiters' = waiters \ due
      /\ pc' = [t \in Tasks |-> IF t \notin due THEN pc[t]
                              ELSE IF pc[t] = "asleep" THEN "idle" ELSE "again"]
      /\ UNCHANGED <<xInheritanceOccurred, rest, uxPriority, xMutexHolder, wire>>
  BY DEF Tick
<1>2. \A t \in Tasks : t \in due => pc[t] \in {"asleep", "blocked"}
  BY DEF Ready
<1>3. \A t \in Tasks : pc'[t] = IF t \notin due THEN pc[t]
                                ELSE IF pc[t] = "asleep" THEN "idle" ELSE "again"
  BY <1>1
<1> HIDE DEF due
<1>4. TypeOK'
  <2>1. left' \in [Tasks -> Nat]
    BY <1>1 DEF BaseInv, TypeOK, Passed
  <2>2. pc' \in [Tasks -> Places]
    <3>1. pc \in [Tasks -> Places]
      BY DEF BaseInv, TypeOK
    <3> QED  BY <1>1, <3>1
  <2>3. waiters' = {t \in Tasks : pc'[t] = "blocked"}
    BY <1>1, <1>2, <1>3 DEF BaseInv, TypeOK
  <2> QED  BY <1>1, <2>1, <2>2, <2>3 DEF BaseInv, TypeOK, wire
<1>5. PathOK'
  <2>1. \A t \in Tasks : t \in RawPrinters => pc'[t] \notin Taking \cup {"give"}
    BY <1>2, <1>3 DEF BaseInv, PathOK
  <2>2. \A t \in Tasks : pc'[t] \in (Taking \ {"disinherit"}) \cup {"poll", "write"} => rest'[t] > 0
    BY <1>1, <1>2, <1>3 DEF BaseInv, PathOK
  <2> QED  BY <2>1, <2>2 DEF PathOK
<1>6. HolderOK'
  BY <1>1, <1>2, <1>3 DEF BaseInv, HolderOK
<1>7. PriorityOK'
  BY <1>1 DEF BaseInv, PriorityOK
<1> QED  BY <1>4, <1>5, <1>6, <1>7 DEF BaseInv

LEMMA BaseNext == BaseInv /\ [Next]_vars => BaseInv'
<1> SUFFICES ASSUME BaseInv, [Next]_vars PROVE BaseInv'
  OBVIOUS
<1>1. CASE UNCHANGED vars
  BY <1>1 DEF vars, taskVars, lock, wire, BaseInv, TypeOK, PathOK, HolderOK, PriorityOK
<1>2. CASE Transmit
  BY <1>2 DEF Transmit, taskVars, lock, BaseInv, TypeOK, PathOK, HolderOK, PriorityOK
<1> QED  BY <1>1, <1>2, StepBase, TickBase DEF Next

LEMMA BaseInvariance == Spec => []BaseInv
  BY BaseInit, BaseNext, PTL DEF Spec

(* Every state of a run has the shape TypeOK gives it: the list of the     *)
(* mutex holds exactly the tasks that block on it.                         *)
THEOREM TypeCorrect == Spec => []TypeOK
<1>1. BaseInv => TypeOK
  BY DEF BaseInv
<1> QED  BY <1>1, BaseInvariance, PTL
-----------------------------------------------------------------------------
(***************************************************************************)
(* The loan.  While the mutex is free somebody of at least the priority of *)
(* everyone in its list is on its way to it, so who takes it first is not  *)
(* below those who still wait.                                             *)
(***************************************************************************)
OnItsWay == {"again", "suspend", "expired", "last"}
Lending  == {"blocked", "again", "suspend", "expired", "disinherit"}

FreeOK ==
    xMutexHolder = NONE /\ waiters # {} =>
        \E r \in Tasks : /\ pc[r] \in OnItsWay
                         /\ \A w \in waiters : uxPriority[w] <= uxPriority[r]

(* Who blocked behind a holder of a lower base priority has lent it its own. *)
LentOK ==
    xMutexHolder # NONE =>
        \A w \in waiters : uxBasePriority[xMutexHolder] < uxBasePriority[w]
                              => xInheritanceOccurred[w]

LoanOK ==
    \A t \in Tasks : uxPriority[t] # uxBasePriority[t] =>
        \E u \in Tasks : /\ pc[u] \in Lending /\ xInheritanceOccurred[u]
                         /\ uxBasePriority[u] = uxPriority[t]

LoanInv == FreeOK /\ NoInversion /\ LentOK /\ LoanOK

LEMMA LoanInit == Init => LoanInv
<1> SUFFICES ASSUME Init PROVE LoanInv
  OBVIOUS
<1>1. waiters = {} /\ uxPriority = uxBasePriority
  BY DEF Init
<1> QED  BY <1>1 DEF LoanInv, FreeOK, NoInversion, LentOK, LoanOK

(* What the parts say of the tasks in the list. *)
LEMMA WaiterFacts ==
    ASSUME BaseInv, NEW w \in waiters
    PROVE  /\ w \in Tasks /\ pc[w] = "blocked" /\ w # xMutexHolder
           /\ uxPriority[w] = uxBasePriority[w] /\ uxPriority[w] \in Nat
<1>1. w \in Tasks /\ pc[w] = "blocked" /\ uxPriority[w] \in Nat
  BY DEF BaseInv, TypeOK
<1>2. w # xMutexHolder
  BY <1>1 DEF BaseInv, HolderOK, Printing
<1> QED  BY <1>1, <1>2 DEF BaseInv, PriorityOK

(* A task moves on without a change of the mutex or of a priority: it      *)
(* stays on its way to a free mutex, and remembers what it lent.           *)
LEMMA MoveLoan ==
    ASSUME BaseInv, LoanInv, NEW t \in Tasks, NEW place \in Places \ {"blocked"}, pc[t] # "blocked",
           Goes(t, place), UNCHANGED lock,
           \A u \in Tasks \ {t} : xInheritanceOccurred'[u] = xInheritanceOccurred[u],
           xMutexHolder = NONE /\ pc[t] \in OnItsWay => place \in OnItsWay,
           xMutexHolder # NONE /\ pc[t] \in Lending /\ xInheritanceOccurred[t]
              => place \in Lending /\ xInheritanceOccurred'[t]
    PROVE  LoanInv'
<1>1. /\ \A u \in Tasks : pc'[u] = IF u = t THEN place ELSE pc[u]
      /\ uxPriority' = uxPriority /\ xMutexHolder' = xMutexHolder /\ waiters' = waiters
  BY DEF BaseInv, TypeOK, Goes, lock
<1>2. FreeOK'
  BY <1>1 DEF LoanInv, FreeOK
<1>3. NoInversion'
  BY <1>1 DEF LoanInv, NoInversion
<1>4. LentOK'
  <2>1. \A w \in waiters : w \in Tasks \ {t}
    BY WaiterFacts
  <2> QED  BY <1>1, <2>1 DEF LoanInv, LentOK
<1>5. LoanOK'
  <2> SUFFICES ASSUME NEW p \in Tasks, uxPriority[p] # uxBasePriority[p]
               PROVE  \E u \in Tasks : /\ pc'[u] \in Lending /\ xInheritanceOccurred'[u]
                                       /\ uxBasePriority[u] = uxPriority[p]
    BY <1>1 DEF LoanOK
  <2>1. xMutexHolder # NONE
    BY UartAssumption DEF BaseInv, PriorityOK
  <2>2. PICK u \in Tasks : /\ pc[u] \in Lending /\ xInheritanceOccurred[u]
                           /\ uxBasePriority[u] = uxPriority[p]
    BY DEF LoanInv, LoanOK
  <2>3. pc'[u] \in Lending /\ xInheritanceOccurred'[u]
    BY <1>1, <2>1, <2>2
  <2> QED  BY <2>2, <2>3
<1> QED  BY <1>2, <1>3, <1>4, <1>5 DEF LoanInv

(* The first to a free mutex: the kernel runs it, so the task on its way   *)
(* is not above it, and nobody in the list is above that one.              *)
LEMMA TakeLoan == ASSUME BaseInv, LoanInv, NEW t \in Tasks, TakeMutex(t) PROVE LoanInv'
<1>1. /\ xMutexHolder = NONE /\ xMutexHolder' = t /\ uxPriority' = uxPriority /\ waiters' = waiters
      /\ t # NONE /\ CanRun(t)
  BY UartAssumption DEF TakeMutex
<1>2. \A u \in Tasks : uxPriority[u] = uxBasePriority[u]
  BY <1>1, UartAssumption DEF BaseInv, PriorityOK
<1>3. \A w \in waiters : uxPriority[w] <= uxPriority[t]
  <2> SUFFICES ASSUME NEW w \in waiters PROVE uxPriority[w] <= uxPriority[t]
    OBVIOUS
  <2>1. PICK r \in Tasks : pc[r] \in OnItsWay /\ uxPriority[w] <= uxPriority[r]
    BY <1>1 DEF LoanInv, FreeOK
  <2>2. uxPriority[r] <= uxPriority[t]
    BY <1>1, <2>1 DEF CanRun, Ready, OnItsWay
  <2>3. uxPriority[r] \in Nat /\ uxPriority[t] \in Nat /\ uxPriority[w] \in Nat
    BY WaiterFacts DEF BaseInv, TypeOK
  <2> QED  BY <2>1, <2>2, <2>3
<1>4. \A w \in waiters : uxPriority[w] \in Nat /\ w \in Tasks
  BY WaiterFacts
<1>5. uxPriority[t] \in Nat
  BY DEF BaseInv, TypeOK
<1>6. FreeOK' /\ NoInversion'
  BY <1>1, <1>3, <1>4, <1>5 DEF FreeOK, NoInversion
<1>7. LentOK'
  <2>1. \A w \in waiters : ~(uxBasePriority[t] < uxBasePriority[w])
    BY <1>2, <1>3, <1>4, <1>5
  <2> QED  BY <1>1, <2>1 DEF LentOK
<1>8. LoanOK'
  BY <1>1, <1>2 DEF LoanOK
<1> QED  BY <1>6, <1>7, <1>8 DEF LoanInv

(* Who blocks lends the holder its priority if that is the greater.        *)
LEMMA BlockLoan == ASSUME BaseInv, LoanInv, NEW t \in Tasks, BlockOnMutex(t) PROVE LoanInv'
<1> DEFINE h == xMutexHolder
<1>1. /\ pc[t] = "suspend" /\ h # NONE /\ h \in Tasks /\ xMutexHolder' = h
      /\ pc' = [pc EXCEPT ![t] = "blocked"] /\ waiters' = waiters \cup {t}
  BY DEF BlockOnMutex, Goes, BaseInv, TypeOK
<1>2. t # h /\ uxPriority[t] = uxBasePriority[t]
  BY <1>1 DEF BaseInv, HolderOK, PriorityOK, Printing
<1>3. /\ \A u \in Tasks : uxPriority[u] \in Nat /\ uxBasePriority[u] \in Nat
      /\ \A u \in Tasks : uxBasePriority[u] <= uxPriority[u]
  BY UartAssumption DEF BaseInv, TypeOK, PriorityOK
<1>4. /\ \A u \in Tasks : u # h => uxPriority'[u] = uxPriority[u]
      /\ uxPriority'[h] = IF uxPriority[h] < uxPriority[t] THEN uxPriority[t] ELSE uxPriority[h]
  <2>1. uxPriority \in [Tasks -> Nat]
    BY DEF BaseInv, TypeOK
  <2> QED  BY <1>1, <2>1 DEF BlockOnMutex, xTaskPriorityInherit
<1>5. /\ \A u \in Tasks : u # t => xInheritanceOccurred'[u] = xInheritanceOccurred[u]
      /\ xInheritanceOccurred'[t] = (uxBasePriority[h] < uxPriority[t])
  <2>1. xInheritanceOccurred \in [Tasks -> BOOLEAN]
    BY DEF BaseInv, TypeOK
  <2> QED  BY <2>1 DEF BlockOnMutex, xTaskPriorityInherit
<1>6. \A w \in waiters : w \in Tasks /\ w # h
  BY WaiterFacts
<1>7. \A u \in Tasks : pc'[u] = IF u = t THEN "blocked" ELSE pc[u]
  BY <1>1 DEF BaseInv, TypeOK
<1> HIDE DEF h
<1>8. FreeOK'
  BY <1>1 DEF FreeOK
<1>9. NoInversion'
  <2> SUFFICES ASSUME NEW w \in waiters \cup {t} PROVE uxPriority'[h] >= uxPriority'[w]
    BY <1>1 DEF NoInversion
  <2>1. CASE w = t
    BY <1>1, <1>2, <1>3, <1>4, <2>1
  <2>2. CASE w # t
    <3>1. uxPriority[h] >= uxPriority[w] /\ w \in Tasks /\ w # h
      BY <1>1, <1>6, <2>2 DEF LoanInv, NoInversion, h
    <3> QED  BY <1>1, <1>3, <1>4, <3>1
  <2> QED  BY <2>1, <2>2
<1>10. LentOK'
  <2> SUFFICES ASSUME NEW w \in waiters \cup {t}, uxBasePriority[h] < uxBasePriority[w]
               PROVE  xInheritanceOccurred'[w]
    BY <1>1 DEF LentOK
  <2>1. CASE w = t
    BY <1>2, <1>5, <2>1
  <2>2. CASE w # t
    BY <1>1, <1>5, <1>6, <2>2 DEF LoanInv, LentOK, h
  <2> QED  BY <2>1, <2>2
<1>11. LoanOK'
  <2> SUFFICES ASSUME NEW p \in Tasks, uxPriority'[p] # uxBasePriority[p]
               PROVE  \E u \in Tasks : /\ pc'[u] \in Lending /\ xInheritanceOccurred'[u]
                                       /\ uxBasePriority[u] = uxPriority'[p]
    BY DEF LoanOK
  <2>1. CASE p = h /\ uxPriority[h] < uxPriority[t]
    <3>1. pc'[t] \in Lending /\ uxBasePriority[t] = uxPriority'[p]
      BY <1>2, <1>4, <1>7, <2>1 DEF Lending
    <3>2. uxBasePriority[h] < uxPriority[t]
      BY <1>1, <1>3, <2>1
    <3>3. xInheritanceOccurred'[t]
      BY <1>5, <3>2
    <3> QED  BY <3>1, <3>3
  <2>2. CASE ~(p = h /\ uxPriority[h] < uxPriority[t])
    <3>1. uxPriority'[p] = uxPriority[p]
      BY <1>4, <2>2
    <3>2. p = h
      BY <3>1 DEF BaseInv, PriorityOK, h
    <3>3. PICK u \in Tasks : /\ pc[u] \in Lending /\ xInheritanceOccurred[u]
                             /\ uxBasePriority[u] = uxPriority[p]
      BY <3>1 DEF LoanInv, LoanOK
    <3>4. CASE u # t
      BY <1>5, <1>7, <3>1, <3>3, <3>4
    <3>5. CASE u = t
      <4>1. uxBasePriority[h] < uxPriority[t]
        BY <1>1, <1>2, <1>3, <3>1, <3>2, <3>3, <3>5
      <4>2. xInheritanceOccurred'[t] /\ pc'[t] \in Lending
        BY <1>5, <1>7, <4>1 DEF Lending
      <4> QED  BY <3>1, <3>3, <3>5, <4>2
    <3> QED  BY <3>4, <3>5
  <2> QED  BY <2>1, <2>2
<1> QED  BY <1>8, <1>9, <1>10, <1>11 DEF LoanInv

(* A loan called in: the holder keeps what the others in the list lent.    *)
LEMMA CallInLoan ==
    ASSUME BaseInv, LoanInv, NEW t \in Tasks, vTaskPriorityDisinheritAfterTimeout(t)
    PROVE  LoanInv'
<1> DEFINE h == xMutexHolder
           g == Greatest({uxBasePriority[h], HighestWaiting})
<1>1. /\ pc[t] = "disinherit" /\ pc' = [pc EXCEPT ![t] = "idle"]
      /\ xInheritanceOccurred' = [xInheritanceOccurred EXCEPT ![t] = FALSE]
      /\ xMutexHolder' = h /\ waiters' = waiters
      /\ uxPriority' = IF h = NONE THEN uxPriority ELSE [uxPriority EXCEPT ![h] = g]
  BY DEF vTaskPriorityDisinheritAfterTimeout, Drop, Goes
<1>2. /\ \A u \in Tasks : pc'[u] = IF u = t THEN "idle" ELSE pc[u]
      /\ \A u \in Tasks \ {t} : xInheritanceOccurred'[u] = xInheritanceOccurred[u]
  BY <1>1 DEF BaseInv, TypeOK
<1>3. \A w \in waiters : /\ w \in Tasks \ {t} /\ w # h /\ uxPriority[w] \in Nat
                         /\ uxPriority[w] = uxBasePriority[w]
  BY <1>1, WaiterFacts
<1>4. CASE h = NONE
  <2>1. \A u \in Tasks : uxPriority'[u] = uxPriority[u] /\ uxPriority[u] = uxBasePriority[u]
    BY <1>1, <1>4, UartAssumption DEF BaseInv, PriorityOK
  <2>2. FreeOK'
    <3> SUFFICES ASSUME waiters # {}
                 PROVE  \E r \in Tasks : /\ pc'[r] \in OnItsWay
                                         /\ \A w \in waiters : uxPriority'[w] <= uxPriority'[r]
      BY <1>1 DEF FreeOK
    <3>1. PICK r \in Tasks : /\ pc[r] \in OnItsWay
                             /\ \A w \in waiters : uxPriority[w] <= uxPriority[r]
      BY <1>4 DEF LoanInv, FreeOK
    <3>2. pc'[r] \in OnItsWay
      BY <1>1, <1>2, <3>1 DEF OnItsWay
    <3> QED  BY <1>3, <2>1, <3>1, <3>2
  <2>3. NoInversion' /\ LentOK' /\ LoanOK'
    BY <1>1, <1>4, <2>1 DEF NoInversion, LentOK, LoanOK
  <2> QED  BY <2>2, <2>3 DEF LoanInv
<1>5. CASE h # NONE
  <2>1. h \in Tasks /\ uxBasePriority[h] \in Nat
    BY <1>5, UartAssumption DEF BaseInv, TypeOK
  <2>2. /\ HighestWaiting \in Nat
        /\ \A w \in waiters : uxPriority[w] <= HighestWaiting
        /\ HighestWaiting # 0 => \E w \in waiters : uxPriority[w] = HighestWaiting
    BY HighestWaitingOK DEF BaseInv
  <2>3. g = IF uxBasePriority[h] < HighestWaiting THEN HighestWaiting ELSE uxBasePriority[h]
    BY <2>1, <2>2, GreatestOfTwo
  <2>4. /\ uxPriority'[h] = g
        /\ \A u \in Tasks : u # h => uxPriority'[u] = uxPriority[u]
    <3>1. uxPriority \in [Tasks -> Nat]
      BY DEF BaseInv, TypeOK
    <3> HIDE DEF g
    <3> QED  BY <1>1, <1>5, <2>1, <3>1
  <2> HIDE DEF g
  <2>5. FreeOK'
    BY <1>1, <1>5 DEF FreeOK
  <2>6. NoInversion'
    <3> SUFFICES ASSUME NEW w \in waiters PROVE uxPriority'[h] >= uxPriority'[w]
      BY <1>1 DEF NoInversion
    <3>1. uxPriority[w] <= HighestWaiting /\ uxPriority[w] \in Nat /\ uxPriority'[w] = uxPriority[w]
      BY <1>3, <2>2, <2>4
    <3> HIDE DEF h
    <3> QED  BY <2>1, <2>2, <2>3, <2>4, <3>1
  <2>7. LentOK'
    BY <1>1, <1>2, <1>3, <1>5 DEF LoanInv, LentOK
  <2>8. LoanOK'
    <3> SUFFICES ASSUME NEW p \in Tasks, uxPriority'[p] # uxBasePriority[p]
                 PROVE  \E u \in Tasks : /\ pc'[u] \in Lending /\ xInheritanceOccurred'[u]
                                         /\ uxBasePriority[u] = uxPriority'[p]
      BY DEF LoanOK
    <3>1. p = h
      BY <2>4 DEF BaseInv, PriorityOK
    <3>2. g = HighestWaiting /\ uxBasePriority[h] < HighestWaiting
      BY <2>3, <2>4, <3>1
    <3>3. HighestWaiting # 0
      BY <2>1, <2>2, <3>2
    <3>4. PICK w \in waiters : uxPriority[w] = HighestWaiting
      BY <2>2, <3>3
    <3>5. uxBasePriority[w] = uxPriority'[p] /\ w \in Tasks \ {t}
      BY <1>3, <2>4, <3>1, <3>2, <3>4
    <3>6. pc'[w] \in Lending
      BY <1>2, <3>5, WaiterFacts DEF Lending
    <3>7. uxBasePriority[h] < uxBasePriority[w]
      BY <1>3, <3>2, <3>4
    <3>8. xInheritanceOccurred'[w]
      BY <1>2, <1>5, <3>5, <3>7 DEF LoanInv, LentOK
    <3> QED  BY <3>5, <3>6, <3>8
  <2> QED  BY <2>5, <2>6, <2>7, <2>8 DEF LoanInv
<1> QED  BY <1>4, <1>5

(* The mutex given back: the loan ends, and the first waiter is readied.   *)
LEMMA GiveLoan == ASSUME BaseInv, LoanInv, NEW t \in Tasks, GiveMutex(t) PROVE LoanInv'
<1>1. /\ pc[t] = "give" /\ xMutexHolder' = NONE
      /\ uxPriority' = [uxPriority EXCEPT ![t] = uxBasePriority[t]]
  BY DEF GiveMutex
<1>2. xMutexHolder = t
  BY <1>1 DEF BaseInv, HolderOK, PathOK, Printing
<1>3. \A u \in Tasks : uxPriority'[u] = uxBasePriority[u]
  <2>1. uxPriority \in [Tasks -> Nat]
    BY DEF BaseInv, TypeOK
  <2> QED  BY <1>1, <1>2, <2>1 DEF BaseInv, PriorityOK
<1>4. NoInversion' /\ LentOK' /\ LoanOK'
  BY <1>1, <1>3 DEF NoInversion, LentOK, LoanOK
<1>5. FreeOK'
  <2>1. CASE waiters = {} /\ UNCHANGED waiters
    BY <2>1 DEF FreeOK
  <2>2. CASE \E w \in waiters : /\ uxPriority[w] = HighestWaiting
                                /\ waiters' = waiters \ {w}
                                /\ pc' = [pc EXCEPT ![t] = "idle", ![w] = "again"]
    <3>1. PICK w \in waiters : /\ uxPriority[w] = HighestWaiting
                               /\ waiters' = waiters \ {w}
                               /\ pc' = [pc EXCEPT ![t] = "idle", ![w] = "again"]
      BY <2>2
    <3>2. w \in Tasks /\ pc'[w] \in OnItsWay
      BY <1>1, <3>1, WaiterFacts DEF BaseInv, TypeOK, OnItsWay
    <3>3. \A v \in waiters : uxPriority'[v] <= uxPriority'[w]
      <4>1. \A v \in waiters : uxPriority[v] <= uxPriority[w]
        BY <3>1, HighestWaitingOK DEF BaseInv
      <4>2. \A v \in waiters : uxPriority'[v] = uxPriority[v]
        BY <1>3, WaiterFacts
      <4> QED  BY <4>1, <4>2
    <3> QED  BY <3>1, <3>2, <3>3 DEF FreeOK
  <2> QED  BY <2>1, <2>2 DEF GiveMutex
<1> QED  BY <1>4, <1>5 DEF LoanInv

LEMMA TickLoan == ASSUME BaseInv, LoanInv, Tick PROVE LoanInv'
<1> DEFINE due == {t \in Tasks : left[t] = 1 /\ ~Ready(t)}
<1>1. /\ waiters' = waiters \ due
      /\ \A t \in Tasks : pc'[t] = IF t \notin due THEN pc[t]
                                   ELSE IF pc[t] = "asleep" THEN "idle" ELSE "again"
      /\ UNCHANGED <<xInheritanceOccurred, uxPriority, xMutexHolder>>
  BY DEF Tick
<1>2. \A t \in Tasks : t \in due => pc[t] \in {"asleep", "blocked"}
  BY DEF Ready
<1> HIDE DEF due
<1>3. FreeOK'
  <2>1. \A t \in Tasks : pc[t] \in OnItsWay => pc'[t] = pc[t]
    BY <1>1, <1>2 DEF OnItsWay
  <2>2. waiters' \subseteq waiters
    BY <1>1
  <2> QED  BY <1>1, <2>1, <2>2 DEF LoanInv, FreeOK
<1>4. NoInversion' /\ LentOK'
  BY <1>1 DEF LoanInv, NoInversion, LentOK
<1>5. LoanOK'
  <2>1. \A t \in Tasks : pc[t] \in Lending => pc'[t] \in Lending
    BY <1>1, <1>2 DEF Lending
  <2> QED  BY <1>1, <2>1 DEF LoanInv, LoanOK
<1> QED  BY <1>3, <1>4, <1>5 DEF LoanInv

LEMMA StepLoan == ASSUME BaseInv, LoanInv, NEW t \in Tasks, Step(t) PROVE LoanInv'
<1> USE DEF Places, OnItsWay, Lending
<1>0. xInheritanceOccurred \in [Tasks -> BOOLEAN]
  BY DEF BaseInv, TypeOK
<1>1. CASE Call(t)
  BY <1>1, MoveLoan DEF Call
<1>2. CASE vTaskDelay(t) \/ Spin(t) \/ Release(t)
  BY <1>2, MoveLoan DEF vTaskDelay, Spin, Release
<1>3. CASE FindTaken(t)
  BY <1>3, MoveLoan DEF FindTaken
<1>4. ASSUME Drop(t), UNCHANGED lock, xMutexHolder # NONE,
             pc[t] = "last" \/ (pc[t] = "expired" /\ ~xInheritanceOccurred[t])
      PROVE  LoanInv'
  <2>1. \A u \in Tasks \ {t} : xInheritanceOccurred'[u] = xInheritanceOccurred[u]
    BY <1>0, <1>4 DEF Drop
  <2> QED  BY <1>4, <2>1, MoveLoan DEF Drop
<1>5. CASE GiveUp(t)
  <2>1. /\ Drop(t) /\ UNCHANGED lock /\ xMutexHolder # NONE
        /\ pc[t] = "last" \/ (pc[t] = "expired" /\ ~xInheritanceOccurred[t])
    BY <1>5 DEF GiveUp
  <2> QED  BY <1>4, <2>1
<1>6. CASE TimedOut(t) \/ FindGiven(t)
  BY <1>6, MoveLoan DEF TimedOut, FindGiven
<1>7. CASE Expire(t)
  BY <1>7, MoveLoan DEF Expire
<1>8. CASE PollTXE(t)
  BY <1>8, MoveLoan DEF PollTXE
<1>9. CASE WriteTDR(t)
  <2> DEFINE place == IF rest[t] > 1 THEN "poll" ELSE IF t \in RawPrinters THEN "idle" ELSE "give"
  <2>1. pc[t] = "write" /\ Goes(t, place) /\ UNCHANGED <<xInheritanceOccurred, lock>>
    BY <1>9 DEF WriteTDR
  <2>2. place \in {"poll", "idle", "give"}
    OBVIOUS
  <2> HIDE DEF place
  <2> QED  BY <2>1, <2>2, MoveLoan
<1> QED
  BY <1>1, <1>2, <1>3, <1>5, <1>6, <1>7, <1>8, <1>9, TakeLoan, BlockLoan, CallInLoan, GiveLoan DEF Step

LEMMA LoanNext == BaseInv /\ LoanInv /\ [Next]_vars => LoanInv'
<1> SUFFICES ASSUME BaseInv, LoanInv, [Next]_vars PROVE LoanInv'
  OBVIOUS
<1>1. CASE UNCHANGED vars
  BY <1>1 DEF vars, taskVars, lock, LoanInv, FreeOK, NoInversion, LentOK, LoanOK
<1>2. CASE Transmit
  BY <1>2 DEF Transmit, taskVars, lock, LoanInv, FreeOK, NoInversion, LentOK, LoanOK
<1> QED  BY <1>1, <1>2, StepLoan, TickLoan DEF Next

LEMMA LoanInvariance == Spec => []LoanInv
  BY BaseInvariance, LoanInit, LoanNext, PTL DEF Spec

(* Nobody waits for the mutex behind a holder of lower priority, through   *)
(* every timeout, loan and hand-over of xQueueSemaphoreTake.               *)
THEOREM NeverInverted == Spec => []NoInversion
<1>1. LoanInv => NoInversion
  BY DEF LoanInv
<1> QED  BY <1>1, LoanInvariance, PTL

(* A lent priority belongs to the holder and was lent by a task that has   *)
(* not yet given up: vTaskPriorityDisinheritAfterTimeout forgets none.     *)
THEOREM LoanEnds == Spec => []LoanReturned
<1>1. BaseInv /\ LoanInv => LoanReturned
  BY DEF BaseInv, LoanInv, PriorityOK, LoanOK, LoanReturned, Lending
<1> QED  BY <1>1, BaseInvariance, LoanInvariance, PTL

(* The mutex is never left free with its waiters asleep and nobody readied *)
(* to take it.                                                             *)
THEOREM MutexNotForgotten == Spec => []MutexGoesOn
<1>1. LoanInv => MutexGoesOn
  BY DEF LoanInv, FreeOK, MutexGoesOn, OnItsWay
<1> QED  BY <1>1, LoanInvariance, PTL
-----------------------------------------------------------------------------
(***************************************************************************)
(* The wire, when every task prints with UART2_Print: what stands in the   *)
(* register belongs to the string of the holder, and the character sent    *)
(* last, unless it ended its string, has its successor behind it.          *)
(***************************************************************************)
Follows(c) == xMutexHolder = c[1] /\ pc[c[1]] \in {"poll", "write"} /\ rest[c[1]] = c[2]

WireOK ==
    /\ NothingOverwritten
    /\ TDR # NONE /\ TDR[2] > 0 => Follows(TDR)
    /\ sent # NONE /\ sent[2] > 0 =>
          \/ TDR = <<sent[1], sent[2] - 1>>
          \/ TDR = NONE /\ Follows(sent)

LEMMA WireInit == Init => WireOK
  BY DEF Init, WireOK, NothingOverwritten

(* The holder gets no further in its string, and nobody begins to write.   *)
LEMMA StillWire ==
    ASSUME WireOK, BaseInv, UNCHANGED <<wire, xMutexHolder>>,
           \A u \in Tasks : pc[u] \in {"poll", "write"} => pc'[u] = pc[u] /\ rest'[u] = rest[u],
           \A u \in Tasks : pc'[u] = "write" => pc[u] = "write"
    PROVE  WireOK'
<1>1. \A c \in Chars : Follows(c) => Follows(c)'
  BY DEF Follows, Chars
<1>2. NothingOverwritten'
  BY DEF WireOK, NothingOverwritten, wire
<1>3. TDR' = TDR /\ sent' = sent /\ TDR \in Chars \cup {NONE} /\ sent \in Chars \cup {NONE}
  BY DEF BaseInv, TypeOK, wire
<1>4. TDR # NONE /\ TDR[2] > 0 => Follows(TDR)'
  BY <1>1, <1>3 DEF WireOK
<1>5. sent # NONE /\ sent[2] > 0 => TDR = <<sent[1], sent[2] - 1>> \/ (TDR = NONE /\ Follows(sent)')
  BY <1>1, <1>3 DEF WireOK
<1> QED  BY <1>2, <1>3, <1>4, <1>5 DEF WireOK, Follows

LEMMA WireNext ==
    ASSUME RawPrinters = {}, BaseInv, WireOK, [Next]_vars
    PROVE  WireOK'
<1>0. /\ pc \in [Tasks -> Places] /\ rest \in [Tasks -> Nat]
      /\ TDR \in Chars \cup {NONE} /\ sent \in Chars \cup {NONE}
      /\ \A u \in Tasks : xMutexHolder = u <=> pc[u] \in Printing
  BY DEF BaseInv, TypeOK, HolderOK, Places
<1>1. CASE UNCHANGED vars
  BY <1>1, StillWire DEF vars, taskVars, lock, wire
<1>2. CASE Transmit
  <2>1. /\ TDR # NONE /\ sent' = TDR /\ TDR' = NONE
        /\ UNCHANGED <<pc, rest, xMutexHolder>>
    BY <1>2 DEF Transmit, taskVars, lock
  <2> QED  BY <1>0, <2>1 DEF WireOK, NothingOverwritten, Follows
<1>3. CASE Tick
  <2>1. UNCHANGED <<rest, xMutexHolder, wire>>
    BY <1>3 DEF Tick
  <2>2. \A u \in Tasks : pc'[u] = pc[u] \/ (pc[u] \in {"asleep", "blocked"} /\ pc'[u] \in {"idle", "again"})
    BY <1>3 DEF Tick, Ready
  <2> QED  BY <2>1, <2>2, StillWire
<1>4. ASSUME NEW t \in Tasks, Step(t) PROVE WireOK'
  <2>1. ASSUME NEW place \in Places \ {"write"}, Goes(t, place), pc[t] \notin {"poll", "write"},
               UNCHANGED <<wire, xMutexHolder>>, \A u \in Tasks \ {t} : rest'[u] = rest[u]
        PROVE  WireOK'
    <3>1. \A u \in Tasks : pc'[u] = IF u = t THEN place ELSE pc[u]
      BY <1>0, <2>1 DEF Goes
    <3> QED  BY <2>1, <3>1, StillWire
  <2>2. CASE Call(t)
    BY <1>0, <2>1, <2>2 DEF Call, lock, Places
  <2>3. CASE vTaskDelay(t) \/ Spin(t) \/ Release(t) \/ FindTaken(t) \/ TimedOut(t) \/ FindGiven(t)
    BY <2>1, <2>3 DEF vTaskDelay, Spin, Release, FindTaken, TimedOut, FindGiven, lock, Places
  <2>4. CASE BlockOnMutex(t)
    BY <2>1, <2>4 DEF BlockOnMutex, Places
  <2>5. CASE GiveUp(t) \/ vTaskPriorityDisinheritAfterTimeout(t)
    BY <1>0, <2>1, <2>5 DEF GiveUp, vTaskPriorityDisinheritAfterTimeout, Drop, lock, Places
  <2>6. CASE Expire(t)
    BY <1>0, <2>1, <2>6 DEF Expire, lock, Places
  <2>7. CASE TakeMutex(t)
    <3>1. xMutexHolder = NONE /\ UNCHANGED wire /\ pc' = [pc EXCEPT ![t] = "poll"]
      BY <2>7 DEF TakeMutex, Goes
    <3>2. \A c \in Chars : ~Follows(c)
      BY <3>1, UartAssumption DEF Follows, Chars
    <3>3. /\ TDR # NONE => ~(TDR[2] > 0)
          /\ sent # NONE /\ sent[2] > 0 => TDR = <<sent[1], sent[2] - 1>>
      BY <1>0, <3>2 DEF WireOK
    <3>4. NothingOverwritten'
      BY <1>0, <3>1 DEF WireOK, NothingOverwritten, wire
    <3> QED  BY <3>1, <3>3, <3>4 DEF WireOK, wire
  <2>8. CASE GiveMutex(t)
    <3>1. pc[t] = "give" /\ UNCHANGED wire
      BY <2>8 DEF GiveMutex
    <3>2. xMutexHolder = t
      BY <1>0, <3>1 DEF Printing
    <3>3. \A c \in Chars : ~Follows(c)
      BY <3>1, <3>2 DEF Follows
    <3>4. /\ TDR # NONE => ~(TDR[2] > 0)
          /\ sent # NONE /\ sent[2] > 0 => TDR = <<sent[1], sent[2] - 1>>
      BY <1>0, <3>3 DEF WireOK
    <3>5. \A u \in Tasks : pc'[u] = "write" => pc[u] = "write"
      BY <1>0, <2>8 DEF GiveMutex, Goes
    <3>6. NothingOverwritten'
      BY <3>1, <3>5 DEF WireOK, NothingOverwritten, wire
    <3> QED  BY <3>1, <3>4, <3>6 DEF WireOK, wire
  <2>9. CASE PollTXE(t)
    <3>1. /\ TDR = NONE /\ pc[t] = "poll" /\ pc' = [pc EXCEPT ![t] = "write"]
          /\ UNCHANGED <<rest, xMutexHolder, wire>>
      BY <2>9 DEF PollTXE, Goes, lock
    <3>2. \A c \in Chars : Follows(c) => Follows(c)'
      BY <1>0, <3>1 DEF Follows, Chars
    <3>3. sent # NONE /\ sent[2] > 0 => TDR = <<sent[1], sent[2] - 1>> \/ (TDR = NONE /\ Follows(sent)')
      <4> SUFFICES ASSUME sent # NONE, sent[2] > 0
                   PROVE  TDR = <<sent[1], sent[2] - 1>> \/ (TDR = NONE /\ Follows(sent)')
        OBVIOUS
      <4>1. sent \in Chars
        BY <1>0
      <4>2. TDR = <<sent[1], sent[2] - 1>> \/ (TDR = NONE /\ Follows(sent))
        BY DEF WireOK
      <4>3. sent' = sent
        BY <3>1 DEF wire
      <4>4. Follows(sent) => Follows(sent)'
        BY <3>2, <4>1, <4>3 DEF Follows
      <4> HIDE DEF Follows
      <4> QED  BY <3>1, <4>2, <4>4
    <3> QED  BY <3>1, <3>3 DEF WireOK, NothingOverwritten, Follows, wire
  <2>10. CASE WriteTDR(t)
    <3>1. /\ pc[t] = "write" /\ TDR' = <<t, rest[t] - 1>> /\ rest' = [rest EXCEPT ![t] = @ - 1]
          /\ pc' = [pc EXCEPT ![t] = IF rest[t] > 1 THEN "poll" ELSE "give"]
          /\ sent' = sent /\ xMutexHolder' = xMutexHolder
      BY <2>10 DEF WriteTDR, Goes, lock
    <3>2. xMutexHolder = t /\ TDR = NONE /\ rest[t] \in Nat /\ rest[t] > 0
      BY <1>0, <3>1 DEF Printing, WireOK, NothingOverwritten, BaseInv, PathOK
    <3>3. NothingOverwritten'
      <4>1. \A u \in Tasks : pc'[u] # "write"
        BY <1>0, <3>1, <3>2 DEF Printing
      <4> QED  BY <4>1 DEF NothingOverwritten
    <3>4. TDR' # NONE /\ TDR'[2] > 0 => Follows(TDR)'
      BY <1>0, <3>1, <3>2 DEF Follows
    <3>5. sent # NONE /\ sent[2] > 0 => TDR' = <<sent[1], sent[2] - 1>>
      <4>1. sent # NONE /\ sent[2] > 0 => sent \in Chars /\ (TDR = <<sent[1], sent[2] - 1>> \/ Follows(sent))
        BY <1>0 DEF WireOK
      <4>2. \A c \in Chars : c[2] > 0 => TDR # <<c[1], c[2] - 1>>
        <5>1. \A c \in Chars : c[2] > 0 => <<c[1], c[2] - 1>> \in Tasks \X Nat
          BY DEF Chars
        <5> QED  BY <3>2, <5>1, UartAssumption
      <4> QED  BY <3>1, <3>2, <4>1, <4>2 DEF Follows, Chars
    <3> QED  BY <3>1, <3>3, <3>4, <3>5 DEF WireOK
  <2> QED
    BY <1>4, <2>2, <2>3, <2>4, <2>5, <2>6, <2>7, <2>8, <2>9, <2>10 DEF Step
<1> QED  BY <1>1, <1>2, <1>3, <1>4 DEF Next

(* While everybody prints with UART2_Print, the register found empty is    *)
(* still empty when it is written: no character is overwritten.            *)
THEOREM MutexProtectsRegister ==
    ASSUME RawPrinters = {} PROVE Spec => []NothingOverwritten
<1>1. BaseInv /\ WireOK /\ [Next]_vars => WireOK'
  BY WireNext
<1>2. WireOK => NothingOverwritten
  BY DEF WireOK
<1> QED  BY <1>1, <1>2, BaseInvariance, WireInit, PTL DEF Spec

(* And every string goes out whole, whatever the tasks of higher priority  *)
(* do meanwhile.                                                           *)
THEOREM MutexKeepsStringsWhole ==
    ASSUME RawPrinters = {} PROVE Spec => StringsWhole
<1>1. BaseInv /\ WireOK /\ [Next]_vars => WireOK'
  BY WireNext
<1>2. WireOK => [TDR # NONE /\ TDR' = NONE /\ sent # NONE /\ sent[2] > 0
                    => TDR = <<sent[1], sent[2] - 1>>]_vars
  BY DEF WireOK
<1> QED  BY <1>1, <1>2, BaseInvariance, WireInit, PTL DEF Spec, StringsWhole
=============================================================================
