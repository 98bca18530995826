----------------------- MODULE ConnectionPool_proofs -----------------------
(***************************************************************************)
(* The counter of a connection pool, for every number of threads,          *)
(* connections and failures.  That live_connections_ is accurate is not    *)
(* inductive by itself: it counts sets, so a connection that was in two    *)
(* places would leave one of them without changing the count.  Exclusive   *)
(* says that it never is.  With it every step moves a connection or adds   *)
(* or removes exactly one, and Close removes those that are idle.          *)
(***************************************************************************)
EXTENDS ConnectionPool, TLAPS, FiniteSetTheorems

PInv == TypeOK /\ Exclusive /\ Clean /\ LiveIsAccurate

-----------------------------------------------------------------------------
(* The sets that are counted. *)

\* What exists is idle, in somebody's hands or borrowed.
LEMMA ExistingHas ==
  \A c : c \in Existing <=> \/ c \in idle
                            \/ \E a \in Actors : c = inHand[a] /\ c # EmptyHand
                            \/ \E t \in Threads : c \in held[t]
  BY Zenon DEF Existing, InHand

\* The same of the next state.
LEMMA ExistingWillHave ==
  \A c : c \in Existing' <=> \/ c \in idle'
                             \/ \E a \in Actors : c = inHand'[a] /\ c # EmptyHand
                             \/ \E t \in Threads : c \in held'[t]
  BY Zenon DEF Existing, InHand

\* What is counted is finite, and at least the idle connections are.
LEMMA CountedIsFinite ==
  ASSUME TypeOK
  PROVE  /\ IsFiniteSet(Existing) /\ Cardinality(Existing) \in Nat
         /\ IsFiniteSet(Reserved) /\ Cardinality(Reserved) \in Nat
         /\ IsFiniteSet(idle) /\ Cardinality(idle) \in Nat
         /\ Cardinality(idle) <= Cardinality(Existing)
  <1>1. Existing \subseteq Conns
    BY ExistingHas, Zenon DEF TypeOK
  <1>2. IsFiniteSet(Existing) BY <1>1, FS_Subset, PoolLimits, Zenon
  <1>3. IsFiniteSet(Actors)
    BY PoolLimits, FS_AddElement, Zenon DEF Actors
  <1>4. Reserved \subseteq Actors BY Zenon DEF Reserved
  <1>5. IsFiniteSet(Reserved) BY <1>3, <1>4, FS_Subset, Zenon
  <1>6. idle \subseteq Existing BY ExistingHas, Zenon
  <1>7. IsFiniteSet(idle) BY <1>2, <1>6, FS_Subset, Zenon
  <1>8. Cardinality(idle) <= Cardinality(Existing) BY <1>2, <1>6, FS_Subset, Zenon
  <1> QED BY <1>2, <1>5, <1>7, <1>8, FS_CardinalityType, Zenon

\* A step that moves connections and slots, without making or losing any,
\* leaves the counter alone.
LEMMA Moves ==
  ASSUME LiveIsAccurate, Existing' = Existing, Reserved' = Reserved, live' = live
  PROVE  LiveIsAccurate'
  BY Zenon DEF LiveIsAccurate

\* A stopped pool drops a connection that comes back and counts it off.
LEMMA Released ==
  ASSUME TypeOK, LiveIsAccurate, NEW c \in Existing, Existing' = Existing \ {c}, Reserved' = Reserved, Less
  PROVE  LiveIsAccurate'
  <1>1. Cardinality(Existing') = Cardinality(Existing) - 1
    BY CountedIsFinite, FS_RemoveElement, Zenon
  <1>2. Cardinality(Existing) # 0
    BY CountedIsFinite, FS_EmptySet, Zenon
  <1> QED BY <1>1, <1>2, CountedIsFinite DEF LiveIsAccurate, Less

\* A connection that broke leaves its slot reserved until it is discarded.
LEMMA Destroyed ==
  ASSUME TypeOK, LiveIsAccurate, NEW c \in Existing, Existing' = Existing \ {c},
         NEW a, a \notin Reserved, Reserved' = Reserved \cup {a}, live' = live
  PROVE  LiveIsAccurate'
  <1>1. Cardinality(Existing') = Cardinality(Existing) - 1
    BY CountedIsFinite, FS_RemoveElement, Zenon
  <1>2. Cardinality(Reserved') = Cardinality(Reserved) + 1
    BY CountedIsFinite, FS_AddElement, Zenon
  <1> QED BY <1>1, <1>2, CountedIsFinite DEF LiveIsAccurate

\* A slot is given up, by DiscardConnection or because connecting failed; the
\* counter is not zero then, so it is really taken down.
LEMMA GivenUp ==
  ASSUME TypeOK, LiveIsAccurate, NEW a \in Reserved, Reserved' = Reserved \ {a}, Existing' = Existing
  PROVE  /\ live > 0
         /\ live' = live - 1 => LiveIsAccurate'
  <1>1. Cardinality(Reserved') = Cardinality(Reserved) - 1
    BY CountedIsFinite, FS_RemoveElement, Zenon
  <1>2. Cardinality(Reserved) # 0
    BY CountedIsFinite, FS_EmptySet, Zenon
  <1> QED BY <1>1, <1>2, CountedIsFinite DEF LiveIsAccurate

\* CreateOneConnection reserves a slot before it connects.
LEMMA Claimed ==
  ASSUME TypeOK, LiveIsAccurate, NEW a, a \notin Reserved, Reserved' = Reserved \cup {a},
         Existing' = Existing, live' = live + 1
  PROVE  LiveIsAccurate'
  <1>1. Cardinality(Reserved') = Cardinality(Reserved) + 1
    BY CountedIsFinite, FS_AddElement, Zenon
  <1> QED BY <1>1, CountedIsFinite DEF LiveIsAccurate

\* The new connection takes the place of its reservation.
LEMMA Made ==
  ASSUME TypeOK, LiveIsAccurate, NEW c, c \notin Existing, Existing' = Existing \cup {c},
         NEW a \in Reserved, Reserved' = Reserved \ {a}, live' = live
  PROVE  LiveIsAccurate'
  <1>1. Cardinality(Existing') = Cardinality(Existing) + 1
    BY CountedIsFinite, FS_AddElement, Zenon
  <1>2. Cardinality(Reserved') = Cardinality(Reserved) - 1
    BY CountedIsFinite, FS_RemoveElement, Zenon
  <1> QED BY <1>1, <1>2, CountedIsFinite DEF LiveIsAccurate

\* Close frees what is idle, all at once.
LEMMA Freed ==
  ASSUME TypeOK, LiveIsAccurate, Existing' = Existing \ idle, Reserved' = Reserved,
         live' = live - Cardinality(idle)
  PROVE  LiveIsAccurate'
  <1>1. idle \subseteq Existing BY ExistingHas, Zenon
  <1>2. Existing' \subseteq Existing OBVIOUS
  <1>3. IsFiniteSet(Existing') BY <1>2, CountedIsFinite, FS_Subset, Zenon
  <1>4. Existing = idle \cup Existing' BY <1>1, Zenon
  <1>5. idle \cap Existing' = {} OBVIOUS
  <1>6. Cardinality(idle \cup Existing') = Cardinality(idle) + Cardinality(Existing') - Cardinality(idle \cap Existing')
    BY <1>3, CountedIsFinite, FS_Union, Zenon
  <1>7. Cardinality(idle \cap Existing') = 0 BY <1>5, FS_EmptySet, Zenon
  <1>8. Cardinality(Existing') \in Nat BY <1>3, FS_CardinalityType, Zenon
  <1>9. Cardinality(Existing) = Cardinality(idle) + Cardinality(Existing') - 0
    BY <1>4, <1>6, <1>7, Zenon
  <1> QED BY <1>8, <1>9, CountedIsFinite DEF LiveIsAccurate

-----------------------------------------------------------------------------
(* The steps. *)

\* The constructor fills the pool.
LEMMA Starts == Init => PInv
  <1> SUFFICES ASSUME Init PROVE PInv OBVIOUS
  <1>1. idle \subseteq Conns /\ Cardinality(idle) <= PoolSize /\ live = Cardinality(idle)
    BY Zenon DEF Init
  <1>2. IsFiniteSet(idle) /\ Cardinality(idle) \in Nat
    BY <1>1, PoolLimits, FS_Subset, FS_CardinalityType, Zenon
  <1>a. /\ stopped = FALSE /\ dirty = {} /\ closer = "open" /\ toCheck = 0 /\ faults = 0
        /\ held = [t \in Threads |-> {}]
        /\ stage = [a \in Actors |-> IF a = HealthThread THEN "sleep" ELSE "run"]
        /\ inHand = [a \in Actors |-> EmptyHand]
    BY Zenon DEF Init
  <1>3. TypeOK
    <2>1. stage \in [Actors -> Stages] BY <1>a, Zenon DEF Stages
    <2>2. live \in 0 .. PoolSize /\ toCheck \in 0 .. PoolSize /\ faults \in 0 .. MaxFaults
      BY <1>1, <1>2, <1>a, PoolLimits
    <2>3. inHand \in [Actors -> Conns \cup {EmptyHand}] /\ held \in [Threads -> SUBSET Conns]
      BY <1>a, Zenon
    <2> QED BY <1>1, <1>a, <2>1, <2>2, <2>3, Zenon DEF TypeOK
  <1>4. Exclusive
    BY PoolLimits, Zenon DEF Init, Exclusive, Actors
  <1>5. Clean BY Zenon DEF Init, Clean
  <1>6. Existing = idle
    <2>1. \A a \in Actors : inHand[a] = EmptyHand BY Zenon DEF Init
    <2>2. \A t \in Threads : held[t] = {} BY Zenon DEF Init
    <2> QED BY <2>1, <2>2, ExistingHas, Zenon
  <1>7. Reserved = {} BY Zenon DEF Init, Reserved, Actors
  <1>8. Cardinality(Reserved) = 0 BY <1>7, FS_EmptySet, Zenon
  <1>9. LiveIsAccurate BY <1>1, <1>2, <1>6, <1>8 DEF LiveIsAccurate
  <1> QED BY <1>3, <1>4, <1>5, <1>9, Zenon DEF PInv

\* A thread that only starts or ends its wait moves nothing.
LEMMA StageSteps ==
  ASSUME PInv, NEW t \in Threads, Request(t) \/ GiveUp(t)
  PROVE  PInv'
  <1> USE DEF PInv
  <1>0. /\ \E s \in {"wait", "run"} : stage' = [stage EXCEPT ![t] = s]
        /\ stage[t] \in {"run", "wait"}
        /\ UNCHANGED <<idle, live, stopped, held, dirty, inHand, toCheck, closer, faults>>
    BY Zenon DEF Request, GiveUp, Goto
  <1>1. TypeOK' BY <1>0, Zenon DEF TypeOK, Stages, Actors
  <1>2. Exclusive' BY <1>0, Zenon DEF TypeOK, Exclusive, Actors
  <1>3. Clean' BY <1>0 DEF TypeOK, Clean, Actors
  <1>4. Existing' = Existing BY <1>0, ZenonT(60) DEF Existing, InHand
  <1>5. Reserved' = Reserved BY <1>0, Zenon DEF TypeOK, Reserved, Actors
  <1> QED BY <1>0, <1>1, <1>2, <1>3, <1>4, <1>5, Moves, Zenon

\* borrowConnection takes an idle connection.
LEMMA BorrowStep ==
  ASSUME PInv, NEW t \in Threads, Borrow(t)
  PROVE  PInv'
  <1> USE DEF PInv
  <1>0. PICK c \in idle : idle' = idle \ {c} /\ held' = [held EXCEPT ![t] = @ \cup {c}]
    BY Zenon DEF Borrow
  <1>a. /\ stage[t] = "wait" /\ stage' = [stage EXCEPT ![t] = "run"]
        /\ UNCHANGED <<live, stopped, dirty, inHand, toCheck, closer, faults>>
    BY Zenon DEF Borrow, Goto
  <1>b. t \in Actors BY Zenon DEF Actors
  <1>1. TypeOK' BY <1>0, <1>a, Zenon DEF TypeOK, Stages, Actors
  <1>2. Exclusive' BY <1>0, <1>a, <1>b DEF TypeOK, Exclusive
  <1>3. Clean' BY <1>0, <1>a, <1>b, Zenon DEF TypeOK, Clean, Actors
  <1>4. Existing' = Existing
    BY <1>0, <1>a, ExistingHas, ExistingWillHave, Zenon DEF TypeOK
  <1>5. Reserved' = Reserved BY <1>a, <1>b, Zenon DEF TypeOK, Reserved
  <1> QED BY <1>a, <1>1, <1>2, <1>3, <1>4, <1>5, Moves, Zenon

\* A transaction is opened or ended on a borrowed connection.
LEMMA TransactStep ==
  ASSUME PInv, NEW t \in Threads, Transact(t)
  PROVE  PInv'
  <1> USE DEF PInv
  <1>0. PICK c \in held[t] : dirty' = IF c \in dirty THEN dirty \ {c} ELSE dirty \cup {c}
    BY Zenon DEF Transact
  <1>a. UNCHANGED <<idle, live, stopped, held, stage, inHand, toCheck, closer, faults>>
    BY Zenon DEF Transact
  <1>1. TypeOK' BY <1>0, <1>a, Zenon DEF TypeOK
  <1>2. Exclusive' BY <1>a, Zenon DEF Exclusive
  <1>3. Clean' BY <1>0, <1>a, ZenonT(60) DEF Clean, Transact
  <1>4. Existing' = Existing BY <1>a, Zenon DEF Existing, InHand
  <1>5. Reserved' = Reserved BY <1>a, Zenon DEF Reserved
  <1> QED BY <1>a, <1>1, <1>2, <1>3, <1>4, <1>5, Moves, Zenon

\* returnConnection of MySqlPool takes the connection to the sanitiser.
LEMMA ReturnStep ==
  ASSUME PInv, NEW t \in Threads, Return(t)
  PROVE  PInv'
  <1> USE DEF PInv
  <1>0. PICK c \in held[t] : /\ held' = [held EXCEPT ![t] = @ \ {c}]
                             /\ inHand' = [inHand EXCEPT ![t] = c]
    BY Zenon DEF Return, Take
  <1>a. /\ stage[t] = "run" /\ stage' = [stage EXCEPT ![t] = "sanitize"]
        /\ UNCHANGED <<idle, live, stopped, dirty, toCheck, closer, faults>>
    BY Zenon DEF Return, Goto
  <1>b. t \in Actors /\ c \in Conns /\ c # EmptyHand BY PoolLimits, Zenon DEF Actors, TypeOK
  <1>1. TypeOK' BY <1>0, <1>a, <1>b, Zenon DEF TypeOK, Stages
  <1>2. Exclusive' BY <1>0, <1>a, <1>b DEF TypeOK, Exclusive
  <1>3. Clean' BY <1>0, <1>a, <1>b DEF TypeOK, Clean, Actors
  <1>c. inHand[t] = EmptyHand BY <1>a, <1>b, Zenon DEF Exclusive
  <1>d. /\ \A a \in Actors : inHand'[a] = IF a = t THEN c ELSE inHand[a]
        /\ \A u \in Threads : held'[u] = IF u = t THEN held[t] \ {c} ELSE held[u]
    BY <1>0, <1>b, Zenon DEF TypeOK
  <1>4. Existing' = Existing
    BY <1>a, <1>b, <1>c, <1>d, ExistingHas, ExistingWillHave, ZenonT(60)
  <1>5. Reserved' = Reserved BY <1>a, <1>b, Zenon DEF TypeOK, Reserved
  <1> QED BY <1>a, <1>1, <1>2, <1>3, <1>4, <1>5, Moves, Zenon

\* The end of the sanitiser and of a check: under the mutex the connection is
\* idle again, or dropped when the pool has stopped.
LEMMA PutBack ==
  ASSUME PInv, NEW a \in Actors, stage[a] \in {"sanitize", "ping"}, NEW s \in {"run", "check"},
         Keep(inHand[a]), Drop(a), Goto(a, s), dirty' \subseteq dirty,
         UNCHANGED <<stopped, held, toCheck, closer, faults>>
  PROVE  TypeOK' /\ Exclusive' /\ LiveIsAccurate'
  <1> USE DEF PInv
  <1> DEFINE c == inHand[a]
  <1>0. /\ inHand' = [inHand EXCEPT ![a] = EmptyHand] /\ stage' = [stage EXCEPT ![a] = s]
    BY Zenon DEF Drop, Take, Goto
  <1>a. c \in Conns /\ c # EmptyHand /\ c \in Existing
    BY ExistingHas DEF TypeOK, Exclusive
  <1>b. /\ \A b \in Actors : inHand'[b] = IF b = a THEN EmptyHand ELSE inHand[b]
        /\ \A b \in Actors : stage'[b] = IF b = a THEN s ELSE stage[b]
        /\ inHand' \in [Actors -> Conns \cup {EmptyHand}] /\ stage' \in [Actors -> Stages]
    BY <1>0 DEF TypeOK, Stages
  <1>c. Reserved' = Reserved BY <1>b DEF Reserved
  <1>d. \A b \in Actors : b # a => inHand[b] # c BY <1>a, Zenon DEF Exclusive
  <1>e. c \notin idle /\ \A t \in Threads : c \notin held[t] BY Zenon DEF Exclusive
  <1>1. CASE stopped /\ Less /\ idle' = idle
    <2>1. TypeOK'
      <3>1. live' \in 0 .. PoolSize BY <1>1, PoolLimits DEF Less, TypeOK
      <3> QED BY <1>1, <1>b, <3>1, Zenon DEF TypeOK
    <2>2. Exclusive' BY <1>1, <1>b, PoolLimits DEF Exclusive, TypeOK
    <2>3. Existing' = Existing \ {c}
      BY <1>1, <1>a, <1>b, <1>d, <1>e, ExistingHas, ExistingWillHave
    <2>4. LiveIsAccurate' BY <1>1, <1>a, <1>c, <2>3, Released, Zenon
    <2> QED BY <2>1, <2>2, <2>4, Zenon
  <1>2. CASE ~stopped /\ idle' = idle \cup {c} /\ live' = live
    <2>1. TypeOK' BY <1>2, <1>a, <1>b, ZenonT(60) DEF TypeOK
    <2>2. Exclusive' BY <1>2, <1>a, <1>b, <1>d, <1>e, PoolLimits, SMTT(60) DEF Exclusive, TypeOK
    <2>3. Existing' = Existing
      BY <1>2, <1>a, <1>b, ExistingHas, ExistingWillHave, ZenonT(60)
    <2>4. LiveIsAccurate' BY <1>2, <1>c, <2>3, Moves, Zenon
    <2> QED BY <2>1, <2>2, <2>4, Zenon
  <1> QED BY <1>1, <1>2, Zenon DEF Keep

\* ResetMysqlTransaction leaves no transaction behind.
LEMMA SanitizedStep ==
  ASSUME PInv, NEW t \in Threads, Sanitized(t)
  PROVE  PInv'
  <1> USE DEF PInv
  <1>0. t \in Actors BY Zenon DEF Actors
  <1>1. /\ stage[t] = "sanitize" /\ dirty' = dirty \ {inHand[t]}
        /\ Keep(inHand[t]) /\ Drop(t) /\ Goto(t, "run")
        /\ UNCHANGED <<stopped, held, toCheck, closer, faults>>
    BY Zenon DEF Sanitized
  <1>2. TypeOK' /\ Exclusive' /\ LiveIsAccurate' BY <1>0, <1>1, PutBack, Zenon
  <1>3. Clean'
    <2>1. stage' = [stage EXCEPT ![t] = "run"] /\ inHand' = [inHand EXCEPT ![t] = EmptyHand]
      BY <1>1, Zenon DEF Goto, Drop, Take
    <2> QED BY <1>0, <1>1, <2>1, ZenonT(60) DEF Clean, TypeOK, Actors
  <1> QED BY <1>2, <1>3, Zenon

\* A connection that answers the check goes back; it had no transaction.
LEMMA CheckPassedStep ==
  ASSUME PInv, CheckPassed
  PROVE  PInv'
  <1> USE DEF PInv
  <1>0. HealthThread \in Actors BY Zenon DEF Actors
  <1>1. /\ stage[HealthThread] = "ping" /\ dirty' = dirty
        /\ Keep(inHand[HealthThread]) /\ Drop(HealthThread) /\ Goto(HealthThread, "check")
        /\ UNCHANGED <<stopped, held, toCheck, closer, faults>>
    BY Zenon DEF CheckPassed
  <1>2. TypeOK' /\ Exclusive' /\ LiveIsAccurate' BY <1>0, <1>1, PutBack, Zenon
  <1>3. Clean'
    <2>1. /\ stage' = [stage EXCEPT ![HealthThread] = "check"]
          /\ inHand' = [inHand EXCEPT ![HealthThread] = EmptyHand]
      BY <1>1, Zenon DEF Goto, Drop, Take
    <2> QED BY <1>0, <1>1, <2>1, PoolLimits, Zenon DEF Clean, TypeOK, Actors
  <1> QED BY <1>2, <1>3, Zenon

\* The end of a connection that broke: its slot is still counted.
LEMMA Broken ==
  ASSUME PInv, NEW a \in Actors, stage[a] \in {"sanitize", "ping"},
         Fault, Drop(a), Goto(a, "discard"), dirty' \subseteq dirty,
         UNCHANGED <<idle, live, stopped, held, toCheck, closer>>
  PROVE  TypeOK' /\ Exclusive' /\ LiveIsAccurate'
  <1> USE DEF PInv
  <1> DEFINE c == inHand[a]
  <1>0. /\ inHand' = [inHand EXCEPT ![a] = EmptyHand] /\ stage' = [stage EXCEPT ![a] = "discard"]
    BY Zenon DEF Drop, Take, Goto
  <1>a. c \in Conns /\ c # EmptyHand /\ c \in Existing
    BY ExistingHas DEF TypeOK, Exclusive
  <1>b. /\ \A b \in Actors : inHand'[b] = IF b = a THEN EmptyHand ELSE inHand[b]
        /\ \A b \in Actors : stage'[b] = IF b = a THEN "discard" ELSE stage[b]
        /\ inHand' \in [Actors -> Conns \cup {EmptyHand}] /\ stage' \in [Actors -> Stages]
    BY <1>0 DEF TypeOK, Stages
  <1>c. a \notin Reserved /\ Reserved' = Reserved \cup {a} BY <1>b DEF Reserved
  <1>d. \A b \in Actors : b # a => inHand[b] # c BY <1>a, Zenon DEF Exclusive
  <1>e. c \notin idle /\ \A t \in Threads : c \notin held[t] BY Zenon DEF Exclusive
  <1>1. TypeOK'
    <2>1. faults' \in 0 .. MaxFaults BY PoolLimits DEF Fault, TypeOK
    <2> QED BY <1>b, <2>1, Zenon DEF TypeOK
  <1>2. Exclusive' BY <1>b, PoolLimits DEF Exclusive, TypeOK
  <1>3. Existing' = Existing \ {c}
    BY <1>a, <1>b, <1>d, <1>e, ExistingHas, ExistingWillHave
  <1>4. LiveIsAccurate' BY <1>a, <1>c, <1>3, Destroyed, Zenon
  <1> QED BY <1>1, <1>2, <1>4, Zenon

\* The sanitiser threw.
LEMMA SanitizeFailsStep ==
  ASSUME PInv, NEW t \in Threads, SanitizeFails(t)
  PROVE  PInv'
  <1> USE DEF PInv
  <1>0. t \in Actors BY Zenon DEF Actors
  <1>1. /\ stage[t] = "sanitize" /\ Fault /\ dirty' = dirty \ {inHand[t]} /\ Drop(t) /\ Goto(t, "discard")
        /\ UNCHANGED <<idle, live, stopped, held, toCheck, closer>>
    BY Zenon DEF SanitizeFails
  <1>2. TypeOK' /\ Exclusive' /\ LiveIsAccurate' BY <1>0, <1>1, Broken, Zenon
  <1>3. Clean'
    <2>1. stage' = [stage EXCEPT ![t] = "discard"] /\ inHand' = [inHand EXCEPT ![t] = EmptyHand]
      BY <1>1, Zenon DEF Goto, Drop, Take
    <2> QED BY <1>0, <1>1, <2>1, Zenon DEF Clean, TypeOK, Actors
  <1> QED BY <1>2, <1>3, Zenon

\* The check found a dead connection.
LEMMA CheckFailedStep ==
  ASSUME PInv, CheckFailed
  PROVE  PInv'
  <1> USE DEF PInv
  <1>0. HealthThread \in Actors BY Zenon DEF Actors
  <1>1. /\ stage[HealthThread] = "ping" /\ dirty' = dirty
        /\ Fault /\ Drop(HealthThread) /\ Goto(HealthThread, "discard")
        /\ UNCHANGED <<idle, live, stopped, held, toCheck, closer>>
    BY Zenon DEF CheckFailed
  <1>2. TypeOK' /\ Exclusive' /\ LiveIsAccurate' BY <1>0, <1>1, Broken, Zenon
  <1>3. Clean'
    <2>1. /\ stage' = [stage EXCEPT ![HealthThread] = "discard"]
          /\ inHand' = [inHand EXCEPT ![HealthThread] = EmptyHand]
      BY <1>1, Zenon DEF Goto, Drop, Take
    <2> QED BY <1>0, <1>1, <2>1, PoolLimits, Zenon DEF Clean, TypeOK, Actors
  <1> QED BY <1>2, <1>3, Zenon

\* returnConnection of RedisConnectionPool.
LEMMA ReturnContextStep ==
  ASSUME PInv, NEW t \in Threads, ReturnContext(t)
  PROVE  PInv'
  <1> USE DEF PInv
  <1>0. PICK c \in held[t] : held' = [held EXCEPT ![t] = @ \ {c}] /\ Keep(c)
    BY Zenon DEF ReturnContext
  <1>a. ~Sanitizes /\ UNCHANGED <<stopped, dirty, stage, inHand, toCheck, closer, faults>>
    BY Zenon DEF ReturnContext
  <1>b. c \in Conns /\ c # EmptyHand /\ c \in Existing BY PoolLimits, ExistingHas DEF TypeOK
  <1>c. /\ \A u \in Threads : held'[u] = IF u = t THEN held[t] \ {c} ELSE held[u]
        /\ held' \in [Threads -> SUBSET Conns]
    BY <1>0 DEF TypeOK
  <1>d. /\ c \notin idle /\ \A u \in Threads : u # t => c \notin held[u]
        /\ \A a \in Actors : inHand[a] # c
    BY DEF Exclusive
  <1>e. Reserved' = Reserved BY <1>a, Zenon DEF Reserved
  <1>f. Clean' BY <1>a, Zenon DEF Clean
  <1>1. CASE stopped /\ Less /\ idle' = idle
    <2>1. TypeOK'
      <3>1. live' \in 0 .. PoolSize BY <1>1, PoolLimits DEF Less, TypeOK
      <3> QED BY <1>1, <1>a, <1>c, <3>1, ZenonT(60) DEF TypeOK
    <2>2. Exclusive' BY <1>1, <1>a, <1>c, ZenonT(60) DEF Exclusive
    <2>3. Existing' = Existing \ {c}
      BY <1>1, <1>a, <1>c, <1>d, ExistingHas, ExistingWillHave
    <2>4. LiveIsAccurate' BY <1>1, <1>b, <1>e, <2>3, Released, Zenon
    <2> QED BY <1>f, <2>1, <2>2, <2>4, Zenon
  <1>2. CASE ~stopped /\ idle' = idle \cup {c} /\ live' = live
    <2>1. TypeOK' BY <1>2, <1>a, <1>b, <1>c, ZenonT(60) DEF TypeOK
    <2>2. Exclusive' BY <1>2, <1>a, <1>c, <1>d DEF Exclusive
    <2>3. Existing' = Existing
      BY <1>2, <1>a, <1>b, <1>c, ExistingHas, ExistingWillHave, Zenon
    <2>4. LiveIsAccurate' BY <1>2, <1>e, <2>3, Moves, Zenon
    <2> QED BY <1>f, <2>1, <2>2, <2>4, Zenon
  <1> QED BY <1>0, <1>1, <1>2, Zenon DEF Keep

\* A step of an actor with nothing in its hands keeps every connection where it
\* is: only the slot it has reserved matters.
LEMMA Onward ==
  ASSUME PInv, NEW a \in Actors, stage[a] \notin {"sanitize", "ping"},
         NEW s \in Stages, s \notin {"sanitize", "ping"}, stage' = [stage EXCEPT ![a] = s],
         UNCHANGED <<held, dirty, inHand>>
  PROVE  /\ stage' \in [Actors -> Stages]
         /\ idle' = idle => Exclusive' /\ Existing' = Existing
         /\ Clean'
         /\ Reserved' = IF s \in {"connect", "discard"} THEN Reserved \cup {a} ELSE Reserved \ {a}
  <1> USE DEF PInv
  <1>1. /\ \A b \in Actors : stage'[b] = IF b = a THEN s ELSE stage[b]
        /\ stage' \in [Actors -> Stages]
    BY Zenon DEF TypeOK
  <1>2. idle' = idle => Exclusive' BY <1>1, Zenon DEF Exclusive
  <1>3. Clean' BY <1>1, ZenonT(60) DEF Clean, Actors
  <1>4. idle' = idle => Existing' = Existing BY Zenon DEF Existing, InHand
  <1>5. Reserved' = IF s \in {"connect", "discard"} THEN Reserved \cup {a} ELSE Reserved \ {a}
    BY <1>1, Zenon DEF Reserved
  <1> QED BY <1>1, <1>2, <1>3, <1>4, <1>5, Zenon

\* DiscardConnection.
LEMMA DiscardStep ==
  ASSUME PInv, NEW a \in Actors, DiscardConnection(a)
  PROVE  PInv'
  <1> USE DEF PInv
  <1> DEFINE s == IF a = HealthThread THEN "check" ELSE "create"
  <1>1. /\ stage[a] = "discard" /\ Less /\ stage' = [stage EXCEPT ![a] = s]
        /\ UNCHANGED <<idle, stopped, held, dirty, inHand, toCheck, closer, faults>>
    BY Zenon DEF DiscardConnection, Goto
  <1>2. s \in Stages /\ s \notin {"sanitize", "ping", "connect", "discard"} BY Zenon DEF Stages
  <1> HIDE DEF s
  <1>3. /\ stage' \in [Actors -> Stages] /\ Exclusive' /\ Existing' = Existing /\ Clean'
        /\ Reserved' = Reserved \ {a}
    BY <1>1, <1>2, Onward, Zenon
  <1>4. a \in Reserved BY <1>1, Zenon DEF Reserved
  <1>5. live > 0 /\ (live' = live - 1 => LiveIsAccurate') BY <1>3, <1>4, GivenUp, Zenon
  <1>6. live' = live - 1 /\ live' \in 0 .. PoolSize
    BY <1>1, <1>5, PoolLimits DEF Less, TypeOK
  <1>7. TypeOK' BY <1>1, <1>3, <1>6, Zenon DEF TypeOK
  <1> QED BY <1>3, <1>5, <1>6, <1>7, Zenon

\* The first critical section of CreateOneConnection: the pool never gets more
\* slots than its size.
LEMMA ReserveStep ==
  ASSUME PInv, NEW a \in Actors, Reserve(a)
  PROVE  PInv'
  <1> USE DEF PInv
  <1>0. /\ stage[a] = "create"
        /\ UNCHANGED <<idle, stopped, held, dirty, inHand, toCheck, closer, faults>>
    BY Zenon DEF Reserve
  <1>1. CASE stage' = [stage EXCEPT ![a] = Failed(a)] /\ live' = live
    <2>1. Failed(a) \in Stages /\ Failed(a) \notin {"sanitize", "ping", "connect", "discard"}
      BY Zenon DEF Failed, Stages
    <2>2. /\ stage' \in [Actors -> Stages] /\ Exclusive' /\ Existing' = Existing /\ Clean'
          /\ Reserved' = Reserved \ {a}
      BY <1>0, <1>1, <2>1, Onward, Zenon
    <2>3. Reserved' = Reserved BY <1>0, <2>2, Zenon DEF Reserved
    <2>4. LiveIsAccurate' BY <1>1, <2>2, <2>3, Moves, Zenon
    <2>5. TypeOK' BY <1>0, <1>1, <2>2, Zenon DEF TypeOK
    <2> QED BY <2>2, <2>4, <2>5, Zenon
  <1>2. CASE live < PoolSize /\ live' = live + 1 /\ stage' = [stage EXCEPT ![a] = "connect"]
    <2>1. "connect" \in Stages BY Zenon DEF Stages
    <2>2. /\ stage' \in [Actors -> Stages] /\ Exclusive' /\ Existing' = Existing /\ Clean'
          /\ Reserved' = Reserved \cup {a}
      BY <1>0, <1>2, <2>1, Onward, Zenon
    <2>3. a \notin Reserved BY <1>0, Zenon DEF Reserved
    <2>4. LiveIsAccurate' BY <1>2, <2>2, <2>3, Claimed, Zenon
    <2>5. live' \in 0 .. PoolSize BY <1>2, PoolLimits DEF TypeOK
    <2>6. TypeOK' BY <1>0, <2>2, <2>5, Zenon DEF TypeOK
    <2> QED BY <2>2, <2>4, <2>6, Zenon
  <1> QED BY <1>1, <1>2, Zenon DEF Reserve, Goto

\* A slot whose connection does not come about: connecting failed, or the pool
\* has stopped meanwhile.
LEMMA SlotLost ==
  ASSUME PInv, NEW a \in Actors, stage[a] = "connect", stage' = [stage EXCEPT ![a] = Failed(a)],
         live' = live - 1, faults' \in 0 .. MaxFaults,
         UNCHANGED <<idle, stopped, held, dirty, inHand, toCheck, closer>>
  PROVE  PInv'
  <1> USE DEF PInv
  <1>1. Failed(a) \in Stages /\ Failed(a) \notin {"sanitize", "ping", "connect", "discard"}
    BY Zenon DEF Failed, Stages
  <1>2. /\ stage' \in [Actors -> Stages] /\ Exclusive' /\ Existing' = Existing /\ Clean'
        /\ Reserved' = Reserved \ {a}
    BY <1>1, Onward, Zenon
  <1>3. a \in Reserved BY Zenon DEF Reserved
  <1>4. live > 0 /\ LiveIsAccurate' BY <1>2, <1>3, GivenUp, Zenon
  <1>5. live' \in 0 .. PoolSize BY <1>4, PoolLimits DEF TypeOK
  <1>6. TypeOK' BY <1>2, <1>5, Zenon DEF TypeOK
  <1> QED BY <1>2, <1>4, <1>6, Zenon

\* The factory threw or returned nothing.
LEMMA ConnectFailsStep ==
  ASSUME PInv, NEW a \in Actors, ConnectFails(a)
  PROVE  PInv'
  <1>1. faults' \in 0 .. MaxFaults BY PoolLimits DEF ConnectFails, Fault, PInv, TypeOK
  <1> QED BY <1>1, SlotLost, Zenon DEF ConnectFails, Goto

\* The second critical section of CreateOneConnection.
LEMMA ConnectedStep ==
  ASSUME PInv, NEW a \in Actors, Connected(a)
  PROVE  PInv'
  <1> USE DEF PInv
  <1>0. /\ stage[a] = "connect"
        /\ UNCHANGED <<stopped, held, dirty, inHand, toCheck, closer, faults>>
    BY Zenon DEF Connected
  <1>1. CASE live' = live - 1 /\ Goto(a, Failed(a)) /\ idle' = idle
    BY <1>0, <1>1, SlotLost, Zenon DEF Goto, TypeOK
  <1>2. CASE /\ \E c \in Conns \ Existing : idle' = idle \cup {c}
             /\ Goto(a, IF a = HealthThread THEN "create" ELSE "run") /\ live' = live
    <2> DEFINE s == IF a = HealthThread THEN "create" ELSE "run"
    <2>0. s \in Stages /\ s \notin {"sanitize", "ping", "connect", "discard"} BY Zenon DEF Stages
    <2>1. stage' = [stage EXCEPT ![a] = s] BY <1>2, Zenon DEF Goto
    <2> HIDE DEF s
    <2>2. PICK c \in Conns \ Existing : idle' = idle \cup {c} BY <1>2, Zenon
    <2>3. stage' \in [Actors -> Stages] /\ Clean' /\ Reserved' = Reserved \ {a}
      BY <1>0, <2>0, <2>1, Onward, Zenon
    <2>4. a \in Reserved BY <1>0, Zenon DEF Reserved
    <2>5. Existing' = Existing \cup {c}
      BY <1>0, <2>2, ExistingHas, ExistingWillHave, Zenon
    <2>6. LiveIsAccurate' BY <1>2, <2>2, <2>3, <2>4, <2>5, Made, Zenon
    <2>7. TypeOK' BY <1>0, <1>2, <2>2, <2>3, Zenon DEF TypeOK
    <2>8. Exclusive'
      <3>1. \A b \in Actors : stage'[b] = IF b = a THEN s ELSE stage[b] BY <2>1, Zenon DEF TypeOK
      <3>2. c # EmptyHand /\ (\A t \in Threads : c \notin held[t]) /\ (\A b \in Actors : c # inHand[b])
        BY <2>2, ExistingHas, PoolLimits, Zenon
      <3> QED BY <1>0, <2>0, <2>2, <3>1, <3>2, ZenonT(60) DEF Exclusive
    <2> QED BY <2>3, <2>6, <2>7, <2>8, Zenon
  <1> QED BY <1>1, <1>2, Zenon DEF Connected

\* The worker begins a round or, when the pool has stopped, ends.
LEMMA WakeStep ==
  ASSUME PInv, Wake
  PROVE  PInv'
  <1> USE DEF PInv
  <1>0. HealthThread \in Actors BY Zenon DEF Actors
  <1>1. PICK s \in {"done", "check"} : stage' = [stage EXCEPT ![HealthThread] = s]
    BY Zenon DEF Wake, Goto
  <1>2. /\ stage[HealthThread] = "sleep" /\ (toCheck' = toCheck \/ toCheck' = Cardinality(idle))
        /\ UNCHANGED <<idle, live, stopped, held, dirty, inHand, closer, faults>>
    BY Zenon DEF Wake
  <1>3. s \in Stages /\ s \notin {"sanitize", "ping", "connect", "discard"} BY <1>1, Zenon DEF Stages
  <1>4. /\ stage' \in [Actors -> Stages] /\ Exclusive' /\ Existing' = Existing /\ Clean'
        /\ Reserved' = Reserved \ {HealthThread}
    BY <1>0, <1>1, <1>2, <1>3, Onward, Zenon
  <1>5. Reserved' = Reserved BY <1>2, <1>4, Zenon DEF Reserved
  <1>6. toCheck' \in 0 .. PoolSize
    BY <1>2, CountedIsFinite, PoolLimits DEF LiveIsAccurate, TypeOK
  <1>7. TypeOK' BY <1>2, <1>4, <1>6, Zenon DEF TypeOK
  <1>8. LiveIsAccurate' BY <1>2, <1>4, <1>5, Moves, Zenon
  <1> QED BY <1>4, <1>7, <1>8, Zenon

\* The worker takes an idle connection to check it, or goes on to replenish.
LEMMA CheckNextStep ==
  ASSUME PInv, CheckNext
  PROVE  PInv'
  <1> USE DEF PInv
  <1> DEFINE h == HealthThread
  <1>0. h \in Actors BY Zenon DEF Actors
  <1>a. stage[h] = "check" /\ UNCHANGED <<live, stopped, held, dirty, closer, faults>>
    BY Zenon DEF CheckNext
  <1>1. CASE /\ \E c \in idle : idle' = idle \ {c} /\ Take(h, c)
             /\ toCheck > 0 /\ toCheck' = toCheck - 1 /\ Goto(h, "ping")
    <2>1. PICK c \in idle : idle' = idle \ {c} /\ inHand' = [inHand EXCEPT ![h] = c]
      BY <1>1, Zenon DEF Take
    <2>2. c \in Conns /\ c # EmptyHand /\ inHand[h] = EmptyHand
      BY <1>0, <1>a, PoolLimits, Zenon DEF TypeOK, Exclusive
    <2>3. /\ \A b \in Actors : inHand'[b] = IF b = h THEN c ELSE inHand[b]
          /\ \A b \in Actors : stage'[b] = IF b = h THEN "ping" ELSE stage[b]
          /\ inHand' \in [Actors -> Conns \cup {EmptyHand}] /\ stage' \in [Actors -> Stages]
      BY <1>0, <1>1, <2>1, <2>2, Zenon DEF TypeOK, Stages, Goto
    <2>4. TypeOK'
      <3>1. toCheck' \in 0 .. PoolSize BY <1>1, PoolLimits, SMTT(60) DEF TypeOK
      <3> QED BY <1>a, <2>1, <2>3, <3>1, Zenon DEF TypeOK
    <2>5. Exclusive' BY <1>a, <2>1, <2>2, <2>3, SMTT(60) DEF Exclusive
    <2>6. Clean' BY <1>a, <2>3, PoolLimits DEF Clean, Actors
    <2>7. Existing' = Existing BY <1>0, <1>a, <2>1, <2>2, <2>3, ExistingHas, ExistingWillHave, ZenonT(60)
    <2>8. Reserved' = Reserved BY <1>a, <2>3, Zenon DEF Reserved
    <2>9. LiveIsAccurate' BY <1>a, <2>7, <2>8, Moves, Zenon
    <2> QED BY <2>4, <2>5, <2>6, <2>9, Zenon
  <1>2. CASE stage' = [stage EXCEPT ![h] = "create"] /\ UNCHANGED <<idle, inHand, toCheck>>
    <2>1. "create" \in Stages BY Zenon DEF Stages
    <2>2. /\ stage' \in [Actors -> Stages] /\ Exclusive' /\ Existing' = Existing /\ Clean'
          /\ Reserved' = Reserved \ {h}
      BY <1>0, <1>a, <1>2, <2>1, Onward, ZenonT(60)
    <2>3. Reserved' = Reserved BY <1>a, <2>2, Zenon DEF Reserved
    <2>4. LiveIsAccurate' BY <1>a, <2>2, <2>3, Moves, Zenon
    <2>5. TypeOK' BY <1>a, <1>2, <2>2, Zenon DEF TypeOK
    <2> QED BY <2>2, <2>4, <2>5, Zenon
  <1> QED BY <1>1, <1>2, Zenon DEF CheckNext, Goto

\* Close raises the flag and, once the worker has ended, frees what is idle.
LEMMA CloseSteps ==
  ASSUME PInv, Stop \/ ClearConnections
  PROVE  PInv'
  <1> USE DEF PInv
  <1>1. CASE Stop
    <2>1. /\ UNCHANGED <<idle, live, held, dirty, stage, inHand, toCheck, faults>>
          /\ stopped' = TRUE /\ closer' = "joining"
      BY <1>1, Zenon DEF Stop
    <2>2. TypeOK' BY <2>1, Zenon DEF TypeOK
    <2>3. Exclusive' /\ Clean' BY <2>1, Zenon DEF Exclusive, Clean
    <2>4. Existing' = Existing /\ Reserved' = Reserved BY <2>1, Zenon DEF Existing, InHand, Reserved
    <2> QED BY <2>1, <2>2, <2>3, <2>4, Moves, Zenon
  <1>2. CASE ClearConnections
    <2>1. /\ UNCHANGED <<stopped, held, dirty, stage, inHand, toCheck, faults>>
          /\ closer' = "closed" /\ idle' = {} /\ live' = live - Cardinality(idle)
      BY <1>2, Zenon DEF ClearConnections
    <2>2. live' \in 0 .. PoolSize
      BY <2>1, CountedIsFinite, PoolLimits DEF LiveIsAccurate, TypeOK
    <2>3. TypeOK' BY <2>1, <2>2, Zenon DEF TypeOK
    <2>4. Exclusive' /\ Clean' BY <2>1, Zenon DEF Exclusive, Clean
    <2>5. Existing' = Existing \ idle
      <3>1. /\ \A t \in Threads : held'[t] = held[t] /\ held[t] \cap idle = {}
            /\ \A a \in Actors : inHand'[a] = inHand[a] /\ inHand[a] \notin idle
        BY <2>1, Zenon DEF Exclusive
      <3> QED BY <2>1, <3>1, ExistingHas, ExistingWillHave, Zenon
    <2>6. Reserved' = Reserved BY <2>1, Zenon DEF Reserved
    <2>7. LiveIsAccurate' BY <2>1, <2>5, <2>6, Freed, Zenon
    <2> QED BY <2>3, <2>4, <2>7, Zenon
  <1> QED BY <1>1, <1>2, Zenon

-----------------------------------------------------------------------------
\* The counter, the places of the connections and their transactions are an
\* inductive invariant of the pool.
LEMMA PoolKept ==
  ASSUME PInv, [Next]_vars
  PROVE  PInv'
  <1>1. CASE \E t \in Threads : Thread(t)
    BY <1>1, StageSteps, BorrowStep, TransactStep, ReturnStep, SanitizedStep, SanitizeFailsStep,
       ReturnContextStep, ZenonT(60) DEF Thread
  <1>2. CASE \E a \in Actors : Create(a)
    BY <1>2, DiscardStep, ReserveStep, ConnectedStep, ConnectFailsStep, ZenonT(60) DEF Create
  <1>3. CASE Health
    BY <1>3, WakeStep, CheckNextStep, CheckPassedStep, CheckFailedStep, Zenon DEF Health
  <1>4. CASE Stop \/ ClearConnections BY <1>4, CloseSteps, Zenon
  <1>5. CASE UNCHANGED vars
    <2>1. TypeOK' BY <1>5, Zenon DEF vars, PInv, TypeOK
    <2>2. Exclusive' /\ Clean' BY <1>5, Zenon DEF vars, PInv, Exclusive, Clean
    <2>3. LiveIsAccurate' BY <1>5, Zenon DEF vars, PInv, LiveIsAccurate, Existing, InHand, Reserved
    <2> QED BY <2>1, <2>2, <2>3, Zenon DEF PInv
  <1> QED BY <1>1, <1>2, <1>3, <1>4, <1>5, Zenon DEF Next

\* Every state of the pool satisfies the inductive invariant.
LEMMA PoolAlways == Spec => []PInv
  BY Starts, PoolKept, PTL DEF Spec

\* live_connections_ counts exactly what exists and what is reserved, however
\* borrowing, returning, checking, replacing and closing interleave: the guard
\* in DiscardConnection against a counter of zero is never needed.
THEOREM CounterIsAccurate == Spec => []LiveIsAccurate
  <1>1. PInv => LiveIsAccurate BY Zenon DEF PInv
  <1> QED BY <1>1, PoolAlways, PTL

\* No two threads ever hold the same connection, and none is freed while it is
\* in use.
THEOREM ConnectionsExclusive == Spec => []Exclusive
  <1>1. PInv => Exclusive BY Zenon DEF PInv
  <1> QED BY <1>1, PoolAlways, PTL

\* The pool never has more connections than its size, and an idle one has no
\* open transaction: the next borrower does not continue another's.
THEOREM PoolBounded == Spec => [](Cardinality(Existing) <= PoolSize /\ dirty \cap idle = {})
  <1>1. ASSUME PInv PROVE Cardinality(Existing) <= PoolSize /\ dirty \cap idle = {}
    <2>1. TypeOK /\ LiveIsAccurate /\ Exclusive /\ Clean BY <1>1, Zenon DEF PInv
    <2>2. Cardinality(Existing) <= PoolSize
      BY <2>1, CountedIsFinite, PoolLimits DEF LiveIsAccurate, TypeOK
    <2>3. dirty \cap idle = {} BY <2>1 DEF Exclusive, Clean, Actors
    <2> QED BY <2>2, <2>3, Zenon
  <1> QED BY <1>1, PoolAlways, PTL

=============================================================================
