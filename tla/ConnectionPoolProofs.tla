------------------------ MODULE ConnectionPoolProofs ------------------------
(***************************************************************************)
(* Proofs about ConnectionPool, for every number of connections, cached    *)
(* channels, goroutines and faults.  IInv is inductive: one lemma for each *)
(* of its conjuncts says that a step preserves it, action by action; the   *)
(* theorems at the end follow.                                             *)
(***************************************************************************)
EXTENDS ConnectionPool, TLAPS

(* Every program point is one of PCs.                                      *)
LEMMA PCNames ==
    /\ "idle" \in PCs /\ "get" \in PCs /\ "errors" \in PCs /\ "flagged?" \in PCs
    /\ "closed?" \in PCs /\ "connect" \in PCs /\ "lock" \in PCs /\ "recheck" \in PCs
    /\ "dial" \in PCs /\ "install" \in PCs /\ "flush" \in PCs /\ "unflag" \in PCs
    /\ "pause" \in PCs /\ "paused" \in PCs /\ "use" \in PCs /\ "make" \in PCs
    /\ "flag" \in PCs /\ "put" \in PCs /\ "confirm" \in PCs /\ "usechan" \in PCs
    /\ "putchan" \in PCs
BY DEF PCs, OwnerPCs, VerifyPCs

(* What a non-nil hand holds, and the range of the next channel ID.        *)
LEMMA HandTypes ==
    ASSUME IInv, NEW t \in Thread
    PROVE  /\ pc[t] \in OwnerPCs \cup {"confirm"} => conn[t] \in Conn
           /\ pc[t] \in {"usechan", "putchan"} => chan[t] \in Chan
           /\ op[t] = "ReturnChannel" => chan[t] \in Chan
           /\ op[t] = "createCacheChannel" => created \in Chan
           /\ None \notin Conn /\ None \notin Chan
<1>1. TypeOK /\ CallAt(t) /\ HandsAt(t) /\ CreatorAt(t)
  BY DEF IInv, ThreadsOK
<1>2. conn[t] \in Conn \cup {None} /\ chan[t] \in Chan \cup {None}
  BY <1>1 DEF TypeOK
<1>3. None \notin Conn /\ None \notin Chan
  BY PoolAssumption DEF Conn, Chan
<1>4. op[t] = "createCacheChannel" => created \in Chan
  BY <1>1, PoolAssumption DEF TypeOK, CreatorAt, Initialized, Chan
<1>5. pc[t] \in OwnerPCs \cup {"confirm"} => conn[t] \in Conn
  BY <1>1, <1>2 DEF HandsAt
<1>6. pc[t] \in {"usechan", "putchan"} => chan[t] \in Chan
  BY <1>1, <1>2 DEF HandsAt, CallAt, VerifyPCs
<1>7. op[t] = "ReturnChannel" => chan[t] \in Chan
  BY <1>1, <1>2 DEF HandsAt
<1> QED BY <1>3, <1>4, <1>5, <1>6, <1>7

(* Taking the head of a queue without duplicates removes just that element. *)
LEMMA QueueTake ==
    ASSUME NEW S, NEW q \in Seq(S), q # <<>>, IsInjective(q)
    PROVE  /\ Head(q) \in S /\ Head(q) \in Range(q)
           /\ IsInjective(Tail(q))
           /\ \A x : x \in Range(Tail(q)) <=> x \in Range(q) /\ x # Head(q)
<1>1. /\ Len(q) \in Nat /\ Len(q) >= 1 /\ DOMAIN q = 1 .. Len(q)
      /\ Head(q) = q[1] /\ q[1] \in S
      /\ DOMAIN Tail(q) = 1 .. Len(q) - 1
      /\ \A i \in 1 .. Len(q) - 1 : Tail(q)[i] = q[i + 1]
  OBVIOUS
<1>2. IsInjective(Tail(q))
  BY <1>1 DEF IsInjective
<1>3. ASSUME NEW x
      PROVE  x \in Range(Tail(q)) <=> x \in Range(q) /\ x # Head(q)
  <2>1. x \in Range(Tail(q)) => x \in Range(q) /\ x # Head(q)
    BY <1>1 DEF IsInjective, Range
  <2>2. ASSUME x \in Range(q), x # Head(q)
        PROVE  x \in Range(Tail(q))
    <3>1. PICK i \in 1 .. Len(q) : q[i] = x
      BY <1>1, <2>2 DEF Range
    <3>2. i - 1 \in DOMAIN Tail(q) /\ Tail(q)[i - 1] = x
      BY <1>1, <2>2, <3>1
    <3> QED BY <3>2 DEF Range
  <2> QED BY <2>1, <2>2
<1>4. Head(q) \in Range(q)
  BY <1>1 DEF Range
<1> QED BY <1>1, <1>2, <1>3, <1>4

(* Appending an element that is not there keeps the queue duplicate-free.  *)
LEMMA QueuePut ==
    ASSUME NEW S, NEW q \in Seq(S), NEW g \in S, IsInjective(q), g \notin Range(q)
    PROVE  /\ IsInjective(Append(q, g))
           /\ \A x : x \in Range(Append(q, g)) <=> x \in Range(q) \/ x = g
<1>1. /\ Len(q) \in Nat /\ DOMAIN q = 1 .. Len(q)
      /\ DOMAIN Append(q, g) = 1 .. Len(q) + 1
      /\ \A i \in 1 .. Len(q) : Append(q, g)[i] = q[i]
      /\ Append(q, g)[Len(q) + 1] = g
  OBVIOUS
<1>2. \A i \in DOMAIN q : q[i] # g
  BY DEF Range
<1>3. IsInjective(Append(q, g))
  BY <1>1, <1>2 DEF IsInjective
<1>4. ASSUME NEW x
      PROVE  x \in Range(Append(q, g)) <=> x \in Range(q) \/ x = g
  BY <1>1 DEF Range
<1> QED BY <1>3, <1>4

-----------------------------------------------------------------------------
(* Types are preserved.                                                    *)
LEMMA TypeStep ==
    ASSUME IInv, [Next]_vars
    PROVE  TypeOK'
<1> USE PoolAssumption, PCNames
        DEF TypeOK, pool, hosts, chans, threads, Goto, Done, Lock, Unlock,
            Receive, CallFails, CallSucceeds, Calls, ConnStates, ErrStates,
            ChanStates, OwnerPCs, VerifyPCs
<1>0. TypeOK
  BY DEF IInv
<1>1. ASSUME NEW t \in Thread, CallGetConnection(t) PROVE TypeOK'
  BY <1>0, HandTypes, <1>1 DEF CallGetConnection
<1>2. ASSUME NEW t \in Thread, GetChannelFromPool(t) PROVE TypeOK'
  BY <1>0, HandTypes, <1>2 DEF GetChannelFromPool
<1>3. ASSUME NEW t \in Thread, getConnectionFromPool(t) PROVE TypeOK'
  BY <1>0, HandTypes, <1>3 DEF getConnectionFromPool
<1>4. ASSUME NEW t \in Thread, connectLock(t) PROVE TypeOK'
  BY <1>0, HandTypes, <1>4 DEF connectLock
<1>5. ASSUME NEW t \in Thread, pauseLock(t) PROVE TypeOK'
  BY <1>0, HandTypes, <1>5 DEF pauseLock
<1>6. ASSUME NEW t \in Thread, checkErrors(t) PROVE TypeOK'
  BY <1>0, HandTypes, <1>6 DEF checkErrors
<1>7. ASSUME NEW t \in Thread, isConnectionFlagged(t) PROVE TypeOK'
  BY <1>0, HandTypes, <1>7 DEF isConnectionFlagged
<1>8. ASSUME NEW t \in Thread, checkClosed(t) PROVE TypeOK'
  BY <1>0, HandTypes, <1>8 DEF checkClosed
<1>9. ASSUME NEW t \in Thread, connectCompare(t) PROVE TypeOK'
  BY <1>0, HandTypes, <1>9 DEF connectCompare
<1>10. ASSUME NEW t \in Thread, recompareClosed(t) PROVE TypeOK'
  BY <1>0, HandTypes, <1>10 DEF recompareClosed
<1>11. ASSUME NEW t \in Thread, recompareOpen(t) PROVE TypeOK'
  BY <1>0, HandTypes, <1>11 DEF recompareOpen
<1>12. ASSUME NEW t \in Thread, dialFails(t) PROVE TypeOK'
  BY <1>0, HandTypes, <1>12 DEF dialFails
<1>13. ASSUME NEW t \in Thread, dialSucceeds(t) PROVE TypeOK'
  BY <1>0, HandTypes, <1>13 DEF dialSucceeds
<1>14. ASSUME NEW t \in Thread, install(t) PROVE TypeOK'
  BY <1>0, HandTypes, <1>14 DEF install
<1>15. ASSUME NEW t \in Thread, flushErrors(t) PROVE TypeOK'
  BY <1>0, HandTypes, <1>15 DEF flushErrors
<1>16. ASSUME NEW t \in Thread, unflagConnection(t) PROVE TypeOK'
  BY <1>0, HandTypes, <1>16 DEF unflagConnection
<1>17. ASSUME NEW t \in Thread, pauseUnlock(t) PROVE TypeOK'
  BY <1>0, HandTypes, <1>17 DEF pauseUnlock
<1>18. ASSUME NEW t \in Thread, ReturnChannel(t) PROVE TypeOK'
  BY <1>0, HandTypes, <1>18 DEF ReturnChannel
<1>19. ASSUME NEW t \in Thread, ReturnErredChannel(t) PROVE TypeOK'
  BY <1>0, HandTypes, <1>19 DEF ReturnErredChannel
<1>20. ASSUME NEW t \in Thread, ReturnConnection(t) PROVE TypeOK'
  BY <1>0, HandTypes, <1>20 DEF ReturnConnection
<1>21. ASSUME NEW t \in Thread, ReturnFlagged(t) PROVE TypeOK'
  BY <1>0, HandTypes, <1>21 DEF ReturnFlagged
<1>22. ASSUME NEW t \in Thread, newChannelHost(t) PROVE TypeOK'
  BY <1>0, HandTypes, <1>22 DEF newChannelHost
<1>23. ASSUME NEW t \in Thread, openTransient(t) PROVE TypeOK'
  BY <1>0, HandTypes, <1>23 DEF openTransient
<1>24. ASSUME NEW t \in Thread, openFails(t) PROVE TypeOK'
  BY <1>0, HandTypes, <1>24 DEF openFails
<1>25. ASSUME NEW t \in Thread, confirmTransient(t) \/ returnUnconfirmed(t) PROVE TypeOK'
  <2>1. CASE confirmTransient(t)
    BY <1>0, HandTypes, <2>1 DEF confirmTransient
  <2>2. CASE returnUnconfirmed(t)
    BY <1>0, HandTypes, <2>2 DEF returnUnconfirmed
  <2> QED BY <1>25, <2>1, <2>2
<1>26. ASSUME NEW t \in Thread, confirmFails(t) PROVE TypeOK'
  BY <1>0, HandTypes, <1>26 DEF confirmFails
<1>27. ASSUME NEW t \in Thread, reconnectChannel(t) PROVE TypeOK'
  BY <1>0, HandTypes, <1>27 DEF reconnectChannel
<1>28. ASSUME NEW t \in Thread, reconnectFails(t) PROVE TypeOK'
  BY <1>0, HandTypes, <1>28 DEF reconnectFails
<1>29. ASSUME NEW t \in Thread, flagConnection(t) PROVE TypeOK'
  BY <1>0, HandTypes, <1>29 DEF flagConnection
<1>30. ASSUME NEW t \in Thread, putConnection(t) PROVE TypeOK'
  BY <1>0, HandTypes, <1>30 DEF putConnection
<1>31. ASSUME NEW t \in Thread, putAndRetry(t) PROVE TypeOK'
  BY <1>0, HandTypes, <1>31 DEF putAndRetry
<1>32. ASSUME NEW t \in Thread, putAfterCreate(t) PROVE TypeOK'
  BY <1>0, HandTypes, <1>32 DEF putAfterCreate
<1>33. ASSUME NEW t \in Thread, putAfterOpen(t) PROVE TypeOK'
  BY <1>0, HandTypes, <1>33 DEF putAfterOpen
<1>34. ASSUME NEW t \in Thread, putChannel(t) PROVE TypeOK'
  BY <1>0, HandTypes, <1>34 DEF putChannel
<1>35. ASSUME NEW t \in Thread, poolCreatedChannel(t) PROVE TypeOK'
  <2>1. chan[t] \in Chan /\ created' \in 0 .. MaxCacheChannelCount
    BY <1>0, <1>35, HandTypes DEF poolCreatedChannel, Chan
  <2> QED BY <1>0, <1>35, <2>1 DEF poolCreatedChannel
<1>36. ASSUME NEW t \in Thread, poolLastChannel(t) PROVE TypeOK'
  <2>1. chan[t] \in Chan /\ created' \in 0 .. MaxCacheChannelCount
    BY <1>0, <1>36, HandTypes DEF poolLastChannel, Chan
  <2> QED BY <1>0, <1>36, <2>1 DEF poolLastChannel
<1>37. ASSUME NEW h \in Conn, loseConnection(h) PROVE TypeOK'
  BY <1>0, HandTypes, <1>37 DEF loseConnection
<1>38. ASSUME NEW h \in Conn, notifyError(h) PROVE TypeOK'
  BY <1>0, HandTypes, <1>38 DEF notifyError
<1>39. ASSUME NEW h \in Conn, closeErrors(h) PROVE TypeOK'
  BY <1>0, HandTypes, <1>39 DEF closeErrors
<1>40. ASSUME NEW h \in Conn, shutdownUnnoticed(h) PROVE TypeOK'
  BY <1>0, HandTypes, <1>40 DEF shutdownUnnoticed
<1>41. ASSUME NEW h \in Conn, closeStaleErrors(h) PROVE TypeOK'
  BY <1>0, HandTypes, <1>41 DEF closeStaleErrors
<1>42. CASE UNCHANGED vars
  BY <1>0, HandTypes, <1>42 DEF vars
<1> QED BY <1>1, <1>2, <1>3, <1>4, <1>5, <1>6, <1>7, <1>8, <1>9, <1>10,
           <1>11, <1>12, <1>13, <1>14, <1>15, <1>16, <1>17, <1>18, <1>19,
           <1>20, <1>21, <1>22, <1>23, <1>24, <1>25, <1>26, <1>27, <1>28,
           <1>29, <1>30, <1>31, <1>32, <1>33, <1>34, <1>35, <1>36, <1>37,
           <1>38, <1>39, <1>40, <1>41, <1>42
         DEF Next, UserCall, Acquire, Verify, Return, amqpStep

(* Program points, calls and hands stay in step.                           *)
LEMMA ThreadsStep ==
    ASSUME IInv, [Next]_vars
    PROVE  ThreadsOK'
<1> USE PoolAssumption
        DEF TypeOK, ThreadsOK, CallAt, HandsAt, CreatorAt, Initialized, pool,
            hosts, chans, threads, Goto, Done, Lock, Unlock, Receive,
            CallFails, CallSucceeds, OwnerPCs, VerifyPCs
<1>0. TypeOK /\ ThreadsOK /\ ChannelsMade /\ ChannelsConserved
  BY DEF IInv
<1>1. ASSUME NEW t \in Thread, CallGetConnection(t) PROVE ThreadsOK'
  BY <1>0, HandTypes, <1>1 DEF CallGetConnection
<1>2. ASSUME NEW t \in Thread, GetChannelFromPool(t) PROVE ThreadsOK'
  <2>1. Head(channels) \in Chan /\ Cached(Head(channels))
    BY <1>0, <1>2, QueueTake DEF GetChannelFromPool, ChannelsConserved, Cached
  <2>2. Head(channels) < created /\ hostOf[Head(channels)] # None
    BY <1>0, <2>1 DEF ChannelsMade
  <2> QED BY <1>0, <1>2, <2>1, <2>2, HandTypes DEF GetChannelFromPool
<1>3. ASSUME NEW t \in Thread, getConnectionFromPool(t) PROVE ThreadsOK'
  BY <1>0, HandTypes, <1>3 DEF getConnectionFromPool
<1>4. ASSUME NEW t \in Thread, connectLock(t) PROVE ThreadsOK'
  BY <1>0, HandTypes, <1>4 DEF connectLock
<1>5. ASSUME NEW t \in Thread, pauseLock(t) PROVE ThreadsOK'
  BY <1>0, HandTypes, <1>5 DEF pauseLock
<1>6. ASSUME NEW t \in Thread, checkErrors(t) PROVE ThreadsOK'
  BY <1>0, HandTypes, <1>6 DEF checkErrors
<1>7. ASSUME NEW t \in Thread, isConnectionFlagged(t) PROVE ThreadsOK'
  BY <1>0, HandTypes, <1>7 DEF isConnectionFlagged
<1>8. ASSUME NEW t \in Thread, checkClosed(t) PROVE ThreadsOK'
  BY <1>0, HandTypes, <1>8 DEF checkClosed
<1>9. ASSUME NEW t \in Thread, connectCompare(t) PROVE ThreadsOK'
  BY <1>0, HandTypes, <1>9 DEF connectCompare
<1>10. ASSUME NEW t \in Thread, recompareClosed(t) PROVE ThreadsOK'
  BY <1>0, HandTypes, <1>10 DEF recompareClosed
<1>11. ASSUME NEW t \in Thread, recompareOpen(t) PROVE ThreadsOK'
  BY <1>0, HandTypes, <1>11 DEF recompareOpen
<1>12. ASSUME NEW t \in Thread, dialFails(t) PROVE ThreadsOK'
  BY <1>0, HandTypes, <1>12 DEF dialFails
<1>13. ASSUME NEW t \in Thread, dialSucceeds(t) PROVE ThreadsOK'
  BY <1>0, HandTypes, <1>13 DEF dialSucceeds
<1>14. ASSUME NEW t \in Thread, install(t) PROVE ThreadsOK'
  BY <1>0, HandTypes, <1>14 DEF install
<1>15. ASSUME NEW t \in Thread, flushErrors(t) PROVE ThreadsOK'
  BY <1>0, HandTypes, <1>15 DEF flushErrors
<1>16. ASSUME NEW t \in Thread, unflagConnection(t) PROVE ThreadsOK'
  BY <1>0, HandTypes, <1>16 DEF unflagConnection
<1>17. ASSUME NEW t \in Thread, pauseUnlock(t) PROVE ThreadsOK'
  BY <1>0, HandTypes, <1>17 DEF pauseUnlock
<1>18. ASSUME NEW t \in Thread, ReturnChannel(t) PROVE ThreadsOK'
  BY <1>0, HandTypes, <1>18 DEF ReturnChannel
<1>19. ASSUME NEW t \in Thread, ReturnErredChannel(t) PROVE ThreadsOK'
  BY <1>0, HandTypes, <1>19 DEF ReturnErredChannel
<1>20. ASSUME NEW t \in Thread, ReturnConnection(t) PROVE ThreadsOK'
  BY <1>0, HandTypes, <1>20 DEF ReturnConnection
<1>21. ASSUME NEW t \in Thread, ReturnFlagged(t) PROVE ThreadsOK'
  BY <1>0, HandTypes, <1>21 DEF ReturnFlagged
<1>22. ASSUME NEW t \in Thread, newChannelHost(t) PROVE ThreadsOK'
  <2>1. conn[t] \in Conn /\ created \in Chan /\ t = Main /\ ~Initialized
    BY <1>0, <1>22, HandTypes DEF newChannelHost
  <2>2. hostOf'[created] = conn[t] /\ \A c \in Chan : c # created => hostOf'[c] = hostOf[c]
    BY <1>0, <1>22, <2>1 DEF newChannelHost
  <2>3. ASSUME NEW u \in Thread PROVE CallAt(u)' /\ HandsAt(u)'
    <3>1. CASE u = t
      BY <1>0, <1>22, <2>1, <3>1, HandTypes DEF newChannelHost
    <3>2. CASE u # t
      BY <1>0, <1>22, <3>2 DEF newChannelHost
    <3> QED BY <3>1, <3>2
  <2>4. CreatorAt(t)'
    BY <1>0, <1>22, <2>1, <2>2, HandTypes DEF newChannelHost
  <2>5. ASSUME NEW u \in Thread, u # t PROVE CreatorAt(u)'
    <3>1. op[u] = "none" /\ chan[u] = None
      BY <1>0, <2>1, <2>5
    <3> QED BY <1>0, <1>22, <3>1 DEF newChannelHost
  <2> QED BY <2>3, <2>4, <2>5
<1>23. ASSUME NEW t \in Thread, openTransient(t) PROVE ThreadsOK'
  BY <1>0, HandTypes, <1>23 DEF openTransient
<1>24. ASSUME NEW t \in Thread, openFails(t) PROVE ThreadsOK'
  BY <1>0, HandTypes, <1>24 DEF openFails
<1>25. ASSUME NEW t \in Thread, confirmTransient(t) \/ returnUnconfirmed(t) PROVE ThreadsOK'
  <2>1. CASE confirmTransient(t)
    BY <1>0, HandTypes, <2>1 DEF confirmTransient
  <2>2. CASE returnUnconfirmed(t)
    BY <1>0, HandTypes, <2>2 DEF returnUnconfirmed
  <2> QED BY <1>25, <2>1, <2>2
<1>26. ASSUME NEW t \in Thread, confirmFails(t) PROVE ThreadsOK'
  BY <1>0, HandTypes, <1>26 DEF confirmFails
<1>27. ASSUME NEW t \in Thread, reconnectChannel(t) PROVE ThreadsOK'
  BY <1>0, HandTypes, <1>27 DEF reconnectChannel
<1>28. ASSUME NEW t \in Thread, reconnectFails(t) PROVE ThreadsOK'
  BY <1>0, HandTypes, <1>28 DEF reconnectFails
<1>29. ASSUME NEW t \in Thread, flagConnection(t) PROVE ThreadsOK'
  BY <1>0, HandTypes, <1>29 DEF flagConnection
<1>30. ASSUME NEW t \in Thread, putConnection(t) PROVE ThreadsOK'
  BY <1>0, HandTypes, <1>30 DEF putConnection
<1>31. ASSUME NEW t \in Thread, putAndRetry(t) PROVE ThreadsOK'
  BY <1>0, HandTypes, <1>31 DEF putAndRetry
<1>32. ASSUME NEW t \in Thread, putAfterCreate(t) PROVE ThreadsOK'
  BY <1>0, HandTypes, <1>32 DEF putAfterCreate
<1>33. ASSUME NEW t \in Thread, putAfterOpen(t) PROVE ThreadsOK'
  BY <1>0, HandTypes, <1>33 DEF putAfterOpen
<1>34. ASSUME NEW t \in Thread, putChannel(t) PROVE ThreadsOK'
  BY <1>0, HandTypes, <1>34 DEF putChannel
<1>35. ASSUME NEW t \in Thread, poolCreatedChannel(t) PROVE ThreadsOK'
  BY <1>0, HandTypes, <1>35 DEF poolCreatedChannel
<1>36. ASSUME NEW t \in Thread, poolLastChannel(t) PROVE ThreadsOK'
  BY <1>0, HandTypes, <1>36 DEF poolLastChannel
<1>37. ASSUME NEW h \in Conn, loseConnection(h) PROVE ThreadsOK'
  BY <1>0, HandTypes, <1>37 DEF loseConnection
<1>38. ASSUME NEW h \in Conn, notifyError(h) PROVE ThreadsOK'
  BY <1>0, HandTypes, <1>38 DEF notifyError
<1>39. ASSUME NEW h \in Conn, closeErrors(h) PROVE ThreadsOK'
  BY <1>0, HandTypes, <1>39 DEF closeErrors
<1>40. ASSUME NEW h \in Conn, shutdownUnnoticed(h) PROVE ThreadsOK'
  BY <1>0, HandTypes, <1>40 DEF shutdownUnnoticed
<1>41. ASSUME NEW h \in Conn, closeStaleErrors(h) PROVE ThreadsOK'
  BY <1>0, HandTypes, <1>41 DEF closeStaleErrors
<1>42. CASE UNCHANGED vars
  BY <1>0, HandTypes, <1>42 DEF vars
<1> QED BY <1>1, <1>2, <1>3, <1>4, <1>5, <1>6, <1>7, <1>8, <1>9, <1>10,
           <1>11, <1>12, <1>13, <1>14, <1>15, <1>16, <1>17, <1>18, <1>19,
           <1>20, <1>21, <1>22, <1>23, <1>24, <1>25, <1>26, <1>27, <1>28,
           <1>29, <1>30, <1>31, <1>32, <1>33, <1>34, <1>35, <1>36, <1>37,
           <1>38, <1>39, <1>40, <1>41, <1>42
         DEF Next, UserCall, Acquire, Verify, Return, amqpStep

(* connLock excludes: it is held exactly between Lock and Unlock.          *)
LEMMA LockStep ==
    ASSUME IInv, [Next]_vars
    PROVE  LockHeld'
<1> USE PoolAssumption
        DEF TypeOK, ThreadsOK, CallAt, HandsAt, LockHeld, pool, hosts, chans,
            threads, Goto, Done, Lock, Unlock, Receive, CallFails,
            CallSucceeds, OwnerPCs, VerifyPCs, LockedPCs
<1>0. TypeOK /\ ThreadsOK /\ LockHeld
  BY DEF IInv
<1>1. ASSUME NEW t \in Thread, CallGetConnection(t) PROVE LockHeld'
  BY <1>0, HandTypes, <1>1 DEF CallGetConnection
<1>2. ASSUME NEW t \in Thread, GetChannelFromPool(t) PROVE LockHeld'
  BY <1>0, HandTypes, <1>2 DEF GetChannelFromPool
<1>3. ASSUME NEW t \in Thread, getConnectionFromPool(t) PROVE LockHeld'
  BY <1>0, HandTypes, <1>3 DEF getConnectionFromPool
<1>4. ASSUME NEW t \in Thread, connectLock(t) PROVE LockHeld'
  BY <1>0, HandTypes, <1>4 DEF connectLock
<1>5. ASSUME NEW t \in Thread, pauseLock(t) PROVE LockHeld'
  BY <1>0, HandTypes, <1>5 DEF pauseLock
<1>6. ASSUME NEW t \in Thread, checkErrors(t) PROVE LockHeld'
  BY <1>0, HandTypes, <1>6 DEF checkErrors
<1>7. ASSUME NEW t \in Thread, isConnectionFlagged(t) PROVE LockHeld'
  BY <1>0, HandTypes, <1>7 DEF isConnectionFlagged
<1>8. ASSUME NEW t \in Thread, checkClosed(t) PROVE LockHeld'
  BY <1>0, HandTypes, <1>8 DEF checkClosed
<1>9. ASSUME NEW t \in Thread, connectCompare(t) PROVE LockHeld'
  BY <1>0, HandTypes, <1>9 DEF connectCompare
<1>10. ASSUME NEW t \in Thread, recompareClosed(t) PROVE LockHeld'
  BY <1>0, HandTypes, <1>10 DEF recompareClosed
<1>11. ASSUME NEW t \in Thread, recompareOpen(t) PROVE LockHeld'
  BY <1>0, HandTypes, <1>11 DEF recompareOpen
<1>12. ASSUME NEW t \in Thread, dialFails(t) PROVE LockHeld'
  BY <1>0, HandTypes, <1>12 DEF dialFails
<1>13. ASSUME NEW t \in Thread, dialSucceeds(t) PROVE LockHeld'
  BY <1>0, HandTypes, <1>13 DEF dialSucceeds
<1>14. ASSUME NEW t \in Thread, install(t) PROVE LockHeld'
  BY <1>0, HandTypes, <1>14 DEF install
<1>15. ASSUME NEW t \in Thread, flushErrors(t) PROVE LockHeld'
  BY <1>0, HandTypes, <1>15 DEF flushErrors
<1>16. ASSUME NEW t \in Thread, unflagConnection(t) PROVE LockHeld'
  BY <1>0, HandTypes, <1>16 DEF unflagConnection
<1>17. ASSUME NEW t \in Thread, pauseUnlock(t) PROVE LockHeld'
  BY <1>0, HandTypes, <1>17 DEF pauseUnlock
<1>18. ASSUME NEW t \in Thread, ReturnChannel(t) PROVE LockHeld'
  BY <1>0, HandTypes, <1>18 DEF ReturnChannel
<1>19. ASSUME NEW t \in Thread, ReturnErredChannel(t) PROVE LockHeld'
  BY <1>0, HandTypes, <1>19 DEF ReturnErredChannel
<1>20. ASSUME NEW t \in Thread, ReturnConnection(t) PROVE LockHeld'
  BY <1>0, HandTypes, <1>20 DEF ReturnConnection
<1>21. ASSUME NEW t \in Thread, ReturnFlagged(t) PROVE LockHeld'
  BY <1>0, HandTypes, <1>21 DEF ReturnFlagged
<1>22. ASSUME NEW t \in Thread, newChannelHost(t) PROVE LockHeld'
  BY <1>0, HandTypes, <1>22 DEF newChannelHost
<1>23. ASSUME NEW t \in Thread, openTransient(t) PROVE LockHeld'
  BY <1>0, HandTypes, <1>23 DEF openTransient
<1>24. ASSUME NEW t \in Thread, openFails(t) PROVE LockHeld'
  BY <1>0, HandTypes, <1>24 DEF openFails
<1>25. ASSUME NEW t \in Thread, confirmTransient(t) \/ returnUnconfirmed(t) PROVE LockHeld'
  <2>1. CASE confirmTransient(t)
    BY <1>0, HandTypes, <2>1 DEF confirmTransient
  <2>2. CASE returnUnconfirmed(t)
    BY <1>0, HandTypes, <2>2 DEF returnUnconfirmed
  <2> QED BY <1>25, <2>1, <2>2
<1>26. ASSUME NEW t \in Thread, confirmFails(t) PROVE LockHeld'
  BY <1>0, HandTypes, <1>26 DEF confirmFails
<1>27. ASSUME NEW t \in Thread, reconnectChannel(t) PROVE LockHeld'
  BY <1>0, HandTypes, <1>27 DEF reconnectChannel
<1>28. ASSUME NEW t \in Thread, reconnectFails(t) PROVE LockHeld'
  BY <1>0, HandTypes, <1>28 DEF reconnectFails
<1>29. ASSUME NEW t \in Thread, flagConnection(t) PROVE LockHeld'
  BY <1>0, HandTypes, <1>29 DEF flagConnection
<1>30. ASSUME NEW t \in Thread, putConnection(t) PROVE LockHeld'
  BY <1>0, HandTypes, <1>30 DEF putConnection
<1>31. ASSUME NEW t \in Thread, putAndRetry(t) PROVE LockHeld'
  BY <1>0, HandTypes, <1>31 DEF putAndRetry
<1>32. ASSUME NEW t \in Thread, putAfterCreate(t) PROVE LockHeld'
  BY <1>0, HandTypes, <1>32 DEF putAfterCreate
<1>33. ASSUME NEW t \in Thread, putAfterOpen(t) PROVE LockHeld'
  BY <1>0, HandTypes, <1>33 DEF putAfterOpen
<1>34. ASSUME NEW t \in Thread, putChannel(t) PROVE LockHeld'
  BY <1>0, HandTypes, <1>34 DEF putChannel
<1>35. ASSUME NEW t \in Thread, poolCreatedChannel(t) PROVE LockHeld'
  BY <1>0, HandTypes, <1>35 DEF poolCreatedChannel
<1>36. ASSUME NEW t \in Thread, poolLastChannel(t) PROVE LockHeld'
  BY <1>0, HandTypes, <1>36 DEF poolLastChannel
<1>37. ASSUME NEW h \in Conn, loseConnection(h) PROVE LockHeld'
  BY <1>0, HandTypes, <1>37 DEF loseConnection
<1>38. ASSUME NEW h \in Conn, notifyError(h) PROVE LockHeld'
  BY <1>0, HandTypes, <1>38 DEF notifyError
<1>39. ASSUME NEW h \in Conn, closeErrors(h) PROVE LockHeld'
  BY <1>0, HandTypes, <1>39 DEF closeErrors
<1>40. ASSUME NEW h \in Conn, shutdownUnnoticed(h) PROVE LockHeld'
  BY <1>0, HandTypes, <1>40 DEF shutdownUnnoticed
<1>41. ASSUME NEW h \in Conn, closeStaleErrors(h) PROVE LockHeld'
  BY <1>0, HandTypes, <1>41 DEF closeStaleErrors
<1>42. CASE UNCHANGED vars
  BY <1>0, HandTypes, <1>42 DEF vars
<1> QED BY <1>1, <1>2, <1>3, <1>4, <1>5, <1>6, <1>7, <1>8, <1>9, <1>10,
           <1>11, <1>12, <1>13, <1>14, <1>15, <1>16, <1>17, <1>18, <1>19,
           <1>20, <1>21, <1>22, <1>23, <1>24, <1>25, <1>26, <1>27, <1>28,
           <1>29, <1>30, <1>31, <1>32, <1>33, <1>34, <1>35, <1>36, <1>37,
           <1>38, <1>39, <1>40, <1>41, <1>42
         DEF Next, UserCall, Acquire, Verify, Return, amqpStep

(* Only the holder of connLock opens a connection, so it stays closed.     *)
LEMMA DialStep ==
    ASSUME IInv, [Next]_vars
    PROVE  DialOnlyWhenClosed'
<1> USE PoolAssumption
        DEF TypeOK, DialOnlyWhenClosed, LockHeld, IsClosed, pool, hosts,
            chans, threads, Goto, Done, Lock, Unlock, Receive, CallFails,
            CallSucceeds, OwnerPCs, VerifyPCs, LockedPCs
<1>0. TypeOK /\ LockHeld /\ DialOnlyWhenClosed
  BY DEF IInv
<1>1. ASSUME NEW t \in Thread, CallGetConnection(t) PROVE DialOnlyWhenClosed'
  BY <1>0, HandTypes, <1>1 DEF CallGetConnection
<1>2. ASSUME NEW t \in Thread, GetChannelFromPool(t) PROVE DialOnlyWhenClosed'
  BY <1>0, HandTypes, <1>2 DEF GetChannelFromPool
<1>3. ASSUME NEW t \in Thread, getConnectionFromPool(t) PROVE DialOnlyWhenClosed'
  BY <1>0, HandTypes, <1>3 DEF getConnectionFromPool
<1>4. ASSUME NEW t \in Thread, connectLock(t) PROVE DialOnlyWhenClosed'
  BY <1>0, HandTypes, <1>4 DEF connectLock
<1>5. ASSUME NEW t \in Thread, pauseLock(t) PROVE DialOnlyWhenClosed'
  BY <1>0, HandTypes, <1>5 DEF pauseLock
<1>6. ASSUME NEW t \in Thread, checkErrors(t) PROVE DialOnlyWhenClosed'
  BY <1>0, HandTypes, <1>6 DEF checkErrors
<1>7. ASSUME NEW t \in Thread, isConnectionFlagged(t) PROVE DialOnlyWhenClosed'
  BY <1>0, HandTypes, <1>7 DEF isConnectionFlagged
<1>8. ASSUME NEW t \in Thread, checkClosed(t) PROVE DialOnlyWhenClosed'
  BY <1>0, HandTypes, <1>8 DEF checkClosed
<1>9. ASSUME NEW t \in Thread, connectCompare(t) PROVE DialOnlyWhenClosed'
  BY <1>0, HandTypes, <1>9 DEF connectCompare
<1>10. ASSUME NEW t \in Thread, recompareClosed(t) PROVE DialOnlyWhenClosed'
  BY <1>0, HandTypes, <1>10 DEF recompareClosed
<1>11. ASSUME NEW t \in Thread, recompareOpen(t) PROVE DialOnlyWhenClosed'
  BY <1>0, HandTypes, <1>11 DEF recompareOpen
<1>12. ASSUME NEW t \in Thread, dialFails(t) PROVE DialOnlyWhenClosed'
  BY <1>0, HandTypes, <1>12 DEF dialFails
<1>13. ASSUME NEW t \in Thread, dialSucceeds(t) PROVE DialOnlyWhenClosed'
  BY <1>0, HandTypes, <1>13 DEF dialSucceeds
<1>14. ASSUME NEW t \in Thread, install(t) PROVE DialOnlyWhenClosed'
  BY <1>0, HandTypes, <1>14 DEF install
<1>15. ASSUME NEW t \in Thread, flushErrors(t) PROVE DialOnlyWhenClosed'
  BY <1>0, HandTypes, <1>15 DEF flushErrors
<1>16. ASSUME NEW t \in Thread, unflagConnection(t) PROVE DialOnlyWhenClosed'
  BY <1>0, HandTypes, <1>16 DEF unflagConnection
<1>17. ASSUME NEW t \in Thread, pauseUnlock(t) PROVE DialOnlyWhenClosed'
  BY <1>0, HandTypes, <1>17 DEF pauseUnlock
<1>18. ASSUME NEW t \in Thread, ReturnChannel(t) PROVE DialOnlyWhenClosed'
  BY <1>0, HandTypes, <1>18 DEF ReturnChannel
<1>19. ASSUME NEW t \in Thread, ReturnErredChannel(t) PROVE DialOnlyWhenClosed'
  BY <1>0, HandTypes, <1>19 DEF ReturnErredChannel
<1>20. ASSUME NEW t \in Thread, ReturnConnection(t) PROVE DialOnlyWhenClosed'
  BY <1>0, HandTypes, <1>20 DEF ReturnConnection
<1>21. ASSUME NEW t \in Thread, ReturnFlagged(t) PROVE DialOnlyWhenClosed'
  BY <1>0, HandTypes, <1>21 DEF ReturnFlagged
<1>22. ASSUME NEW t \in Thread, newChannelHost(t) PROVE DialOnlyWhenClosed'
  BY <1>0, HandTypes, <1>22 DEF newChannelHost
<1>23. ASSUME NEW t \in Thread, openTransient(t) PROVE DialOnlyWhenClosed'
  BY <1>0, HandTypes, <1>23 DEF openTransient
<1>24. ASSUME NEW t \in Thread, openFails(t) PROVE DialOnlyWhenClosed'
  BY <1>0, HandTypes, <1>24 DEF openFails
<1>25. ASSUME NEW t \in Thread, confirmTransient(t) \/ returnUnconfirmed(t)
       PROVE  DialOnlyWhenClosed'
  <2>1. CASE confirmTransient(t)
    BY <1>0, HandTypes, <2>1 DEF confirmTransient
  <2>2. CASE returnUnconfirmed(t)
    BY <1>0, HandTypes, <2>2 DEF returnUnconfirmed
  <2> QED BY <1>25, <2>1, <2>2
<1>26. ASSUME NEW t \in Thread, confirmFails(t) PROVE DialOnlyWhenClosed'
  BY <1>0, HandTypes, <1>26 DEF confirmFails
<1>27. ASSUME NEW t \in Thread, reconnectChannel(t) PROVE DialOnlyWhenClosed'
  BY <1>0, HandTypes, <1>27 DEF reconnectChannel
<1>28. ASSUME NEW t \in Thread, reconnectFails(t) PROVE DialOnlyWhenClosed'
  BY <1>0, HandTypes, <1>28 DEF reconnectFails
<1>29. ASSUME NEW t \in Thread, flagConnection(t) PROVE DialOnlyWhenClosed'
  BY <1>0, HandTypes, <1>29 DEF flagConnection
<1>30. ASSUME NEW t \in Thread, putConnection(t) PROVE DialOnlyWhenClosed'
  BY <1>0, HandTypes, <1>30 DEF putConnection
<1>31. ASSUME NEW t \in Thread, putAndRetry(t) PROVE DialOnlyWhenClosed'
  BY <1>0, HandTypes, <1>31 DEF putAndRetry
<1>32. ASSUME NEW t \in Thread, putAfterCreate(t) PROVE DialOnlyWhenClosed'
  BY <1>0, HandTypes, <1>32 DEF putAfterCreate
<1>33. ASSUME NEW t \in Thread, putAfterOpen(t) PROVE DialOnlyWhenClosed'
  BY <1>0, HandTypes, <1>33 DEF putAfterOpen
<1>34. ASSUME NEW t \in Thread, putChannel(t) PROVE DialOnlyWhenClosed'
  BY <1>0, HandTypes, <1>34 DEF putChannel
<1>35. ASSUME NEW t \in Thread, poolCreatedChannel(t) PROVE DialOnlyWhenClosed'
  BY <1>0, HandTypes, <1>35 DEF poolCreatedChannel
<1>36. ASSUME NEW t \in Thread, poolLastChannel(t) PROVE DialOnlyWhenClosed'
  BY <1>0, HandTypes, <1>36 DEF poolLastChannel
<1>37. ASSUME NEW h \in Conn, loseConnection(h) PROVE DialOnlyWhenClosed'
  BY <1>0, HandTypes, <1>37 DEF loseConnection
<1>38. ASSUME NEW h \in Conn, notifyError(h) PROVE DialOnlyWhenClosed'
  BY <1>0, HandTypes, <1>38 DEF notifyError
<1>39. ASSUME NEW h \in Conn, closeErrors(h) PROVE DialOnlyWhenClosed'
  BY <1>0, HandTypes, <1>39 DEF closeErrors
<1>40. ASSUME NEW h \in Conn, shutdownUnnoticed(h) PROVE DialOnlyWhenClosed'
  BY <1>0, HandTypes, <1>40 DEF shutdownUnnoticed
<1>41. ASSUME NEW h \in Conn, closeStaleErrors(h) PROVE DialOnlyWhenClosed'
  BY <1>0, HandTypes, <1>41 DEF closeStaleErrors
<1>42. CASE UNCHANGED vars
  BY <1>0, HandTypes, <1>42 DEF vars
<1> QED BY <1>1, <1>2, <1>3, <1>4, <1>5, <1>6, <1>7, <1>8, <1>9, <1>10,
           <1>11, <1>12, <1>13, <1>14, <1>15, <1>16, <1>17, <1>18, <1>19,
           <1>20, <1>21, <1>22, <1>23, <1>24, <1>25, <1>26, <1>27, <1>28,
           <1>29, <1>30, <1>31, <1>32, <1>33, <1>34, <1>35, <1>36, <1>37,
           <1>38, <1>39, <1>40, <1>41, <1>42
         DEF Next, UserCall, Acquire, Verify, Return, amqpStep

(* Channels in the cache or in a user's hands are made and numbered.       *)
LEMMA MadeStep ==
    ASSUME IInv, [Next]_vars
    PROVE  ChannelsMade'
<1> USE PoolAssumption
        DEF TypeOK, ThreadsOK, CallAt, HandsAt, CreatorAt, ChannelsMade,
            pool, hosts, chans, threads, Goto, Done, Lock, Unlock, Receive,
            CallFails, CallSucceeds, OwnerPCs, VerifyPCs
<1>0. /\ TypeOK /\ ThreadsOK /\ ChannelsMade /\ CachedChannelsMade
      /\ ChannelsConserved
  BY DEF IInv
<1>1. ASSUME NEW t \in Thread, CallGetConnection(t) PROVE ChannelsMade'
  BY <1>0, HandTypes, <1>1 DEF CallGetConnection, Cached
<1>2. ASSUME NEW t \in Thread, GetChannelFromPool(t) PROVE ChannelsMade'
  <2>1. \A c \in Chan : Cached(c)' => Cached(c)
    BY <1>0, <1>2, QueueTake DEF GetChannelFromPool, Cached, ChannelsConserved
  <2>2. Head(channels) \in Chan /\ chanState[Head(channels)] = "made"
    BY <1>0, <1>2, QueueTake DEF GetChannelFromPool, Cached, CachedChannelsMade,
       ChannelsConserved
  <2> QED BY <1>0, <1>2, <2>1, <2>2, HandTypes DEF GetChannelFromPool, Cached
<1>3. ASSUME NEW t \in Thread, getConnectionFromPool(t) PROVE ChannelsMade'
  BY <1>0, HandTypes, <1>3 DEF getConnectionFromPool, Cached
<1>4. ASSUME NEW t \in Thread, connectLock(t) PROVE ChannelsMade'
  BY <1>0, HandTypes, <1>4 DEF connectLock, Cached
<1>5. ASSUME NEW t \in Thread, pauseLock(t) PROVE ChannelsMade'
  BY <1>0, HandTypes, <1>5 DEF pauseLock, Cached
<1>6. ASSUME NEW t \in Thread, checkErrors(t) PROVE ChannelsMade'
  BY <1>0, HandTypes, <1>6 DEF checkErrors, Cached
<1>7. ASSUME NEW t \in Thread, isConnectionFlagged(t) PROVE ChannelsMade'
  BY <1>0, HandTypes, <1>7 DEF isConnectionFlagged, Cached
<1>8. ASSUME NEW t \in Thread, checkClosed(t) PROVE ChannelsMade'
  BY <1>0, HandTypes, <1>8 DEF checkClosed, Cached
<1>9. ASSUME NEW t \in Thread, connectCompare(t) PROVE ChannelsMade'
  BY <1>0, HandTypes, <1>9 DEF connectCompare, Cached
<1>10. ASSUME NEW t \in Thread, recompareClosed(t) PROVE ChannelsMade'
  BY <1>0, HandTypes, <1>10 DEF recompareClosed, Cached
<1>11. ASSUME NEW t \in Thread, recompareOpen(t) PROVE ChannelsMade'
  BY <1>0, HandTypes, <1>11 DEF recompareOpen, Cached
<1>12. ASSUME NEW t \in Thread, dialFails(t) PROVE ChannelsMade'
  BY <1>0, HandTypes, <1>12 DEF dialFails, Cached
<1>13. ASSUME NEW t \in Thread, dialSucceeds(t) PROVE ChannelsMade'
  BY <1>0, HandTypes, <1>13 DEF dialSucceeds, Cached
<1>14. ASSUME NEW t \in Thread, install(t) PROVE ChannelsMade'
  BY <1>0, HandTypes, <1>14 DEF install, Cached
<1>15. ASSUME NEW t \in Thread, flushErrors(t) PROVE ChannelsMade'
  BY <1>0, HandTypes, <1>15 DEF flushErrors, Cached
<1>16. ASSUME NEW t \in Thread, unflagConnection(t) PROVE ChannelsMade'
  BY <1>0, HandTypes, <1>16 DEF unflagConnection, Cached
<1>17. ASSUME NEW t \in Thread, pauseUnlock(t) PROVE ChannelsMade'
  BY <1>0, HandTypes, <1>17 DEF pauseUnlock, Cached
<1>18. ASSUME NEW t \in Thread, ReturnChannel(t) PROVE ChannelsMade'
  BY <1>0, HandTypes, <1>18 DEF ReturnChannel, Cached
<1>19. ASSUME NEW t \in Thread, ReturnErredChannel(t) PROVE ChannelsMade'
  <2>1. chan[t] \in Chan /\ \A c \in Chan : c # chan[t] => chanState'[c] = chanState[c]
    BY <1>0, <1>19, HandTypes DEF ReturnErredChannel
  <2>2. \A u \in Thread : u # t /\ chan[u] # None => chan[u] # chan[t]
    BY <1>0, <2>1, HandTypes DEF ChannelsConserved
  <2>3. UNCHANGED <<channels, created, hostOf, chan>> /\ op'[t] = "ReturnChannel"
        /\ pc'[t] = "errors"
    BY <1>0, <1>19 DEF ReturnErredChannel
  <2>4. \A u \in Thread : u # t => op'[u] = op[u] /\ pc'[u] = pc[u]
    BY <1>0, <1>19 DEF ReturnErredChannel
  <2>5. \A c \in Chan : Cached(c)' <=> Cached(c)
    BY <2>3 DEF Cached
  <2> QED BY <1>0, <2>1, <2>2, <2>3, <2>4, <2>5
<1>20. ASSUME NEW t \in Thread, ReturnConnection(t) PROVE ChannelsMade'
  BY <1>0, HandTypes, <1>20 DEF ReturnConnection, Cached
<1>21. ASSUME NEW t \in Thread, ReturnFlagged(t) PROVE ChannelsMade'
  BY <1>0, HandTypes, <1>21 DEF ReturnFlagged, Cached
<1>22. ASSUME NEW t \in Thread, newChannelHost(t) PROVE ChannelsMade'
  BY <1>0, HandTypes, <1>22 DEF newChannelHost, Cached
<1>23. ASSUME NEW t \in Thread, openTransient(t) PROVE ChannelsMade'
  BY <1>0, HandTypes, <1>23 DEF openTransient, Cached
<1>24. ASSUME NEW t \in Thread, openFails(t) PROVE ChannelsMade'
  BY <1>0, HandTypes, <1>24 DEF openFails, Cached
<1>25. ASSUME NEW t \in Thread, confirmTransient(t) \/ returnUnconfirmed(t) PROVE ChannelsMade'
  <2>1. CASE confirmTransient(t)
    BY <1>0, HandTypes, <2>1 DEF confirmTransient, Cached
  <2>2. CASE returnUnconfirmed(t)
    BY <1>0, HandTypes, <2>2 DEF returnUnconfirmed, Cached
  <2> QED BY <1>25, <2>1, <2>2
<1>26. ASSUME NEW t \in Thread, confirmFails(t) PROVE ChannelsMade'
  BY <1>0, HandTypes, <1>26 DEF confirmFails, Cached
<1>27. ASSUME NEW t \in Thread, reconnectChannel(t) PROVE ChannelsMade'
  BY <1>0, HandTypes, <1>27 DEF reconnectChannel, Cached
<1>28. ASSUME NEW t \in Thread, reconnectFails(t) PROVE ChannelsMade'
  <2>1. chan[t] \in Chan /\ \A c \in Chan : c # chan[t] => chanState'[c] = chanState[c]
    BY <1>0, <1>28, HandTypes DEF reconnectFails
  <2>2. \A u \in Thread : u # t /\ chan[u] # None => chan[u] # chan[t]
    BY <1>0, <2>1, HandTypes DEF ChannelsConserved
  <2>3. UNCHANGED <<channels, created, hostOf, chan>> /\ op'[t] = "ReturnChannel"
        /\ pc'[t] = "errors"
    BY <1>0, <1>28 DEF reconnectFails
  <2>4. \A u \in Thread : u # t => op'[u] = op[u] /\ pc'[u] = pc[u]
    BY <1>0, <1>28 DEF reconnectFails
  <2>5. \A c \in Chan : Cached(c)' <=> Cached(c)
    BY <2>3 DEF Cached
  <2> QED BY <1>0, <2>1, <2>2, <2>3, <2>4, <2>5
<1>29. ASSUME NEW t \in Thread, flagConnection(t) PROVE ChannelsMade'
  BY <1>0, HandTypes, <1>29 DEF flagConnection, Cached
<1>30. ASSUME NEW t \in Thread, putConnection(t) PROVE ChannelsMade'
  BY <1>0, HandTypes, <1>30 DEF putConnection, Cached
<1>31. ASSUME NEW t \in Thread, putAndRetry(t) PROVE ChannelsMade'
  BY <1>0, HandTypes, <1>31 DEF putAndRetry, Cached
<1>32. ASSUME NEW t \in Thread, putAfterCreate(t) PROVE ChannelsMade'
  BY <1>0, HandTypes, <1>32 DEF putAfterCreate, Cached
<1>33. ASSUME NEW t \in Thread, putAfterOpen(t) PROVE ChannelsMade'
  BY <1>0, HandTypes, <1>33 DEF putAfterOpen, Cached
<1>34. ASSUME NEW t \in Thread, putChannel(t) PROVE ChannelsMade'
  <2>1. chan[t] \in Chan /\ ~Cached(chan[t])
    BY <1>0, <1>34, HandTypes DEF putChannel, ChannelsConserved
  <2>2. \A c \in Chan : Cached(c)' <=> Cached(c) \/ c = chan[t]
    BY <1>0, <1>34, <2>1, QueuePut DEF putChannel, Cached, ChannelsConserved
  <2>3. UNCHANGED chans /\ created \in Nat /\ created' \in {created, created + 1}
    BY <1>0, <1>34 DEF putChannel
  <2>4. /\ chanState[chan[t]] = "made" /\ hostOf[chan[t]] # None
        /\ chan[t] < created'
    BY <1>0, <1>34, <2>1, HandTypes DEF putChannel, Chan
  <2>5. \A c \in Chan : c < created' => c < created \/ c = chan[t]
    BY <1>0, <1>34, <2>1, <2>3, HandTypes DEF putChannel, Chan
  <2>6. /\ chan'[t] = None
        /\ \A u \in Thread \ {t} :
              op'[u] = op[u] /\ pc'[u] = pc[u] /\ chan'[u] = chan[u]
    BY <1>0, <1>34 DEF putChannel
  <2>7. \A c \in Chan : c < created' => hostOf'[c] # None
    BY <1>0, <2>3, <2>4, <2>5
  <2>8. \A c \in Chan : Cached(c)' => c < created'
    BY <1>0, <2>2, <2>3, <2>4 DEF Chan
  <2>9. \A u \in Thread :
            chan'[u] # None /\ (op'[u] # "ReturnChannel" \/ pc'[u] = "putchan")
                => chanState'[chan'[u]] = "made"
    BY <1>0, <2>3, <2>6
  <2> QED BY <2>7, <2>8, <2>9
<1>35. ASSUME NEW t \in Thread, poolCreatedChannel(t) PROVE ChannelsMade'
  <2>1. chan[t] \in Chan /\ ~Cached(chan[t])
    BY <1>0, <1>35, HandTypes DEF poolCreatedChannel, ChannelsConserved
  <2>2. \A c \in Chan : Cached(c)' <=> Cached(c) \/ c = chan[t]
    BY <1>0, <1>35, <2>1, QueuePut DEF poolCreatedChannel, Cached, ChannelsConserved
  <2>3. UNCHANGED chans /\ created \in Nat /\ created' \in {created, created + 1}
    BY <1>0, <1>35 DEF poolCreatedChannel
  <2>4. /\ chanState[chan[t]] = "made" /\ hostOf[chan[t]] # None
        /\ chan[t] < created'
    BY <1>0, <1>35, <2>1, HandTypes DEF poolCreatedChannel, Chan
  <2>5. \A c \in Chan : c < created' => c < created \/ c = chan[t]
    BY <1>0, <1>35, <2>1, <2>3, HandTypes DEF poolCreatedChannel, Chan
  <2>6. /\ chan'[t] = None
        /\ \A u \in Thread \ {t} :
              op'[u] = op[u] /\ pc'[u] = pc[u] /\ chan'[u] = chan[u]
    BY <1>0, <1>35 DEF poolCreatedChannel
  <2>7. \A c \in Chan : c < created' => hostOf'[c] # None
    BY <1>0, <2>3, <2>4, <2>5
  <2>8. \A c \in Chan : Cached(c)' => c < created'
    BY <1>0, <2>2, <2>3, <2>4 DEF Chan
  <2>9. \A u \in Thread :
            chan'[u] # None /\ (op'[u] # "ReturnChannel" \/ pc'[u] = "putchan")
                => chanState'[chan'[u]] = "made"
    BY <1>0, <2>3, <2>6
  <2> QED BY <2>7, <2>8, <2>9
<1>36. ASSUME NEW t \in Thread, poolLastChannel(t) PROVE ChannelsMade'
  <2>1. chan[t] \in Chan /\ ~Cached(chan[t])
    BY <1>0, <1>36, HandTypes DEF poolLastChannel, ChannelsConserved
  <2>2. \A c \in Chan : Cached(c)' <=> Cached(c) \/ c = chan[t]
    BY <1>0, <1>36, <2>1, QueuePut DEF poolLastChannel, Cached, ChannelsConserved
  <2>3. UNCHANGED chans /\ created \in Nat /\ created' \in {created, created + 1}
    BY <1>0, <1>36 DEF poolLastChannel
  <2>4. /\ chanState[chan[t]] = "made" /\ hostOf[chan[t]] # None
        /\ chan[t] < created'
    BY <1>0, <1>36, <2>1, HandTypes DEF poolLastChannel, Chan
  <2>5. \A c \in Chan : c < created' => c < created \/ c = chan[t]
    BY <1>0, <1>36, <2>1, <2>3, HandTypes DEF poolLastChannel, Chan
  <2>6. /\ chan'[t] = None
        /\ \A u \in Thread \ {t} :
              op'[u] = op[u] /\ pc'[u] = pc[u] /\ chan'[u] = chan[u]
    BY <1>0, <1>36 DEF poolLastChannel
  <2>7. \A c \in Chan : c < created' => hostOf'[c] # None
    BY <1>0, <2>3, <2>4, <2>5
  <2>8. \A c \in Chan : Cached(c)' => c < created'
    BY <1>0, <2>2, <2>3, <2>4 DEF Chan
  <2>9. \A u \in Thread :
            chan'[u] # None /\ (op'[u] # "ReturnChannel" \/ pc'[u] = "putchan")
                => chanState'[chan'[u]] = "made"
    BY <1>0, <2>3, <2>6
  <2> QED BY <2>7, <2>8, <2>9
<1>37. ASSUME NEW h \in Conn, loseConnection(h) PROVE ChannelsMade'
  BY <1>0, HandTypes, <1>37 DEF loseConnection, Cached
<1>38. ASSUME NEW h \in Conn, notifyError(h) PROVE ChannelsMade'
  BY <1>0, HandTypes, <1>38 DEF notifyError, Cached
<1>39. ASSUME NEW h \in Conn, closeErrors(h) PROVE ChannelsMade'
  BY <1>0, HandTypes, <1>39 DEF closeErrors, Cached
<1>40. ASSUME NEW h \in Conn, shutdownUnnoticed(h) PROVE ChannelsMade'
  BY <1>0, HandTypes, <1>40 DEF shutdownUnnoticed, Cached
<1>41. ASSUME NEW h \in Conn, closeStaleErrors(h) PROVE ChannelsMade'
  BY <1>0, HandTypes, <1>41 DEF closeStaleErrors, Cached
<1>42. CASE UNCHANGED vars
  BY <1>0, HandTypes, <1>42 DEF vars, Cached
<1> QED BY <1>1, <1>2, <1>3, <1>4, <1>5, <1>6, <1>7, <1>8, <1>9, <1>10,
           <1>11, <1>12, <1>13, <1>14, <1>15, <1>16, <1>17, <1>18, <1>19,
           <1>20, <1>21, <1>22, <1>23, <1>24, <1>25, <1>26, <1>27, <1>28,
           <1>29, <1>30, <1>31, <1>32, <1>33, <1>34, <1>35, <1>36, <1>37,
           <1>38, <1>39, <1>40, <1>41, <1>42
         DEF Next, UserCall, Acquire, Verify, Return, amqpStep

(* ReturnChannel pools a channel only after MakeChannel completed on it.   *)
LEMMA CachedStep ==
    ASSUME IInv, [Next]_vars
    PROVE  CachedChannelsMade'
<1> USE PoolAssumption
        DEF TypeOK, ThreadsOK, CallAt, HandsAt, CreatorAt, ChannelsConserved,
            CachedChannelsMade, pool, hosts, chans, threads, Goto, Done,
            Lock, Unlock, Receive, CallFails, CallSucceeds
<1>0. /\ TypeOK /\ ThreadsOK /\ ChannelsMade /\ CachedChannelsMade
      /\ ChannelsConserved
  BY DEF IInv
<1>1. ASSUME NEW t \in Thread, CallGetConnection(t) PROVE CachedChannelsMade'
  BY <1>0, <1>1 DEF CallGetConnection, Cached
<1>2. ASSUME NEW t \in Thread, GetChannelFromPool(t) PROVE CachedChannelsMade'
  <2>1. \A c \in Chan : Cached(c)' => Cached(c)
    BY <1>0, <1>2, QueueTake DEF GetChannelFromPool, Cached
  <2>2. UNCHANGED chanState
    BY <1>2 DEF GetChannelFromPool
  <2> QED BY <1>0, <2>1, <2>2
<1>3. ASSUME NEW t \in Thread, getConnectionFromPool(t) PROVE CachedChannelsMade'
  BY <1>0, <1>3 DEF getConnectionFromPool, Cached
<1>4. ASSUME NEW t \in Thread, connectLock(t) PROVE CachedChannelsMade'
  BY <1>0, <1>4 DEF connectLock, Cached
<1>5. ASSUME NEW t \in Thread, pauseLock(t) PROVE CachedChannelsMade'
  BY <1>0, <1>5 DEF pauseLock, Cached
<1>6. ASSUME NEW t \in Thread, checkErrors(t) PROVE CachedChannelsMade'
  BY <1>0, <1>6 DEF checkErrors, Cached
<1>7. ASSUME NEW t \in Thread, isConnectionFlagged(t) PROVE CachedChannelsMade'
  BY <1>0, <1>7 DEF isConnectionFlagged, Cached
<1>8. ASSUME NEW t \in Thread, checkClosed(t) PROVE CachedChannelsMade'
  BY <1>0, <1>8 DEF checkClosed, Cached
<1>9. ASSUME NEW t \in Thread, connectCompare(t) PROVE CachedChannelsMade'
  BY <1>0, <1>9 DEF connectCompare, Cached
<1>10. ASSUME NEW t \in Thread, recompareClosed(t) PROVE CachedChannelsMade'
  BY <1>0, <1>10 DEF recompareClosed, Cached
<1>11. ASSUME NEW t \in Thread, recompareOpen(t) PROVE CachedChannelsMade'
  BY <1>0, <1>11 DEF recompareOpen, Cached
<1>12. ASSUME NEW t \in Thread, dialFails(t) PROVE CachedChannelsMade'
  BY <1>0, <1>12 DEF dialFails, Cached
<1>13. ASSUME NEW t \in Thread, dialSucceeds(t) PROVE CachedChannelsMade'
  BY <1>0, <1>13 DEF dialSucceeds, Cached
<1>14. ASSUME NEW t \in Thread, install(t) PROVE CachedChannelsMade'
  BY <1>0, <1>14 DEF install, Cached
<1>15. ASSUME NEW t \in Thread, flushErrors(t) PROVE CachedChannelsMade'
  BY <1>0, <1>15 DEF flushErrors, Cached
<1>16. ASSUME NEW t \in Thread, unflagConnection(t) PROVE CachedChannelsMade'
  BY <1>0, <1>16 DEF unflagConnection, Cached
<1>17. ASSUME NEW t \in Thread, pauseUnlock(t) PROVE CachedChannelsMade'
  BY <1>0, <1>17 DEF pauseUnlock, Cached
<1>18. ASSUME NEW t \in Thread, ReturnChannel(t) PROVE CachedChannelsMade'
  BY <1>0, <1>18 DEF ReturnChannel, Cached
<1>19. ASSUME NEW t \in Thread, ReturnErredChannel(t) PROVE CachedChannelsMade'
  <2>1. chan[t] \in Chan /\ ~Cached(chan[t])
    BY <1>0, <1>19, HandTypes DEF ReturnErredChannel
  <2>2. \A c \in Chan : c # chan[t] => chanState'[c] = chanState[c]
    BY <1>0, <1>19, <2>1 DEF ReturnErredChannel
  <2>3. UNCHANGED channels
    BY <1>19 DEF ReturnErredChannel
  <2> QED BY <1>0, <2>1, <2>2, <2>3 DEF Cached
<1>20. ASSUME NEW t \in Thread, ReturnConnection(t) PROVE CachedChannelsMade'
  BY <1>0, <1>20 DEF ReturnConnection, Cached
<1>21. ASSUME NEW t \in Thread, ReturnFlagged(t) PROVE CachedChannelsMade'
  BY <1>0, <1>21 DEF ReturnFlagged, Cached
<1>22. ASSUME NEW t \in Thread, newChannelHost(t) PROVE CachedChannelsMade'
  BY <1>0, HandTypes, <1>22 DEF newChannelHost, Cached
<1>23. ASSUME NEW t \in Thread, openTransient(t) PROVE CachedChannelsMade'
  BY <1>0, <1>23 DEF openTransient, Cached
<1>24. ASSUME NEW t \in Thread, openFails(t) PROVE CachedChannelsMade'
  BY <1>0, <1>24 DEF openFails, Cached
<1>25. ASSUME NEW t \in Thread, confirmTransient(t) \/ returnUnconfirmed(t)
       PROVE  CachedChannelsMade'
  <2>1. CASE confirmTransient(t)
    BY <1>0, <2>1 DEF confirmTransient, Cached
  <2>2. CASE returnUnconfirmed(t)
    BY <1>0, <2>2 DEF returnUnconfirmed, Cached
  <2> QED BY <1>25, <2>1, <2>2
<1>26. ASSUME NEW t \in Thread, confirmFails(t) PROVE CachedChannelsMade'
  BY <1>0, <1>26 DEF confirmFails, Cached
<1>27. ASSUME NEW t \in Thread, reconnectChannel(t) PROVE CachedChannelsMade'
  BY <1>0, HandTypes, <1>27 DEF reconnectChannel, Cached
<1>28. ASSUME NEW t \in Thread, reconnectFails(t) PROVE CachedChannelsMade'
  <2>1. chan[t] \in Chan /\ ~Cached(chan[t])
    BY <1>0, <1>28, HandTypes DEF reconnectFails
  <2>2. \A c \in Chan : c # chan[t] => chanState'[c] = chanState[c]
    BY <1>0, <1>28, <2>1 DEF reconnectFails
  <2>3. UNCHANGED channels
    BY <1>28 DEF reconnectFails
  <2> QED BY <1>0, <2>1, <2>2, <2>3 DEF Cached
<1>29. ASSUME NEW t \in Thread, flagConnection(t) PROVE CachedChannelsMade'
  BY <1>0, <1>29 DEF flagConnection, Cached
<1>30. ASSUME NEW t \in Thread, putConnection(t) PROVE CachedChannelsMade'
  BY <1>0, <1>30 DEF putConnection, Cached
<1>31. ASSUME NEW t \in Thread, putAndRetry(t) PROVE CachedChannelsMade'
  BY <1>0, <1>31 DEF putAndRetry, Cached
<1>32. ASSUME NEW t \in Thread, putAfterCreate(t) PROVE CachedChannelsMade'
  BY <1>0, <1>32 DEF putAfterCreate, Cached
<1>33. ASSUME NEW t \in Thread, putAfterOpen(t) PROVE CachedChannelsMade'
  BY <1>0, <1>33 DEF putAfterOpen, Cached
<1>34. ASSUME NEW t \in Thread, putChannel(t) PROVE CachedChannelsMade'
  <2>1. chan[t] \in Chan /\ ~Cached(chan[t]) /\ chanState[chan[t]] = "made"
    BY <1>0, <1>34, HandTypes DEF putChannel, ChannelsMade
  <2>2. \A c \in Chan : Cached(c)' <=> Cached(c) \/ c = chan[t]
    BY <1>0, <1>34, <2>1, QueuePut DEF putChannel, Cached
  <2>3. UNCHANGED chanState
    BY <1>34 DEF putChannel
  <2> QED BY <1>0, <2>1, <2>2, <2>3
<1>35. ASSUME NEW t \in Thread, poolCreatedChannel(t) PROVE CachedChannelsMade'
  <2>1. chan[t] \in Chan /\ ~Cached(chan[t]) /\ chanState[chan[t]] = "made"
    BY <1>0, <1>35, HandTypes DEF poolCreatedChannel, ChannelsMade
  <2>2. \A c \in Chan : Cached(c)' <=> Cached(c) \/ c = chan[t]
    BY <1>0, <1>35, <2>1, QueuePut DEF poolCreatedChannel, Cached
  <2>3. UNCHANGED chanState
    BY <1>35 DEF poolCreatedChannel
  <2> QED BY <1>0, <2>1, <2>2, <2>3
<1>36. ASSUME NEW t \in Thread, poolLastChannel(t) PROVE CachedChannelsMade'
  <2>1. chan[t] \in Chan /\ ~Cached(chan[t]) /\ chanState[chan[t]] = "made"
    BY <1>0, <1>36, HandTypes DEF poolLastChannel, ChannelsMade
  <2>2. \A c \in Chan : Cached(c)' <=> Cached(c) \/ c = chan[t]
    BY <1>0, <1>36, <2>1, QueuePut DEF poolLastChannel, Cached
  <2>3. UNCHANGED chanState
    BY <1>36 DEF poolLastChannel
  <2> QED BY <1>0, <2>1, <2>2, <2>3
<1>37. ASSUME NEW h \in Conn, loseConnection(h) PROVE CachedChannelsMade'
  BY <1>0, <1>37 DEF loseConnection, Cached
<1>38. ASSUME NEW h \in Conn, notifyError(h) PROVE CachedChannelsMade'
  BY <1>0, <1>38 DEF notifyError, Cached
<1>39. ASSUME NEW h \in Conn, closeErrors(h) PROVE CachedChannelsMade'
  BY <1>0, <1>39 DEF closeErrors, Cached
<1>40. ASSUME NEW h \in Conn, shutdownUnnoticed(h) PROVE CachedChannelsMade'
  BY <1>0, <1>40 DEF shutdownUnnoticed, Cached
<1>41. ASSUME NEW h \in Conn, closeStaleErrors(h) PROVE CachedChannelsMade'
  BY <1>0, <1>41 DEF closeStaleErrors, Cached
<1>42. CASE UNCHANGED vars
  BY <1>0, <1>42 DEF vars, Cached
<1> QED BY <1>1, <1>2, <1>3, <1>4, <1>5, <1>6, <1>7, <1>8, <1>9, <1>10,
           <1>11, <1>12, <1>13, <1>14, <1>15, <1>16, <1>17, <1>18, <1>19,
           <1>20, <1>21, <1>22, <1>23, <1>24, <1>25, <1>26, <1>27, <1>28,
           <1>29, <1>30, <1>31, <1>32, <1>33, <1>34, <1>35, <1>36, <1>37,
           <1>38, <1>39, <1>40, <1>41, <1>42
         DEF Next, UserCall, Acquire, Verify, Return, amqpStep

(* Cached channels are neither lost nor duplicated.                        *)
LEMMA ChanStep ==
    ASSUME IInv, [Next]_vars
    PROVE  ChannelsConserved'
<1> USE PoolAssumption
        DEF TypeOK, ThreadsOK, CallAt, HandsAt, CreatorAt, ChannelsConserved,
            pool, hosts, chans, threads, Goto, Done, Lock, Unlock, Receive,
            CallFails, CallSucceeds
<1>0. TypeOK /\ ThreadsOK /\ ChannelsMade /\ ChannelsConserved
  BY DEF IInv
<1>1. ASSUME NEW t \in Thread, CallGetConnection(t) PROVE ChannelsConserved'
  BY <1>0, <1>1 DEF CallGetConnection, Cached
<1>2. ASSUME NEW t \in Thread, GetChannelFromPool(t) PROVE ChannelsConserved'
  <2>1. Head(channels) \in Chan /\ IsInjective(channels')
    BY <1>0, <1>2, QueueTake DEF GetChannelFromPool
  <2>2. \A c \in Chan : Cached(c)' <=> Cached(c) /\ c # Head(channels)
    BY <1>0, <1>2, QueueTake DEF GetChannelFromPool, Cached
  <2>3. Cached(Head(channels)) /\ chan[t] = None
    BY <1>0, <1>2, QueueTake DEF GetChannelFromPool, Cached, VerifyPCs
  <2>4. chan' = [chan EXCEPT ![t] = Head(channels)] /\ created' = created
    BY <1>2 DEF GetChannelFromPool
  <2> QED BY <1>0, <2>1, <2>2, <2>3, <2>4, HandTypes
<1>3. ASSUME NEW t \in Thread, getConnectionFromPool(t) PROVE ChannelsConserved'
  BY <1>0, <1>3 DEF getConnectionFromPool, Cached
<1>4. ASSUME NEW t \in Thread, connectLock(t) PROVE ChannelsConserved'
  BY <1>0, <1>4 DEF connectLock, Cached
<1>5. ASSUME NEW t \in Thread, pauseLock(t) PROVE ChannelsConserved'
  BY <1>0, <1>5 DEF pauseLock, Cached
<1>6. ASSUME NEW t \in Thread, checkErrors(t) PROVE ChannelsConserved'
  BY <1>0, <1>6 DEF checkErrors, Cached
<1>7. ASSUME NEW t \in Thread, isConnectionFlagged(t) PROVE ChannelsConserved'
  BY <1>0, <1>7 DEF isConnectionFlagged, Cached
<1>8. ASSUME NEW t \in Thread, checkClosed(t) PROVE ChannelsConserved'
  BY <1>0, <1>8 DEF checkClosed, Cached
<1>9. ASSUME NEW t \in Thread, connectCompare(t) PROVE ChannelsConserved'
  BY <1>0, <1>9 DEF connectCompare, Cached
<1>10. ASSUME NEW t \in Thread, recompareClosed(t) PROVE ChannelsConserved'
  BY <1>0, <1>10 DEF recompareClosed, Cached
<1>11. ASSUME NEW t \in Thread, recompareOpen(t) PROVE ChannelsConserved'
  BY <1>0, <1>11 DEF recompareOpen, Cached
<1>12. ASSUME NEW t \in Thread, dialFails(t) PROVE ChannelsConserved'
  BY <1>0, <1>12 DEF dialFails, Cached
<1>13. ASSUME NEW t \in Thread, dialSucceeds(t) PROVE ChannelsConserved'
  BY <1>0, <1>13 DEF dialSucceeds, Cached
<1>14. ASSUME NEW t \in Thread, install(t) PROVE ChannelsConserved'
  BY <1>0, <1>14 DEF install, Cached
<1>15. ASSUME NEW t \in Thread, flushErrors(t) PROVE ChannelsConserved'
  BY <1>0, <1>15 DEF flushErrors, Cached
<1>16. ASSUME NEW t \in Thread, unflagConnection(t) PROVE ChannelsConserved'
  BY <1>0, <1>16 DEF unflagConnection, Cached
<1>17. ASSUME NEW t \in Thread, pauseUnlock(t) PROVE ChannelsConserved'
  BY <1>0, <1>17 DEF pauseUnlock, Cached
<1>18. ASSUME NEW t \in Thread, ReturnChannel(t) PROVE ChannelsConserved'
  BY <1>0, <1>18 DEF ReturnChannel, Cached
<1>19. ASSUME NEW t \in Thread, ReturnErredChannel(t) PROVE ChannelsConserved'
  BY <1>0, <1>19 DEF ReturnErredChannel, Cached
<1>20. ASSUME NEW t \in Thread, ReturnConnection(t) PROVE ChannelsConserved'
  BY <1>0, <1>20 DEF ReturnConnection, Cached
<1>21. ASSUME NEW t \in Thread, ReturnFlagged(t) PROVE ChannelsConserved'
  BY <1>0, <1>21 DEF ReturnFlagged, Cached
<1>22. ASSUME NEW t \in Thread, newChannelHost(t) PROVE ChannelsConserved'
  <2>1. created \in Chan /\ ~Cached(created)
    BY <1>0, <1>22, HandTypes DEF newChannelHost, ChannelsMade, Chan
  <2>2. ASSUME NEW u \in Thread PROVE chan[u] # created /\ chan[t] = None
    <3>1. chan[t] = None /\ t = Main /\ ~Initialized
      BY <1>0, <1>22 DEF newChannelHost
    <3>2. op[u] = "none" \/ u = t
      BY <1>0, <3>1
    <3> QED BY <1>0, <2>1, <3>1, <3>2, HandTypes
  <2>3. chan' = [chan EXCEPT ![t] = created] /\ UNCHANGED <<channels, created>>
    BY <1>22 DEF newChannelHost
  <2> QED BY <1>0, <2>1, <2>2, <2>3, HandTypes DEF Cached
<1>23. ASSUME NEW t \in Thread, openTransient(t) PROVE ChannelsConserved'
  BY <1>0, <1>23 DEF openTransient, Cached
<1>24. ASSUME NEW t \in Thread, openFails(t) PROVE ChannelsConserved'
  BY <1>0, <1>24 DEF openFails, Cached
<1>25. ASSUME NEW t \in Thread, confirmTransient(t) \/ returnUnconfirmed(t)
       PROVE  ChannelsConserved'
  <2>1. CASE confirmTransient(t)
    BY <1>0, <2>1 DEF confirmTransient, Cached
  <2>2. CASE returnUnconfirmed(t)
    BY <1>0, <2>2 DEF returnUnconfirmed, Cached
  <2> QED BY <1>25, <2>1, <2>2
<1>26. ASSUME NEW t \in Thread, confirmFails(t) PROVE ChannelsConserved'
  BY <1>0, <1>26 DEF confirmFails, Cached
<1>27. ASSUME NEW t \in Thread, reconnectChannel(t) PROVE ChannelsConserved'
  BY <1>0, <1>27 DEF reconnectChannel, Cached
<1>28. ASSUME NEW t \in Thread, reconnectFails(t) PROVE ChannelsConserved'
  BY <1>0, <1>28 DEF reconnectFails, Cached
<1>29. ASSUME NEW t \in Thread, flagConnection(t) PROVE ChannelsConserved'
  BY <1>0, <1>29 DEF flagConnection, Cached
<1>30. ASSUME NEW t \in Thread, putConnection(t) PROVE ChannelsConserved'
  BY <1>0, <1>30 DEF putConnection, Cached
<1>31. ASSUME NEW t \in Thread, putAndRetry(t) PROVE ChannelsConserved'
  BY <1>0, <1>31 DEF putAndRetry, Cached
<1>32. ASSUME NEW t \in Thread, putAfterCreate(t) PROVE ChannelsConserved'
  BY <1>0, <1>32 DEF putAfterCreate, Cached
<1>33. ASSUME NEW t \in Thread, putAfterOpen(t) PROVE ChannelsConserved'
  BY <1>0, <1>33 DEF putAfterOpen, Cached
<1>34. ASSUME NEW t \in Thread, putChannel(t) PROVE ChannelsConserved'
  <2>1. chan[t] \in Chan /\ ~Cached(chan[t])
    BY <1>0, <1>34, HandTypes DEF putChannel
  <2>2. \A c \in Chan : Cached(c)' <=> Cached(c) \/ c = chan[t]
    BY <1>0, <1>34, <2>1, QueuePut DEF putChannel, Cached
  <2>3. IsInjective(channels')
    BY <1>0, <1>34, <2>1, QueuePut DEF putChannel, Cached
  <2>4. \A c \in Chan : c < created' => c < created \/ c = chan[t]
    BY <1>0, <1>34, <2>1, HandTypes DEF putChannel, Chan
  <2>5. chan' = [chan EXCEPT ![t] = None]
    BY <1>34 DEF putChannel
  <2> QED BY <1>0, <2>1, <2>2, <2>3, <2>4, <2>5, HandTypes
<1>35. ASSUME NEW t \in Thread, poolCreatedChannel(t) PROVE ChannelsConserved'
  <2>1. chan[t] \in Chan /\ ~Cached(chan[t])
    BY <1>0, <1>35, HandTypes DEF poolCreatedChannel
  <2>2. \A c \in Chan : Cached(c)' <=> Cached(c) \/ c = chan[t]
    BY <1>0, <1>35, <2>1, QueuePut DEF poolCreatedChannel, Cached
  <2>3. IsInjective(channels')
    BY <1>0, <1>35, <2>1, QueuePut DEF poolCreatedChannel, Cached
  <2>4. \A c \in Chan : c < created' => c < created \/ c = chan[t]
    BY <1>0, <1>35, <2>1, HandTypes DEF poolCreatedChannel, Chan
  <2>5. chan' = [chan EXCEPT ![t] = None]
    BY <1>35 DEF poolCreatedChannel
  <2> QED BY <1>0, <2>1, <2>2, <2>3, <2>4, <2>5, HandTypes
<1>36. ASSUME NEW t \in Thread, poolLastChannel(t) PROVE ChannelsConserved'
  <2>1. chan[t] \in Chan /\ ~Cached(chan[t])
    BY <1>0, <1>36, HandTypes DEF poolLastChannel
  <2>2. \A c \in Chan : Cached(c)' <=> Cached(c) \/ c = chan[t]
    BY <1>0, <1>36, <2>1, QueuePut DEF poolLastChannel, Cached
  <2>3. IsInjective(channels')
    BY <1>0, <1>36, <2>1, QueuePut DEF poolLastChannel, Cached
  <2>4. \A c \in Chan : c < created' => c < created \/ c = chan[t]
    BY <1>0, <1>36, <2>1, HandTypes DEF poolLastChannel, Chan
  <2>5. chan' = [chan EXCEPT ![t] = None]
    BY <1>36 DEF poolLastChannel
  <2> QED BY <1>0, <2>1, <2>2, <2>3, <2>4, <2>5, HandTypes
<1>37. ASSUME NEW h \in Conn, loseConnection(h) PROVE ChannelsConserved'
  BY <1>0, <1>37 DEF loseConnection, Cached
<1>38. ASSUME NEW h \in Conn, notifyError(h) PROVE ChannelsConserved'
  BY <1>0, <1>38 DEF notifyError, Cached
<1>39. ASSUME NEW h \in Conn, closeErrors(h) PROVE ChannelsConserved'
  BY <1>0, <1>39 DEF closeErrors, Cached
<1>40. ASSUME NEW h \in Conn, shutdownUnnoticed(h) PROVE ChannelsConserved'
  BY <1>0, <1>40 DEF shutdownUnnoticed, Cached
<1>41. ASSUME NEW h \in Conn, closeStaleErrors(h) PROVE ChannelsConserved'
  BY <1>0, <1>41 DEF closeStaleErrors, Cached
<1>42. CASE UNCHANGED vars
  BY <1>0, <1>42 DEF vars, Cached
<1> QED BY <1>1, <1>2, <1>3, <1>4, <1>5, <1>6, <1>7, <1>8, <1>9, <1>10,
           <1>11, <1>12, <1>13, <1>14, <1>15, <1>16, <1>17, <1>18, <1>19,
           <1>20, <1>21, <1>22, <1>23, <1>24, <1>25, <1>26, <1>27, <1>28,
           <1>29, <1>30, <1>31, <1>32, <1>33, <1>34, <1>35, <1>36, <1>37,
           <1>38, <1>39, <1>40, <1>41, <1>42
         DEF Next, UserCall, Acquire, Verify, Return, amqpStep

(* Only owners flag, and an owner that finds a flag goes to recovery.      *)
LEMMA FlagStep ==
    ASSUME IInv, [Next]_vars
    PROVE  FlaggedRecovers'
<1> USE PoolAssumption
        DEF TypeOK, ThreadsOK, CallAt, HandsAt, FlaggedRecovers,
            ConnectionsConserved, Owns, pool, hosts, chans, threads, Goto,
            Done, Lock, Unlock, Receive, CallFails, CallSucceeds, OwnerPCs,
            VerifyPCs
<1>0. TypeOK /\ ThreadsOK /\ FlaggedRecovers /\ ConnectionsConserved
  BY DEF IInv
<1>1. ASSUME NEW t \in Thread, CallGetConnection(t) PROVE FlaggedRecovers'
  BY <1>0, HandTypes, <1>1 DEF CallGetConnection
<1>2. ASSUME NEW t \in Thread, GetChannelFromPool(t) PROVE FlaggedRecovers'
  BY <1>0, HandTypes, <1>2 DEF GetChannelFromPool
<1>3. ASSUME NEW t \in Thread, getConnectionFromPool(t) PROVE FlaggedRecovers'
  BY <1>0, HandTypes, <1>3 DEF getConnectionFromPool
<1>4. ASSUME NEW t \in Thread, connectLock(t) PROVE FlaggedRecovers'
  BY <1>0, HandTypes, <1>4 DEF connectLock
<1>5. ASSUME NEW t \in Thread, pauseLock(t) PROVE FlaggedRecovers'
  BY <1>0, HandTypes, <1>5 DEF pauseLock
<1>6. ASSUME NEW t \in Thread, checkErrors(t) PROVE FlaggedRecovers'
  BY <1>0, HandTypes, <1>6 DEF checkErrors
<1>7. ASSUME NEW t \in Thread, isConnectionFlagged(t) PROVE FlaggedRecovers'
  BY <1>0, HandTypes, <1>7 DEF isConnectionFlagged
<1>8. ASSUME NEW t \in Thread, checkClosed(t) PROVE FlaggedRecovers'
  BY <1>0, HandTypes, <1>8 DEF checkClosed
<1>9. ASSUME NEW t \in Thread, connectCompare(t) PROVE FlaggedRecovers'
  BY <1>0, HandTypes, <1>9 DEF connectCompare
<1>10. ASSUME NEW t \in Thread, recompareClosed(t) PROVE FlaggedRecovers'
  BY <1>0, HandTypes, <1>10 DEF recompareClosed
<1>11. ASSUME NEW t \in Thread, recompareOpen(t) PROVE FlaggedRecovers'
  BY <1>0, HandTypes, <1>11 DEF recompareOpen
<1>12. ASSUME NEW t \in Thread, dialFails(t) PROVE FlaggedRecovers'
  BY <1>0, HandTypes, <1>12 DEF dialFails
<1>13. ASSUME NEW t \in Thread, dialSucceeds(t) PROVE FlaggedRecovers'
  BY <1>0, HandTypes, <1>13 DEF dialSucceeds
<1>14. ASSUME NEW t \in Thread, install(t) PROVE FlaggedRecovers'
  BY <1>0, HandTypes, <1>14 DEF install
<1>15. ASSUME NEW t \in Thread, flushErrors(t) PROVE FlaggedRecovers'
  BY <1>0, HandTypes, <1>15 DEF flushErrors
<1>16. ASSUME NEW t \in Thread, unflagConnection(t) PROVE FlaggedRecovers'
  BY <1>0, HandTypes, <1>16 DEF unflagConnection
<1>17. ASSUME NEW t \in Thread, pauseUnlock(t) PROVE FlaggedRecovers'
  BY <1>0, HandTypes, <1>17 DEF pauseUnlock
<1>18. ASSUME NEW t \in Thread, ReturnChannel(t) PROVE FlaggedRecovers'
  BY <1>0, HandTypes, <1>18 DEF ReturnChannel
<1>19. ASSUME NEW t \in Thread, ReturnErredChannel(t) PROVE FlaggedRecovers'
  BY <1>0, HandTypes, <1>19 DEF ReturnErredChannel
<1>20. ASSUME NEW t \in Thread, ReturnConnection(t) PROVE FlaggedRecovers'
  BY <1>0, HandTypes, <1>20 DEF ReturnConnection
<1>21. ASSUME NEW t \in Thread, ReturnFlagged(t) PROVE FlaggedRecovers'
  BY <1>0, HandTypes, <1>21 DEF ReturnFlagged
<1>22. ASSUME NEW t \in Thread, newChannelHost(t) PROVE FlaggedRecovers'
  BY <1>0, HandTypes, <1>22 DEF newChannelHost
<1>23. ASSUME NEW t \in Thread, openTransient(t) PROVE FlaggedRecovers'
  BY <1>0, HandTypes, <1>23 DEF openTransient
<1>24. ASSUME NEW t \in Thread, openFails(t) PROVE FlaggedRecovers'
  BY <1>0, HandTypes, <1>24 DEF openFails
<1>25. ASSUME NEW t \in Thread, confirmTransient(t) \/ returnUnconfirmed(t)
       PROVE  FlaggedRecovers'
  <2>1. CASE confirmTransient(t)
    BY <1>0, HandTypes, <2>1 DEF confirmTransient
  <2>2. CASE returnUnconfirmed(t)
    BY <1>0, HandTypes, <2>2 DEF returnUnconfirmed
  <2> QED BY <1>25, <2>1, <2>2
<1>26. ASSUME NEW t \in Thread, confirmFails(t) PROVE FlaggedRecovers'
  BY <1>0, HandTypes, <1>26 DEF confirmFails
<1>27. ASSUME NEW t \in Thread, reconnectChannel(t) PROVE FlaggedRecovers'
  BY <1>0, HandTypes, <1>27 DEF reconnectChannel
<1>28. ASSUME NEW t \in Thread, reconnectFails(t) PROVE FlaggedRecovers'
  BY <1>0, HandTypes, <1>28 DEF reconnectFails
<1>29. ASSUME NEW t \in Thread, flagConnection(t) PROVE FlaggedRecovers'
  <2>1. conn[t] \in Conn /\ Owns(t, conn[t])
    BY <1>0, <1>29, HandTypes DEF flagConnection
  <2>2. ASSUME NEW u \in Thread, NEW h \in Conn, Owns(u, h)', flagged'[h]
        PROVE  pc'[u] \notin {"closed?", "pause", "paused", "use", "make"}
    <3>1. CASE u = t
      BY <1>0, <1>29, <3>1 DEF flagConnection
    <3>2. CASE u # t
      <4>1. Owns(u, h) /\ h # conn[t]
        BY <1>0, <1>29, <2>1, <2>2, <3>2 DEF flagConnection
      <4> QED BY <1>0, <1>29, <2>2, <3>2, <4>1 DEF flagConnection
    <3> QED BY <3>1, <3>2
  <2> QED BY <2>2
<1>30. ASSUME NEW t \in Thread, putConnection(t) PROVE FlaggedRecovers'
  BY <1>0, HandTypes, <1>30 DEF putConnection
<1>31. ASSUME NEW t \in Thread, putAndRetry(t) PROVE FlaggedRecovers'
  BY <1>0, HandTypes, <1>31 DEF putAndRetry
<1>32. ASSUME NEW t \in Thread, putAfterCreate(t) PROVE FlaggedRecovers'
  BY <1>0, HandTypes, <1>32 DEF putAfterCreate
<1>33. ASSUME NEW t \in Thread, putAfterOpen(t) PROVE FlaggedRecovers'
  BY <1>0, HandTypes, <1>33 DEF putAfterOpen
<1>34. ASSUME NEW t \in Thread, putChannel(t) PROVE FlaggedRecovers'
  BY <1>0, HandTypes, <1>34 DEF putChannel
<1>35. ASSUME NEW t \in Thread, poolCreatedChannel(t) PROVE FlaggedRecovers'
  BY <1>0, HandTypes, <1>35 DEF poolCreatedChannel
<1>36. ASSUME NEW t \in Thread, poolLastChannel(t) PROVE FlaggedRecovers'
  BY <1>0, HandTypes, <1>36 DEF poolLastChannel
<1>37. ASSUME NEW h \in Conn, loseConnection(h) PROVE FlaggedRecovers'
  BY <1>0, HandTypes, <1>37 DEF loseConnection
<1>38. ASSUME NEW h \in Conn, notifyError(h) PROVE FlaggedRecovers'
  BY <1>0, HandTypes, <1>38 DEF notifyError
<1>39. ASSUME NEW h \in Conn, closeErrors(h) PROVE FlaggedRecovers'
  BY <1>0, HandTypes, <1>39 DEF closeErrors
<1>40. ASSUME NEW h \in Conn, shutdownUnnoticed(h) PROVE FlaggedRecovers'
  BY <1>0, HandTypes, <1>40 DEF shutdownUnnoticed
<1>41. ASSUME NEW h \in Conn, closeStaleErrors(h) PROVE FlaggedRecovers'
  BY <1>0, HandTypes, <1>41 DEF closeStaleErrors
<1>42. CASE UNCHANGED vars
  BY <1>0, HandTypes, <1>42 DEF vars
<1> QED BY <1>1, <1>2, <1>3, <1>4, <1>5, <1>6, <1>7, <1>8, <1>9, <1>10,
           <1>11, <1>12, <1>13, <1>14, <1>15, <1>16, <1>17, <1>18, <1>19,
           <1>20, <1>21, <1>22, <1>23, <1>24, <1>25, <1>26, <1>27, <1>28,
           <1>29, <1>30, <1>31, <1>32, <1>33, <1>34, <1>35, <1>36, <1>37,
           <1>38, <1>39, <1>40, <1>41, <1>42
         DEF Next, UserCall, Acquire, Verify, Return, amqpStep

-----------------------------------------------------------------------------
(* What the three kinds of steps do to ConnectionsConserved: those that    *)
(* leave queue and owners alone, those that take from the queue, and those *)
(* that put back.                                                          *)
LEMMA QueueFrame ==
    ASSUME ConnectionsConserved, connections' = connections,
           \A u \in Thread, h \in Conn : Owns(u, h)' <=> Owns(u, h)
    PROVE  ConnectionsConserved'
BY DEF ConnectionsConserved, Queued

(* getConnectionFromPool: the taker becomes the one owner.                 *)
LEMMA TakeConserves ==
    ASSUME ConnectionsConserved, connections \in Seq(Conn), connections # <<>>,
           NEW t \in Thread,
           connections' = Tail(connections),
           \A h \in Conn : ~Owns(t, h),
           \A u \in Thread, h \in Conn :
              Owns(u, h)' <=> Owns(u, h) \/ (u = t /\ h = Head(connections))
    PROVE  ConnectionsConserved'
<1>1. /\ Head(connections) \in Conn /\ Queued(Head(connections))
      /\ IsInjective(connections')
      /\ \A h \in Conn : Queued(h)' <=> Queued(h) /\ h # Head(connections)
  BY QueueTake DEF ConnectionsConserved, Queued
<1>2. \A u \in Thread : ~Owns(u, Head(connections))
  BY <1>1 DEF ConnectionsConserved
<1>3. \A h \in Conn : Queued(h)' <=> ~ \E u \in Thread : Owns(u, h)'
  BY <1>1, <1>2 DEF ConnectionsConserved
<1>4. \A h \in Conn, u, v \in Thread : Owns(u, h)' /\ Owns(v, h)' => u = v
  BY <1>2 DEF ConnectionsConserved
<1> QED BY <1>1, <1>3, <1>4 DEF ConnectionsConserved

(* ReturnConnection: the owner puts its connection back, once.             *)
LEMMA PutConserves ==
    ASSUME ConnectionsConserved, connections \in Seq(Conn),
           NEW t \in Thread, NEW g \in Conn, Owns(t, g),
           connections' = Append(connections, g),
           \A h \in Conn : Owns(t, h) => h = g,
           \A u \in Thread, h \in Conn : Owns(u, h)' <=> Owns(u, h) /\ u # t
    PROVE  ConnectionsConserved'
<1>1. ~Queued(g)
  BY DEF ConnectionsConserved
<1>2. /\ IsInjective(connections')
      /\ \A h \in Conn : Queued(h)' <=> Queued(h) \/ h = g
  BY <1>1, QueuePut DEF ConnectionsConserved, Queued
<1>3. \A h \in Conn : Queued(h)' <=> ~ \E u \in Thread : Owns(u, h)'
  BY <1>2 DEF ConnectionsConserved
<1> QED BY <1>2, <1>3 DEF ConnectionsConserved

(* Connections are neither lost nor duplicated, by any step of any call.   *)
LEMMA ConnStep ==
    ASSUME IInv, [Next]_vars
    PROVE  ConnectionsConserved'
<1> USE PoolAssumption
        DEF TypeOK, ThreadsOK, CallAt, HandsAt, pool, hosts, chans, threads,
            Goto, Done, Lock, Unlock, Receive, CallFails, CallSucceeds,
            OwnerPCs, VerifyPCs
<1>0. TypeOK /\ ThreadsOK /\ ConnectionsConserved
  BY DEF IInv
<1>1. ASSUME NEW t \in Thread, CallGetConnection(t) PROVE ConnectionsConserved'
  <2>1. connections' = connections
    BY <1>1 DEF CallGetConnection
  <2>2. \A u \in Thread, h \in Conn : Owns(u, h)' <=> Owns(u, h)
    BY <1>0, <1>1, HandTypes DEF CallGetConnection, Owns
  <2> QED BY <1>0, <2>1, <2>2, QueueFrame
<1>2. ASSUME NEW t \in Thread, GetChannelFromPool(t) PROVE ConnectionsConserved'
  <2>1. connections' = connections
    BY <1>2 DEF GetChannelFromPool
  <2>2. \A u \in Thread, h \in Conn : Owns(u, h)' <=> Owns(u, h)
    BY <1>0, <1>2, HandTypes DEF GetChannelFromPool, Owns
  <2> QED BY <1>0, <2>1, <2>2, QueueFrame
<1>3. ASSUME NEW t \in Thread, getConnectionFromPool(t) PROVE ConnectionsConserved'
  <2>1. \A h \in Conn : ~Owns(t, h)
    BY <1>0, <1>3 DEF getConnectionFromPool, Owns
  <2>2. \A u \in Thread, h \in Conn :
            Owns(u, h)' <=> Owns(u, h) \/ (u = t /\ h = Head(connections))
    BY <1>0, <1>3, <2>1 DEF getConnectionFromPool, Owns
  <2> QED BY <1>0, <1>3, <2>1, <2>2, TakeConserves DEF getConnectionFromPool
<1>4. ASSUME NEW t \in Thread, connectLock(t) PROVE ConnectionsConserved'
  <2>1. connections' = connections
    BY <1>4 DEF connectLock
  <2>2. \A u \in Thread, h \in Conn : Owns(u, h)' <=> Owns(u, h)
    BY <1>0, <1>4, HandTypes DEF connectLock, Owns
  <2> QED BY <1>0, <2>1, <2>2, QueueFrame
<1>5. ASSUME NEW t \in Thread, pauseLock(t) PROVE ConnectionsConserved'
  <2>1. connections' = connections
    BY <1>5 DEF pauseLock
  <2>2. \A u \in Thread, h \in Conn : Owns(u, h)' <=> Owns(u, h)
    BY <1>0, <1>5, HandTypes DEF pauseLock, Owns
  <2> QED BY <1>0, <2>1, <2>2, QueueFrame
<1>6. ASSUME NEW t \in Thread, checkErrors(t) PROVE ConnectionsConserved'
  <2>1. connections' = connections
    BY <1>6 DEF checkErrors
  <2>2. \A u \in Thread, h \in Conn : Owns(u, h)' <=> Owns(u, h)
    BY <1>0, <1>6, HandTypes DEF checkErrors, Owns
  <2> QED BY <1>0, <2>1, <2>2, QueueFrame
<1>7. ASSUME NEW t \in Thread, isConnectionFlagged(t) PROVE ConnectionsConserved'
  <2>1. connections' = connections
    BY <1>7 DEF isConnectionFlagged
  <2>2. \A u \in Thread, h \in Conn : Owns(u, h)' <=> Owns(u, h)
    BY <1>0, <1>7, HandTypes DEF isConnectionFlagged, Owns
  <2> QED BY <1>0, <2>1, <2>2, QueueFrame
<1>8. ASSUME NEW t \in Thread, checkClosed(t) PROVE ConnectionsConserved'
  <2>1. connections' = connections
    BY <1>8 DEF checkClosed
  <2>2. \A u \in Thread, h \in Conn : Owns(u, h)' <=> Owns(u, h)
    BY <1>0, <1>8, HandTypes DEF checkClosed, Owns
  <2> QED BY <1>0, <2>1, <2>2, QueueFrame
<1>9. ASSUME NEW t \in Thread, connectCompare(t) PROVE ConnectionsConserved'
  <2>1. connections' = connections
    BY <1>9 DEF connectCompare
  <2>2. \A u \in Thread, h \in Conn : Owns(u, h)' <=> Owns(u, h)
    BY <1>0, <1>9, HandTypes DEF connectCompare, Owns
  <2> QED BY <1>0, <2>1, <2>2, QueueFrame
<1>10. ASSUME NEW t \in Thread, recompareClosed(t) PROVE ConnectionsConserved'
  <2>1. connections' = connections
    BY <1>10 DEF recompareClosed
  <2>2. \A u \in Thread, h \in Conn : Owns(u, h)' <=> Owns(u, h)
    BY <1>0, <1>10, HandTypes DEF recompareClosed, Owns
  <2> QED BY <1>0, <2>1, <2>2, QueueFrame
<1>11. ASSUME NEW t \in Thread, recompareOpen(t) PROVE ConnectionsConserved'
  <2>1. connections' = connections
    BY <1>11 DEF recompareOpen
  <2>2. \A u \in Thread, h \in Conn : Owns(u, h)' <=> Owns(u, h)
    BY <1>0, <1>11, HandTypes DEF recompareOpen, Owns
  <2> QED BY <1>0, <2>1, <2>2, QueueFrame
<1>12. ASSUME NEW t \in Thread, dialFails(t) PROVE ConnectionsConserved'
  <2>1. connections' = connections
    BY <1>12 DEF dialFails
  <2>2. \A u \in Thread, h \in Conn : Owns(u, h)' <=> Owns(u, h)
    BY <1>0, <1>12, HandTypes DEF dialFails, Owns
  <2> QED BY <1>0, <2>1, <2>2, QueueFrame
<1>13. ASSUME NEW t \in Thread, dialSucceeds(t) PROVE ConnectionsConserved'
  <2>1. connections' = connections
    BY <1>13 DEF dialSucceeds
  <2>2. \A u \in Thread, h \in Conn : Owns(u, h)' <=> Owns(u, h)
    BY <1>0, <1>13, HandTypes DEF dialSucceeds, Owns
  <2> QED BY <1>0, <2>1, <2>2, QueueFrame
<1>14. ASSUME NEW t \in Thread, install(t) PROVE ConnectionsConserved'
  <2>1. connections' = connections
    BY <1>14 DEF install
  <2>2. \A u \in Thread, h \in Conn : Owns(u, h)' <=> Owns(u, h)
    BY <1>0, <1>14, HandTypes DEF install, Owns
  <2> QED BY <1>0, <2>1, <2>2, QueueFrame
<1>15. ASSUME NEW t \in Thread, flushErrors(t) PROVE ConnectionsConserved'
  <2>1. connections' = connections
    BY <1>15 DEF flushErrors
  <2>2. \A u \in Thread, h \in Conn : Owns(u, h)' <=> Owns(u, h)
    BY <1>0, <1>15, HandTypes DEF flushErrors, Owns
  <2> QED BY <1>0, <2>1, <2>2, QueueFrame
<1>16. ASSUME NEW t \in Thread, unflagConnection(t) PROVE ConnectionsConserved'
  <2>1. connections' = connections
    BY <1>16 DEF unflagConnection
  <2>2. \A u \in Thread, h \in Conn : Owns(u, h)' <=> Owns(u, h)
    BY <1>0, <1>16, HandTypes DEF unflagConnection, Owns
  <2> QED BY <1>0, <2>1, <2>2, QueueFrame
<1>17. ASSUME NEW t \in Thread, pauseUnlock(t) PROVE ConnectionsConserved'
  <2>1. connections' = connections
    BY <1>17 DEF pauseUnlock
  <2>2. \A u \in Thread, h \in Conn : Owns(u, h)' <=> Owns(u, h)
    BY <1>0, <1>17, HandTypes DEF pauseUnlock, Owns
  <2> QED BY <1>0, <2>1, <2>2, QueueFrame
<1>18. ASSUME NEW t \in Thread, ReturnChannel(t) PROVE ConnectionsConserved'
  <2>1. connections' = connections
    BY <1>18 DEF ReturnChannel
  <2>2. \A u \in Thread, h \in Conn : Owns(u, h)' <=> Owns(u, h)
    BY <1>0, <1>18, HandTypes DEF ReturnChannel, Owns
  <2> QED BY <1>0, <2>1, <2>2, QueueFrame
<1>19. ASSUME NEW t \in Thread, ReturnErredChannel(t) PROVE ConnectionsConserved'
  <2>1. connections' = connections
    BY <1>19 DEF ReturnErredChannel
  <2>2. \A u \in Thread, h \in Conn : Owns(u, h)' <=> Owns(u, h)
    BY <1>0, <1>19, HandTypes DEF ReturnErredChannel, Owns
  <2> QED BY <1>0, <2>1, <2>2, QueueFrame
<1>20. ASSUME NEW t \in Thread, ReturnConnection(t) PROVE ConnectionsConserved'
  <2>1. connections' = connections
    BY <1>20 DEF ReturnConnection
  <2>2. \A u \in Thread, h \in Conn : Owns(u, h)' <=> Owns(u, h)
    BY <1>0, <1>20, HandTypes DEF ReturnConnection, Owns
  <2> QED BY <1>0, <2>1, <2>2, QueueFrame
<1>21. ASSUME NEW t \in Thread, ReturnFlagged(t) PROVE ConnectionsConserved'
  <2>1. connections' = connections
    BY <1>21 DEF ReturnFlagged
  <2>2. \A u \in Thread, h \in Conn : Owns(u, h)' <=> Owns(u, h)
    BY <1>0, <1>21, HandTypes DEF ReturnFlagged, Owns
  <2> QED BY <1>0, <2>1, <2>2, QueueFrame
<1>22. ASSUME NEW t \in Thread, newChannelHost(t) PROVE ConnectionsConserved'
  <2>1. connections' = connections
    BY <1>22 DEF newChannelHost
  <2>2. \A u \in Thread, h \in Conn : Owns(u, h)' <=> Owns(u, h)
    BY <1>0, <1>22, HandTypes DEF newChannelHost, Owns
  <2> QED BY <1>0, <2>1, <2>2, QueueFrame
<1>23. ASSUME NEW t \in Thread, openTransient(t) PROVE ConnectionsConserved'
  <2>1. connections' = connections
    BY <1>23 DEF openTransient
  <2>2. \A u \in Thread, h \in Conn : Owns(u, h)' <=> Owns(u, h)
    BY <1>0, <1>23, HandTypes DEF openTransient, Owns
  <2> QED BY <1>0, <2>1, <2>2, QueueFrame
<1>24. ASSUME NEW t \in Thread, openFails(t) PROVE ConnectionsConserved'
  <2>1. connections' = connections
    BY <1>24 DEF openFails
  <2>2. \A u \in Thread, h \in Conn : Owns(u, h)' <=> Owns(u, h)
    BY <1>0, <1>24, HandTypes DEF openFails, Owns
  <2> QED BY <1>0, <2>1, <2>2, QueueFrame
<1>25. ASSUME NEW t \in Thread, confirmTransient(t) \/ returnUnconfirmed(t)
       PROVE  ConnectionsConserved'
  <2>1. connections' = connections
    BY <1>25 DEF confirmTransient, returnUnconfirmed
  <2>2. \A u \in Thread, h \in Conn : Owns(u, h)' <=> Owns(u, h)
    <3>1. CASE confirmTransient(t)
      BY <1>0, <3>1, HandTypes DEF confirmTransient, Owns
    <3>2. CASE returnUnconfirmed(t)
      BY <1>0, <3>2, HandTypes DEF returnUnconfirmed, Owns
    <3> QED BY <1>25, <3>1, <3>2
  <2> QED BY <1>0, <2>1, <2>2, QueueFrame
<1>26. ASSUME NEW t \in Thread, confirmFails(t) PROVE ConnectionsConserved'
  <2>1. connections' = connections
    BY <1>26 DEF confirmFails
  <2>2. \A u \in Thread, h \in Conn : Owns(u, h)' <=> Owns(u, h)
    BY <1>0, <1>26, HandTypes DEF confirmFails, Owns
  <2> QED BY <1>0, <2>1, <2>2, QueueFrame
<1>27. ASSUME NEW t \in Thread, reconnectChannel(t) PROVE ConnectionsConserved'
  <2>1. connections' = connections
    BY <1>27 DEF reconnectChannel
  <2>2. \A u \in Thread, h \in Conn : Owns(u, h)' <=> Owns(u, h)
    BY <1>0, <1>27, HandTypes DEF reconnectChannel, Owns
  <2> QED BY <1>0, <2>1, <2>2, QueueFrame
<1>28. ASSUME NEW t \in Thread, reconnectFails(t) PROVE ConnectionsConserved'
  <2>1. connections' = connections
    BY <1>28 DEF reconnectFails
  <2>2. \A u \in Thread, h \in Conn : Owns(u, h)' <=> Owns(u, h)
    BY <1>0, <1>28, HandTypes DEF reconnectFails, Owns
  <2> QED BY <1>0, <2>1, <2>2, QueueFrame
<1>29. ASSUME NEW t \in Thread, flagConnection(t) PROVE ConnectionsConserved'
  <2>1. connections' = connections
    BY <1>29 DEF flagConnection
  <2>2. \A u \in Thread, h \in Conn : Owns(u, h)' <=> Owns(u, h)
    BY <1>0, <1>29, HandTypes DEF flagConnection, Owns
  <2> QED BY <1>0, <2>1, <2>2, QueueFrame
<1>30. ASSUME NEW t \in Thread, putConnection(t) PROVE ConnectionsConserved'
  <2>1. conn[t] \in Conn /\ Owns(t, conn[t])
    BY <1>0, <1>30, HandTypes DEF putConnection, Owns
  <2>2. \A u \in Thread, h \in Conn : Owns(u, h)' <=> Owns(u, h) /\ u # t
    BY <1>0, <1>30, HandTypes DEF putConnection, Owns
  <2>3. \A h \in Conn : Owns(t, h) => h = conn[t]
    BY DEF Owns
  <2> QED BY <1>0, <1>30, <2>1, <2>2, <2>3, PutConserves DEF putConnection
<1>31. ASSUME NEW t \in Thread, putAndRetry(t) PROVE ConnectionsConserved'
  <2>1. conn[t] \in Conn /\ Owns(t, conn[t])
    BY <1>0, <1>31, HandTypes DEF putAndRetry, Owns
  <2>2. \A u \in Thread, h \in Conn : Owns(u, h)' <=> Owns(u, h) /\ u # t
    BY <1>0, <1>31, HandTypes DEF putAndRetry, Owns
  <2>3. \A h \in Conn : Owns(t, h) => h = conn[t]
    BY DEF Owns
  <2> QED BY <1>0, <1>31, <2>1, <2>2, <2>3, PutConserves DEF putAndRetry
<1>32. ASSUME NEW t \in Thread, putAfterCreate(t) PROVE ConnectionsConserved'
  <2>1. conn[t] \in Conn /\ Owns(t, conn[t])
    BY <1>0, <1>32, HandTypes DEF putAfterCreate, Owns
  <2>2. \A u \in Thread, h \in Conn : Owns(u, h)' <=> Owns(u, h) /\ u # t
    BY <1>0, <1>32, HandTypes DEF putAfterCreate, Owns
  <2>3. \A h \in Conn : Owns(t, h) => h = conn[t]
    BY DEF Owns
  <2> QED BY <1>0, <1>32, <2>1, <2>2, <2>3, PutConserves DEF putAfterCreate
<1>33. ASSUME NEW t \in Thread, putAfterOpen(t) PROVE ConnectionsConserved'
  <2>1. conn[t] \in Conn /\ Owns(t, conn[t])
    BY <1>0, <1>33, HandTypes DEF putAfterOpen, Owns
  <2>2. \A u \in Thread, h \in Conn : Owns(u, h)' <=> Owns(u, h) /\ u # t
    BY <1>0, <1>33, HandTypes DEF putAfterOpen, Owns
  <2>3. \A h \in Conn : Owns(t, h) => h = conn[t]
    BY DEF Owns
  <2> QED BY <1>0, <1>33, <2>1, <2>2, <2>3, PutConserves DEF putAfterOpen
<1>34. ASSUME NEW t \in Thread, putChannel(t) PROVE ConnectionsConserved'
  <2>1. connections' = connections
    BY <1>34 DEF putChannel
  <2>2. \A u \in Thread, h \in Conn : Owns(u, h)' <=> Owns(u, h)
    BY <1>0, <1>34, HandTypes DEF putChannel, Owns
  <2> QED BY <1>0, <2>1, <2>2, QueueFrame
<1>35. ASSUME NEW t \in Thread, poolCreatedChannel(t) PROVE ConnectionsConserved'
  <2>1. connections' = connections
    BY <1>35 DEF poolCreatedChannel
  <2>2. \A u \in Thread, h \in Conn : Owns(u, h)' <=> Owns(u, h)
    BY <1>0, <1>35, HandTypes DEF poolCreatedChannel, Owns
  <2> QED BY <1>0, <2>1, <2>2, QueueFrame
<1>36. ASSUME NEW t \in Thread, poolLastChannel(t) PROVE ConnectionsConserved'
  <2>1. connections' = connections
    BY <1>36 DEF poolLastChannel
  <2>2. \A u \in Thread, h \in Conn : Owns(u, h)' <=> Owns(u, h)
    BY <1>0, <1>36, HandTypes DEF poolLastChannel, Owns
  <2> QED BY <1>0, <2>1, <2>2, QueueFrame
<1>37. ASSUME NEW h \in Conn, loseConnection(h) PROVE ConnectionsConserved'
  <2>1. connections' = connections /\ UNCHANGED threads
    BY <1>37 DEF loseConnection
  <2> QED BY <1>0, <2>1, QueueFrame DEF Owns
<1>38. ASSUME NEW h \in Conn, notifyError(h) PROVE ConnectionsConserved'
  <2>1. connections' = connections /\ UNCHANGED threads
    BY <1>38 DEF notifyError
  <2> QED BY <1>0, <2>1, QueueFrame DEF Owns
<1>39. ASSUME NEW h \in Conn, closeErrors(h) PROVE ConnectionsConserved'
  <2>1. connections' = connections /\ UNCHANGED threads
    BY <1>39 DEF closeErrors
  <2> QED BY <1>0, <2>1, QueueFrame DEF Owns
<1>40. ASSUME NEW h \in Conn, shutdownUnnoticed(h) PROVE ConnectionsConserved'
  <2>1. connections' = connections /\ UNCHANGED threads
    BY <1>40 DEF shutdownUnnoticed
  <2> QED BY <1>0, <2>1, QueueFrame DEF Owns
<1>41. ASSUME NEW h \in Conn, closeStaleErrors(h) PROVE ConnectionsConserved'
  <2>1. connections' = connections /\ UNCHANGED threads
    BY <1>41 DEF closeStaleErrors
  <2> QED BY <1>0, <2>1, QueueFrame DEF Owns
<1>42. CASE UNCHANGED vars
  BY <1>0, <1>42 DEF vars, ConnectionsConserved, Queued, Owns
<1> QED BY <1>1, <1>2, <1>3, <1>4, <1>5, <1>6, <1>7, <1>8, <1>9, <1>10,
           <1>11, <1>12, <1>13, <1>14, <1>15, <1>16, <1>17, <1>18, <1>19,
           <1>20, <1>21, <1>22, <1>23, <1>24, <1>25, <1>26, <1>27, <1>28,
           <1>29, <1>30, <1>31, <1>32, <1>33, <1>34, <1>35, <1>36, <1>37,
           <1>38, <1>39, <1>40, <1>41, <1>42
         DEF Next, UserCall, Acquire, Verify, Return, amqpStep

-----------------------------------------------------------------------------
(* NewConnectionPool leaves a queue of dialled connections and no owner.   *)
LEMMA InitIInv == Init => IInv
<1> SUFFICES ASSUME Init PROVE IInv
  OBVIOUS
<1> USE PoolAssumption DEF Init
<1>1. /\ connections \in Seq(Conn) /\ DOMAIN connections = 1 .. MaxConnectionCount
      /\ \A i \in DOMAIN connections : connections[i] = i - 1
      /\ channels \in Seq(Chan) /\ Range(channels) = {}
  BY DEF Conn, Chan, Range
<1>2. TypeOK
  BY <1>1, PCNames DEF TypeOK, Calls, ConnStates, ErrStates, ChanStates
<1>3. ThreadsOK
  BY DEF ThreadsOK, CallAt, HandsAt, CreatorAt, Initialized, OwnerPCs, VerifyPCs
<1>4. LockHeld
  BY DEF LockHeld, LockedPCs, Conn
<1>5. \A t \in Thread, h \in Conn : ~Owns(t, h)
  BY DEF Owns, OwnerPCs, VerifyPCs
<1>6. ConnectionsConserved
  <2>1. IsInjective(connections)
    BY <1>1 DEF IsInjective
  <2>2. ASSUME NEW h \in Conn PROVE Queued(h)
    <3>1. h + 1 \in DOMAIN connections /\ connections[h + 1] = h
      BY <1>1 DEF Conn
    <3> QED BY <3>1 DEF Queued, Range
  <2> QED BY <1>5, <2>1, <2>2 DEF ConnectionsConserved
<1>7. FlaggedRecovers
  BY <1>5 DEF FlaggedRecovers
<1>8. ChannelsMade /\ ChannelsConserved /\ CachedChannelsMade
  BY <1>1 DEF ChannelsMade, ChannelsConserved, CachedChannelsMade, Cached, Chan, IsInjective
<1>9. DialOnlyWhenClosed
  BY DEF DialOnlyWhenClosed
<1> QED BY <1>2, <1>3, <1>4, <1>6, <1>7, <1>8, <1>9 DEF IInv

-----------------------------------------------------------------------------
(* The conjuncts of IInv hold in every reachable state of the pool.        *)
THEOREM PoolInvariant == Spec => []IInv
<1>1. Init => IInv
  BY InitIInv
<1>2. IInv /\ [Next]_vars => IInv'
  BY TypeStep, ThreadsStep, LockStep, DialStep, MadeStep, CachedStep, FlagStep,
     ConnStep, ChanStep DEF IInv
<1> QED BY <1>1, <1>2, PTL DEF Spec

(* Every variable keeps to the values the code can give it.                *)
THEOREM TypeCorrect == Spec => []TypeOK
<1>1. IInv => TypeOK
  BY DEF IInv
<1> QED BY <1>1, PoolInvariant, PTL

(* No error path of the pool loses or duplicates a connection.             *)
THEOREM NoConnectionLost == Spec => []ConnectionsConserved
<1>1. IInv => ConnectionsConserved
  BY DEF IInv
<1> QED BY <1>1, PoolInvariant, PTL

(* No error path of the pool loses or duplicates a cached channel.         *)
THEOREM NoChannelLost == Spec => []ChannelsConserved
<1>1. IInv => ChannelsConserved
  BY DEF IInv
<1> QED BY <1>1, PoolInvariant, PTL

(* The compare-lock-recompare of ConnectWithErrorHandler never dials over  *)
(* a live connection.                                                      *)
THEOREM NoLiveConnectionReplaced == Spec => []DialOnlyWhenClosed
<1>1. IInv => DialOnlyWhenClosed
  BY DEF IInv
<1> QED BY <1>1, PoolInvariant, PTL

(* A flagged connection is not handed out before its recovery, whatever    *)
(* the goroutines that reconnect channels on it do.                        *)
THEOREM FlaggedNotHandedOut == Spec => []NoFlaggedConnectionInUse
<1>1. IInv => NoFlaggedConnectionInUse
  BY DEF IInv, FlaggedRecovers, NoFlaggedConnectionInUse
<1> QED BY <1>1, PoolInvariant, PTL

(* The cache holds only channels that MakeChannel completed.               *)
THEOREM OnlyMadeChannelsCached == Spec => []CachedChannelsMade
<1>1. IInv => CachedChannelsMade
  BY DEF IInv
<1> QED BY <1>1, PoolInvariant, PTL

=============================================================================
