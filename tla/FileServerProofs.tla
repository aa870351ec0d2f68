--------------------------- MODULE FileServerProofs ---------------------------
(***************************************************************************)
(* The connection pool is correct for every table size below the width of  *)
(* an int, and every width of the word.  The file server's threads are     *)
(* safe for every number of slots, sockets and log messages.  ServerInv is *)
(* inductive; each lemma on the server shows that one step preserves one   *)
(* of its conjuncts.                                                       *)
(***************************************************************************)
EXTENDS FileServer, TLAPS

USE DEF Slots, Bits, LowWord, INT64_MAX

\* Every slot is below the sign bit of an int, so that booking or freeing it
\* touches its own bit and no other.
LEMMA SlotMask ==
  \A o \in Slots : Mask(o) = {o} /\ o \in INT64_MAX /\ o \in LowWord
BY PoolAssumption DEF Mask

\* The position book_pos finds in a word that satisfies the invariant is a 1 of
\* the low half.
LEMMA CtzFinds ==
  ASSUME PoolInv, free_space_bitmap # {}, NEW o \in builtin_ctz(free_space_bitmap)
  PROVE  o \in LowWord /\ o \in free_space_bitmap
<1>1. free_space_bitmap \intersect LowWord # {}
  <2>1. PICK b \in Bits : b \in free_space_bitmap
    BY DEF PoolInv, PoolTypeOK
  <2>2. CASE b < IntBits
    BY <2>1, <2>2, PoolAssumption
  <2>3. CASE b >= IntBits
    <3>1. b \in IntBits - 1 .. WordBits - 2
      BY <2>1, <2>3, PoolAssumption DEF PoolInv
    <3>2. IntBits - 1 \in free_space_bitmap
      BY <2>1, <3>1 DEF PoolInv
    <3>3. QED
      BY <3>2, PoolAssumption
  <2>4. QED
    BY <2>2, <2>3, PoolAssumption
<1>2. QED
  BY <1>1 DEF builtin_ctz

\* A store_connection that satisfies the invariant before it does so after it.
LEMMA StoreInv ==
  ASSUME PoolInv, NEW s \in Sock, NEW res \in Slots \union {NOT_OK},
         store_connection(s, res)
  PROVE  PoolInv'
<1>1. CASE UNCHANGED poolVars
  BY <1>1 DEF PoolInv, PoolTypeOK, BitsMatchSlots, InUse, poolVars
<1>2. ASSUME NEW o \in 0 .. IntBits, free_space_bitmap # {}, book_pos(o)
      PROVE  /\ o \in LowWord /\ o \in free_space_bitmap
             /\ free_space_bitmap' \in SUBSET Bits
             /\ WordBits - 1 \notin free_space_bitmap'
             /\ \A b \in IntBits - 1 .. WordBits - 2 :
                  b \in free_space_bitmap' <=> IntBits - 1 \in free_space_bitmap'
             /\ \A p \in Slots : p \in free_space_bitmap'
                                 <=> p \in free_space_bitmap /\ p # o
  <2>1. o \in LowWord /\ o \in free_space_bitmap
    BY <1>2, CtzFinds DEF book_pos
  <2>2. CASE o = IntBits - 1
    <3>1. free_space_bitmap' = free_space_bitmap \ (o .. WordBits - 1)
      BY <1>2, <2>2 DEF book_pos, Mask
    <3>2. QED
      BY <2>1, <2>2, <3>1, PoolAssumption DEF PoolInv, PoolTypeOK
  <2>3. CASE o # IntBits - 1
    <3>1. o % IntBits = o
      BY <2>1, PoolAssumption
    <3>2. free_space_bitmap' = free_space_bitmap \ {o}
      BY <1>2, <2>3, <3>1 DEF book_pos, Mask
    <3>3. QED
      BY <2>1, <2>3, <3>2, PoolAssumption DEF PoolInv, PoolTypeOK
  <2>4. QED
    BY <2>2, <2>3
<1>3. ASSUME NEW o \in 0 .. IntBits, free_space_bitmap # {}, book_pos(o),
             o >= Size, UNCHANGED connections
      PROVE  PoolInv'
  BY <1>2, <1>3, PoolAssumption DEF PoolInv, PoolTypeOK, BitsMatchSlots, InUse
<1>4. ASSUME NEW o \in 0 .. IntBits, free_space_bitmap # {}, book_pos(o), o < Size,
             connections' = [connections EXCEPT ![o] =
                [thread_id |-> "garbage", connection_sock |-> s, offset |-> o]]
      PROVE  PoolInv'
  <2> DEFINE d == [thread_id |-> "garbage", connection_sock |-> s, offset |-> o]
  <2>1. o \in Slots
    BY <1>4, PoolAssumption
  <2>2. d \in ConnectionDesc /\ d # ZeroDesc /\ d.offset = o /\ d.connection_sock # 0
    BY <2>1, PoolAssumption DEF ConnectionDesc, ZeroDesc
  <2>3. connections' \in [Slots -> ConnectionDesc]
    BY <1>4, <2>1, <2>2 DEF PoolInv, PoolTypeOK
  <2>4. /\ connections'[o] = d
        /\ \A p \in Slots : p # o => connections'[p] = connections[p]
    BY <1>4, <2>1 DEF PoolInv, PoolTypeOK
  <2> HIDE DEF d
  <2>5. BitsMatchSlots'
    BY <1>2, <1>4, <2>2, <2>4 DEF PoolInv, BitsMatchSlots
  <2>6. \A p \in Slots : IF InUse(p)' THEN connections'[p].offset = p
                                    ELSE connections'[p] = ZeroDesc
    BY <2>2, <2>4 DEF PoolInv, InUse
  <2>7. QED
    BY <1>2, <1>4, <2>3, <2>5, <2>6 DEF PoolInv, PoolTypeOK, InUse
<1>5. QED
  BY <1>1, <1>3, <1>4 DEF store_connection

\* So does the release of a slot that is in use.
LEMMA ReleaseInv ==
  ASSUME PoolInv, NEW o \in Slots, InUse(o), release_connection(o)
  PROVE  PoolInv'
<1>1. free_space_bitmap' = free_space_bitmap \union {o}
  BY SlotMask DEF release_connection, unbook_pos
<1>2. connections' = [connections EXCEPT ![o] = ZeroDesc]
  BY DEF release_connection
<1>3. ZeroDesc \in ConnectionDesc /\ ZeroDesc.connection_sock = 0
  BY PoolAssumption DEF ConnectionDesc, ZeroDesc
<1>4. PoolTypeOK'
  BY <1>1, <1>2, <1>3, PoolAssumption DEF PoolInv, PoolTypeOK
<1>5. BitsMatchSlots'
  BY <1>1, <1>2 DEF PoolInv, PoolTypeOK, BitsMatchSlots
<1>6. \A p \in Slots : IF InUse(p)' THEN connections'[p].offset = p
                                    ELSE connections'[p] = ZeroDesc
  BY <1>2, <1>3 DEF PoolInv, PoolTypeOK, InUse
<1>7. /\ WordBits - 1 \notin free_space_bitmap'
      /\ \A b \in IntBits - 1 .. WordBits - 2 :
           b \in free_space_bitmap' <=> IntBits - 1 \in free_space_bitmap'
  BY <1>1, PoolAssumption DEF PoolInv
<1>8. QED
  BY <1>4, <1>5, <1>6, <1>7 DEF PoolInv, InUse

\* And so does the store of a thread id.
LEMMA SetTidInv ==
  ASSUME PoolInv, NEW o \in Slots, InUse(o), get_tid_pos(o)
  PROVE  PoolInv'
<1> DEFINE d == [connections[o] EXCEPT !.thread_id = "valid"]
<1>1. connections' = [connections EXCEPT ![o] = d] /\ free_space_bitmap' = free_space_bitmap
  BY DEF get_tid_pos
<1>2. connections[o] \in ConnectionDesc
  BY DEF PoolInv, PoolTypeOK
<1>3. /\ d \in ConnectionDesc
      /\ d.connection_sock = connections[o].connection_sock
      /\ d.offset = connections[o].offset
  BY <1>2 DEF ConnectionDesc
<1>4. d # ZeroDesc /\ connections[o] # ZeroDesc
  BY <1>3 DEF InUse, ZeroDesc
<1> HIDE DEF d
<1>5. PoolTypeOK'
  BY <1>1, <1>3 DEF PoolInv, PoolTypeOK
<1>6. BitsMatchSlots'
  BY <1>1, <1>4 DEF PoolInv, PoolTypeOK, BitsMatchSlots
<1>7. \A p \in Slots : IF InUse(p)' THEN connections'[p].offset = p
                                    ELSE connections'[p] = ZeroDesc
  BY <1>1, <1>3 DEF PoolInv, PoolTypeOK, InUse
<1>8. QED
  BY <1>1, <1>5, <1>6, <1>7 DEF PoolInv, InUse

\* A new pool satisfies the invariant.
LEMMA InitInv == PoolInit => PoolInv
<1> SUFFICES ASSUME PoolInit PROVE PoolInv
  OBVIOUS
<1>1. \A o \in Slots : connections[o] = ZeroDesc
  BY DEF PoolInit, create_conn_pool
<1>2. ZeroDesc \in ConnectionDesc /\ ZeroDesc.connection_sock = 0
  BY PoolAssumption DEF ConnectionDesc, ZeroDesc
<1>3. PoolTypeOK
  BY <1>2, PoolAssumption DEF PoolInit, create_conn_pool, PoolTypeOK
<1>4. BitsMatchSlots
  BY <1>1, PoolAssumption DEF PoolInit, create_conn_pool, BitsMatchSlots
<1>5. QED
  BY <1>1, <1>2, <1>3, <1>4, PoolAssumption
  DEF PoolInit, create_conn_pool, PoolInv, InUse

\* One step of the pool.
LEMMA NextInv == PoolInv /\ [PoolNext]_poolVars => PoolInv'
<1> SUFFICES ASSUME PoolInv, [PoolNext]_poolVars PROVE PoolInv'
  OBVIOUS
<1>1. CASE Store
  BY <1>1, StoreInv DEF Store
<1>2. CASE SetTid
  BY <1>2, SetTidInv DEF SetTid
<1>3. CASE Release
  BY <1>3, ReleaseInv DEF Release
<1>4. CASE UNCHANGED poolVars
  BY <1>4 DEF PoolInv, PoolTypeOK, BitsMatchSlots, InUse, poolVars
<1>5. QED
  BY <1>1, <1>2, <1>3, <1>4 DEF PoolNext

\* The bitmap and the table never disagree, whatever the callers store and
\* release: a slot's bit is 1 exactly when its descriptor is zeroed.
THEOREM BitmapCorrect == PoolSpec => []BitsMatchSlots
<1>1. PoolInv => BitsMatchSlots
  BY DEF PoolInv
<1>2. QED
  BY InitInv, NextInv, <1>1, PTL DEF PoolSpec

\* book_pos never calls __builtin_ctz on a zero low half, although
\* store_connection only tests the whole word.
THEOREM CtzNeverUndefined == PoolSpec => []CtzDefined
<1>1. PoolInv => CtzDefined
  <2> SUFFICES ASSUME PoolInv, NEW b \in free_space_bitmap
               PROVE  free_space_bitmap \intersect LowWord # {}
    BY DEF CtzDefined
  <2>1. b \in Bits
    BY DEF PoolInv, PoolTypeOK
  <2>2. CASE b < IntBits
    BY <2>1, <2>2, PoolAssumption
  <2>3. CASE b >= IntBits
    <3>1. b \in IntBits - 1 .. WordBits - 2
      BY <2>1, <2>3, PoolAssumption DEF PoolInv
    <3>2. IntBits - 1 \in free_space_bitmap
      BY <3>1 DEF PoolInv
    <3>3. QED
      BY <3>2, PoolAssumption
  <2>4. QED
    BY <2>1, <2>2, <2>3, PoolAssumption
<1>2. QED
  BY InitInv, NextInv, <1>1, PTL DEF PoolSpec

\* A bit lost past the end of the table is lost for good: unbook_pos is only
\* ever given the offset of a slot.
THEOREM LeaksArePermanent == PoolSpec => LeakIsPermanent
<1>1. [PoolNext]_poolVars =>
        [free_space_bitmap' \intersect Overflow \subseteq free_space_bitmap]_poolVars
  <2> SUFFICES ASSUME PoolNext
               PROVE  free_space_bitmap' \intersect Overflow \subseteq free_space_bitmap
    OBVIOUS
  <2>1. CASE Store
    BY <2>1 DEF Store, store_connection, book_pos, poolVars
  <2>2. CASE SetTid
    BY <2>2 DEF SetTid, get_tid_pos
  <2>3. CASE Release
    <3>1. PICK o \in Slots : free_space_bitmap' = free_space_bitmap \union {o}
      BY <2>3, SlotMask DEF Release, release_connection, unbook_pos
    <3>2. QED
      BY <3>1 DEF Overflow
  <2>4. QED
    BY <2>1, <2>2, <2>3 DEF PoolNext
<1>2. QED
  BY <1>1, PTL DEF PoolSpec, LeakIsPermanent

\* The pool implements the slot allocator.
THEOREM PoolImplementsAllocator == PoolSpec => ImplementsAllocator
<1> DEFINE h == [o \in Slots |-> connections[o].connection_sock]
<1>1. PoolInit => Allocator!Init
  BY DEF PoolInit, create_conn_pool, Allocator!Init, ZeroDesc
<1>2. PoolInv /\ [PoolNext]_poolVars => [Allocator!Next]_h
  <2> SUFFICES ASSUME PoolInv, [PoolNext]_poolVars
               PROVE  Allocator!Next \/ UNCHANGED h
    OBVIOUS
  <2>0. connections \in [Slots -> ConnectionDesc]
    BY DEF PoolInv, PoolTypeOK
  <2>1. ASSUME NEW s \in Sock, NEW o \in 0 .. IntBits, free_space_bitmap # {},
               book_pos(o), o < Size,
               connections' = [connections EXCEPT ![o] =
                  [thread_id |-> "garbage", connection_sock |-> s, offset |-> o]]
        PROVE  Allocator!Next
    <3>1. o \in Slots /\ o \in free_space_bitmap
      BY <2>1, CtzFinds, PoolAssumption DEF book_pos
    <3>2. h[o] = 0
      BY <3>1 DEF PoolInv, BitsMatchSlots, ZeroDesc
    <3>3. h' = [h EXCEPT ![o] = s]
      BY <2>0, <2>1, <3>1
    <3>4. QED
      BY <3>1, <3>2, <3>3 DEF Allocator!Next, Allocator!Acquire
  <2>2. CASE Store
    BY <2>1, <2>2 DEF Store, store_connection, poolVars
  <2>3. CASE SetTid
    <3>1. PICK o \in Slots : get_tid_pos(o)
      BY <2>3 DEF SetTid
    <3>2. \A p \in Slots : connections'[p].connection_sock = connections[p].connection_sock
      BY <2>0, <3>1 DEF get_tid_pos, ConnectionDesc
    <3>3. QED
      BY <3>2
  <2>4. CASE Release
    <3>1. PICK o \in Slots : InUse(o) /\ release_connection(o)
      BY <2>4 DEF Release
    <3>2. h[o] # 0
      BY <3>1 DEF InUse
    <3>3. h' = [h EXCEPT ![o] = 0]
      BY <2>0, <3>1 DEF release_connection, ZeroDesc
    <3>4. QED
      BY <3>1, <3>2, <3>3 DEF Allocator!Next, Allocator!GiveBack
  <2>5. CASE UNCHANGED poolVars
    BY <2>5 DEF poolVars
  <2>6. QED
    BY <2>2, <2>3, <2>4, <2>5 DEF PoolNext
<1>3. QED
  BY InitInv, NextInv, <1>1, <1>2, PTL DEF PoolSpec, ImplementsAllocator, Allocator!Spec

HIDE DEF Slots, Bits, LowWord, INT64_MAX

-------------------------------------------------------------------------------
\* Steps of the main thread that touch neither the pool, nor a worker, nor the
\* table of open sockets.
StartStep == start_log_routine \/ create_server \/ BindFailed \/ Leave \/ LogHello \/ CreatePool
LoopStep  == LoopTest \/ Select \/ LockPool \/ CheckFull \/ DetachThread \/ UnlockPool
EndStep   == WaitRoutinesLock \/ WaitRoutinesCheck \/ destruct_conn_pool \/ LogBye \/ free_pipe
             \/ SetShutdownFlag \/ JoinLog \/ destroy_log \/ Exit
OtherStep == log_writer_routine \/ SignalFlag \/ SignalWrite \/ Connect \/ SpuriousWakeup

\* The cases of a step.
LEMMA NextCases ==
  ASSUME Next
  PROVE  /\ Alive
         /\ \/ StartStep \/ LoopStep \/ EndStep \/ OtherStep
            \/ Accept \/ StoreConnection \/ CreateThread
            \/ \E o \in Slots : \/ CopyDesc(o) \/ WorkerLog(o) \/ serve_connection(o)
                                \/ WorkerLock(o) \/ WorkerRelease(o) \/ WorkerUnlock(o)
BY DEF Next, MainStep, StartStep, LoopStep, EndStep, OtherStep, Worker

\* Those steps leave the pool, the workers and the open sockets alone.
LEMMA Quiet ==
  StartStep \/ LoopStep \/ EndStep \/ OtherStep
    => UNCHANGED <<poolVars, workVars, open_socks>>
<1>1. StartStep => UNCHANGED <<poolVars, workVars, open_socks>>
  BY DEF StartStep, start_log_routine, create_server, BindFailed, Leave, LogHello,
         CreatePool, netVars
<1>2. LoopStep => UNCHANGED <<poolVars, workVars, open_socks>>
  BY DEF LoopStep, LoopTest, Select, LockPool, CheckFull, DetachThread, UnlockPool, netVars
<1>3. EndStep => UNCHANGED <<poolVars, workVars, open_socks>>
  BY DEF EndStep, WaitRoutinesLock, WaitRoutinesCheck, destruct_conn_pool, LogBye, free_pipe,
         SetShutdownFlag, JoinLog, destroy_log, Exit, netVars
<1>4. OtherStep => UNCHANGED <<poolVars, workVars, open_socks>>
  BY DEF OtherStep, log_writer_routine, SignalFlag, SignalWrite, Connect, SpuriousWakeup, netVars
<1>5. QED
  BY <1>1, <1>2, <1>3, <1>4

\* What main_loop's test for a full pool leads to.
LEMMA CheckFullCases ==
  ASSUME CheckFull
  PROVE  /\ At("check")
         /\ \/ GotoOnly("store") /\ UNCHANGED lock
            \/ /\ GotoOnly("full_wait") /\ Unlock(Main)
               /\ free_space_bitmap \intersect Slots = {}
         /\ UNCHANGED <<poolVars, workVars, netVars, sigVars, logVars, pool>>
<1>1. TRUE \in pool_is_full => free_space_bitmap \intersect Slots = {}
  BY Zenon DEF pool_is_full
<1>2. QED
  BY <1>1, Zenon DEF CheckFull

\* A worker that releases a slot releases its own, which is in use.
LEMMA ReleaseOwn ==
  ASSUME ServerInv, NEW o \in Slots, WorkerRelease(o)
  PROVE  conn_desc[o].offset = o /\ InUse(o)
<1>1. Live(o) /\ Serving(o)
  BY DEF WorkerRelease, WorkerGoto, Live, Serving, WorkerPC
<1>2. InUse(o) /\ conn_desc[o] = connections[o]
  BY <1>1 DEF ServerInv, ThreadInv
<1>3. QED
  BY <1>2 DEF ServerInv, PoolInv

\* Every step of the server is a step the pool allows, or leaves the pool alone.
LEMMA PoolStep == ServerInv /\ [Next]_vars => [PoolNext]_poolVars
<1> SUFFICES ASSUME ServerInv, Next PROVE PoolNext \/ UNCHANGED poolVars
  BY DEF vars
<1>1. CASE StartStep \/ LoopStep \/ EndStep \/ OtherStep
  BY <1>1, Quiet
<1>2. CASE Accept
  BY <1>2 DEF Accept
<1>3. CASE StoreConnection
  <2>1. connection_sock \in Sock
    BY <1>3 DEF StoreConnection, At, ServerInv, SocketInv, Holding, TypeOK
  <2>2. QED
    BY <1>3, <2>1 DEF StoreConnection, PoolNext, Store
<1>4. CASE CreateThread
  <2>1. offset \in Slots /\ InUse(offset)
    BY <1>4 DEF CreateThread, At, ServerInv, ThreadInv
  <2>2. QED
    BY <1>4, <2>1 DEF CreateThread, PoolNext, SetTid, Release
<1>5. ASSUME NEW o \in Slots, WorkerRelease(o) PROVE PoolNext
  BY <1>5, ReleaseOwn DEF WorkerRelease, PoolNext, Release
<1>6. ASSUME NEW o \in Slots,
             CopyDesc(o) \/ WorkerLog(o) \/ serve_connection(o) \/ WorkerLock(o) \/ WorkerUnlock(o)
      PROVE  UNCHANGED poolVars
  BY <1>6 DEF CopyDesc, WorkerLog, serve_connection, WorkerLock, WorkerUnlock
<1>7. QED
  BY NextCases, <1>1, <1>2, <1>3, <1>4, <1>5, <1>6

\* Types.
LEMMA TypeStep == ServerInv /\ Next => TypeOK'
<1> SUFFICES ASSUME ServerInv, Next PROVE TypeOK'
  OBVIOUS
<1>0. TypeOK /\ PoolTypeOK'
  <2>1. PoolInv'
    BY PoolStep, NextInv DEF ServerInv
  <2>2. QED
    BY <2>1 DEF ServerInv, PoolInv
<1> USE DEF TypeOK, MainPC, WorkerPC, LogPC, mainVars, netVars, sigVars, logVars, workVars,
            GotoOnly, Goto
<1>1. CASE StartStep
  <2>1. CASE start_log_routine
    BY <1>0, LogAssumption, <2>1 DEF start_log_routine
  <2>2. CASE create_server
    BY <1>0, LogAssumption, <2>2 DEF create_server
  <2>3. CASE BindFailed
    BY <1>0, LogAssumption, <2>3 DEF BindFailed
  <2>4. CASE Leave
    BY <1>0, LogAssumption, <2>4 DEF Leave
  <2>5. CASE LogHello
    BY <1>0, LogAssumption, <2>5 DEF LogHello, push_message
  <2>6. CASE CreatePool
    BY <1>0, LogAssumption, <2>6 DEF CreatePool
  <2>7. QED
    BY <1>1, <2>1, <2>2, <2>3, <2>4, <2>5, <2>6 DEF StartStep
<1>2. CASE LoopStep
  <2>1. CASE LoopTest
    BY <1>0, <2>1 DEF LoopTest
  <2>2. CASE Select
    BY <1>0, <2>2 DEF Select
  <2>3. CASE LockPool
    BY <1>0, <2>3 DEF LockPool, Lock, Unlock
  <2>4. CASE CheckFull
    BY <1>0, <2>4, CheckFullCases DEF Unlock
  <2>5. CASE DetachThread
    BY <1>0, <2>5 DEF DetachThread
  <2>6. CASE UnlockPool
    BY <1>0, <2>6 DEF UnlockPool, Lock, Unlock
  <2>7. QED
    BY <1>2, <2>1, <2>2, <2>3, <2>4, <2>5, <2>6 DEF LoopStep
<1>3. CASE EndStep
  <2>1. CASE WaitRoutinesLock
    BY <1>0, LogAssumption, <2>1 DEF WaitRoutinesLock, Lock, Unlock
  <2>2. CASE WaitRoutinesCheck
    BY <1>0, LogAssumption, <2>2 DEF WaitRoutinesCheck, Lock, Unlock
  <2>3. CASE destruct_conn_pool
    BY <1>0, LogAssumption, <2>3 DEF destruct_conn_pool
  <2>4. CASE LogBye
    BY <1>0, LogAssumption, <2>4 DEF LogBye, push_message
  <2>5. CASE free_pipe
    BY <1>0, LogAssumption, <2>5 DEF free_pipe
  <2>6. CASE SetShutdownFlag
    BY <1>0, LogAssumption, <2>6 DEF SetShutdownFlag
  <2>7. CASE JoinLog
    BY <1>0, LogAssumption, <2>7 DEF JoinLog
  <2>8. CASE destroy_log
    BY <1>0, LogAssumption, <2>8 DEF destroy_log
  <2>9. CASE Exit
    BY <1>0, LogAssumption, <2>9 DEF Exit
  <2>10. QED
    BY <1>3, <2>1, <2>2, <2>3, <2>4, <2>5, <2>6, <2>7, <2>8, <2>9 DEF EndStep
<1>4. CASE OtherStep
  <2>1. CASE log_writer_routine
    BY <1>0, LogAssumption, <2>1 DEF log_writer_routine, LogTest, pop_message, write_to_logfile
  <2>2. CASE SignalFlag
    BY <1>0, LogAssumption, <2>2 DEF SignalFlag
  <2>3. CASE SignalWrite
    BY <1>0, LogAssumption, <2>3 DEF SignalWrite
  <2>4. CASE Connect
    BY <1>0, LogAssumption, <2>4 DEF Connect
  <2>5. CASE SpuriousWakeup
    BY <1>0, LogAssumption, <2>5 DEF SpuriousWakeup
  <2>6. QED
    BY <1>4, <2>1, <2>2, <2>3, <2>4, <2>5 DEF OtherStep
<1>5. CASE Accept
  <2>1. pending' \in BOOLEAN
    BY <1>5, Zenon DEF Accept
  <2>2. /\ mainpc' \in MainPC /\ connection_sock' \in Sock \union {0}
        /\ open_socks' \in SUBSET Sock
    BY <1>0, <1>5 DEF Accept
  <2>3. QED
    BY <1>0, <1>5, <2>1, <2>2 DEF Accept
<1>6. CASE StoreConnection
  BY <1>0, <1>6 DEF StoreConnection
<1>7. CASE CreateThread
  <2>1. offset \in Slots
    BY <1>7 DEF CreateThread, At, ServerInv, ThreadInv
  <2>2. QED
    BY <1>0, <1>7, <2>1 DEF CreateThread
<1>8. ASSUME NEW o \in Slots, CopyDesc(o) PROVE TypeOK'
  BY <1>0, <1>8 DEF CopyDesc, WorkerGoto, PoolTypeOK
<1>9. ASSUME NEW o \in Slots, WorkerLog(o) PROVE TypeOK'
  BY <1>0, <1>9, LogAssumption DEF WorkerLog, WorkerGoto, push_message
<1>10. ASSUME NEW o \in Slots, serve_connection(o) PROVE TypeOK'
  BY <1>0, <1>10 DEF serve_connection, WorkerGoto
<1>11. ASSUME NEW o \in Slots, WorkerLock(o) PROVE TypeOK'
  BY <1>0, <1>11 DEF WorkerLock, WorkerGoto, Lock
<1>12. ASSUME NEW o \in Slots, WorkerRelease(o) PROVE TypeOK'
  BY <1>0, <1>12 DEF WorkerRelease, WorkerGoto, Broadcast
<1>13. ASSUME NEW o \in Slots, WorkerUnlock(o) PROVE TypeOK'
  <2>1. ZeroDesc \in ConnectionDesc
    BY PoolAssumption DEF ZeroDesc, ConnectionDesc, Slots
  <2>2. QED
    BY <1>0, <1>13, <2>1 DEF WorkerUnlock, WorkerGoto, Unlock
<1>14. QED
  BY NextCases, <1>1, <1>2, <1>3, <1>4, <1>5, <1>6, <1>7, <1>8, <1>9, <1>10, <1>11, <1>12,
     <1>13

\* Mutual exclusion.
LEMMA MutexStep == ServerInv /\ Next => MutexHeld'
<1> SUFFICES ASSUME ServerInv, Next PROVE MutexHeld'
  OBVIOUS
<1>0. TypeOK /\ MutexHeld
  BY DEF ServerInv
<1> USE DEF MutexHeld, TypeOK, Main, Free, Slots, Lock, Unlock, At, GotoOnly, Goto, mainVars,
            workVars
<1>1. CASE StartStep
  <2>1. CASE start_log_routine
    BY <1>0, <2>1 DEF start_log_routine
  <2>2. CASE create_server
    BY <1>0, <2>2 DEF create_server
  <2>3. CASE BindFailed
    BY <1>0, <2>3 DEF BindFailed
  <2>4. CASE Leave
    BY <1>0, <2>4 DEF Leave
  <2>5. CASE LogHello
    BY <1>0, <2>5 DEF LogHello
  <2>6. CASE CreatePool
    BY <1>0, <2>6 DEF CreatePool
  <2>7. QED
    BY <1>1, <2>1, <2>2, <2>3, <2>4, <2>5, <2>6 DEF StartStep
<1>2. CASE LoopStep
  <2>1. CASE LoopTest
    BY <1>0, <2>1 DEF LoopTest
  <2>2. CASE Select
    BY <1>0, <2>2 DEF Select
  <2>3. CASE LockPool
    BY <1>0, <2>3 DEF LockPool
  <2>4. CASE CheckFull
    BY <1>0, <2>4, CheckFullCases
  <2>5. CASE DetachThread
    BY <1>0, <2>5 DEF DetachThread
  <2>6. CASE UnlockPool
    BY <1>0, <2>6 DEF UnlockPool
  <2>7. QED
    BY <1>2, <2>1, <2>2, <2>3, <2>4, <2>5, <2>6 DEF LoopStep
<1>3. CASE EndStep
  <2>1. CASE WaitRoutinesLock
    BY <1>0, <2>1 DEF WaitRoutinesLock
  <2>2. CASE WaitRoutinesCheck
    BY <1>0, <2>2 DEF WaitRoutinesCheck
  <2>3. CASE destruct_conn_pool
    BY <1>0, <2>3 DEF destruct_conn_pool
  <2>4. CASE LogBye
    BY <1>0, <2>4 DEF LogBye
  <2>5. CASE free_pipe
    BY <1>0, <2>5 DEF free_pipe
  <2>6. CASE SetShutdownFlag
    BY <1>0, <2>6 DEF SetShutdownFlag
  <2>7. CASE JoinLog
    BY <1>0, <2>7 DEF JoinLog
  <2>8. CASE destroy_log
    BY <1>0, <2>8 DEF destroy_log
  <2>9. CASE Exit
    BY <1>0, <2>9 DEF Exit
  <2>10. QED
    BY <1>3, <2>1, <2>2, <2>3, <2>4, <2>5, <2>6, <2>7, <2>8, <2>9 DEF EndStep
<1>4. CASE OtherStep
  <2>1. CASE log_writer_routine
    BY <1>0, <2>1 DEF log_writer_routine
  <2>2. CASE SignalFlag
    BY <1>0, <2>2 DEF SignalFlag
  <2>3. CASE SignalWrite
    BY <1>0, <2>3 DEF SignalWrite
  <2>4. CASE Connect
    BY <1>0, <2>4 DEF Connect
  <2>5. CASE SpuriousWakeup
    BY <1>0, <2>5 DEF SpuriousWakeup
  <2>6. QED
    BY <1>4, <2>1, <2>2, <2>3, <2>4, <2>5 DEF OtherStep
<1>5. CASE Accept
  BY <1>0, <1>5 DEF Accept
<1>6. CASE StoreConnection
  BY <1>0, <1>6 DEF StoreConnection
<1>7. CASE CreateThread
  BY <1>0, <1>7 DEF CreateThread
<1>8. ASSUME NEW o \in Slots,
             CopyDesc(o) \/ WorkerLog(o) \/ serve_connection(o) \/ WorkerRelease(o)
      PROVE  MutexHeld'
  BY <1>0, <1>8 DEF CopyDesc, WorkerLog, serve_connection, WorkerRelease, WorkerGoto, Broadcast
<1>9. ASSUME NEW o \in Slots, WorkerLock(o) PROVE MutexHeld'
  BY <1>0, <1>9, PoolAssumption DEF WorkerLock, WorkerGoto
<1>10. ASSUME NEW o \in Slots, WorkerUnlock(o) PROVE MutexHeld'
  BY <1>0, <1>10, PoolAssumption DEF WorkerUnlock, WorkerGoto
<1>11. QED
  BY NextCases, <1>1, <1>2, <1>3, <1>4, <1>5, <1>6, <1>7, <1>8, <1>9, <1>10

\* When wait_routines finds the pool free, with the mutex held, no worker is left.
LEMMA FreeMeansDone ==
  ASSUME ServerInv, At("drain_check"), pool_is_free
  PROVE  \A o \in Slots : pc[o] = "none"
<1> SUFFICES ASSUME NEW o \in Slots PROVE pc[o] = "none"
  OBVIOUS
<1>1. ~InUse(o)
  BY SlotMask DEF ServerInv, PoolInv, BitsMatchSlots, pool_is_free, InUse, ZeroDesc
<1>2. ~Live(o)
  BY <1>1 DEF ServerInv, ThreadInv
<1>3. pc[o] \notin {"log_unlock", "unlock"}
  BY PoolAssumption DEF ServerInv, MutexHeld, At, Main, Slots
<1>4. pc[o] \in WorkerPC
  BY DEF ServerInv, TypeOK
<1>5. QED
  BY <1>2, <1>3, <1>4 DEF Live, WorkerPC

\* The phases of the main thread.
LEMMA PhaseStep == ServerInv /\ Next => PhaseInv'
<1> SUFFICES ASSUME ServerInv, Next PROVE PhaseInv'
  OBVIOUS
<1>0. PhaseInv /\ TypeOK
  BY DEF ServerInv
<1> USE DEF PhaseInv, Starting, Looping, Drained, At, GotoOnly, Goto, mainVars, workVars,
            poolVars, pool_is_free
<1>1. CASE StartStep
  <2>1. CASE start_log_routine
    BY <1>0, <2>1 DEF start_log_routine
  <2>2. CASE create_server
    BY <1>0, <2>2 DEF create_server
  <2>3. CASE BindFailed
    BY <1>0, <2>3 DEF BindFailed
  <2>4. CASE Leave
    BY <1>0, <2>4 DEF Leave
  <2>5. CASE LogHello
    BY <1>0, <2>5 DEF LogHello
  <2>6. CASE CreatePool
    BY <1>0, <2>6 DEF CreatePool
  <2>7. QED
    BY <1>1, <2>1, <2>2, <2>3, <2>4, <2>5, <2>6 DEF StartStep
<1>2. CASE LoopStep
  <2>1. CASE LoopTest
    BY <1>0, <2>1 DEF LoopTest
  <2>2. CASE Select
    BY <1>0, <2>2 DEF Select
  <2>3. CASE LockPool
    BY <1>0, <2>3 DEF LockPool
  <2>4. CASE CheckFull
    BY <1>0, <2>4, CheckFullCases
  <2>5. CASE DetachThread
    BY <1>0, <2>5 DEF DetachThread
  <2>6. CASE UnlockPool
    BY <1>0, <2>6 DEF UnlockPool
  <2>7. QED
    BY <1>2, <2>1, <2>2, <2>3, <2>4, <2>5, <2>6 DEF LoopStep
<1>3. CASE EndStep
  <2>1. CASE WaitRoutinesLock
    BY <1>0, <2>1 DEF WaitRoutinesLock
  <2>2. CASE WaitRoutinesCheck
    BY <1>0, <2>2, FreeMeansDone DEF WaitRoutinesCheck
  <2>3. CASE destruct_conn_pool
    BY <1>0, <2>3 DEF destruct_conn_pool
  <2>4. CASE LogBye \/ free_pipe \/ SetShutdownFlag
    BY <1>0, <2>4 DEF LogBye, free_pipe, SetShutdownFlag
  <2>5. CASE JoinLog \/ destroy_log \/ Exit
    BY <1>0, <2>5 DEF JoinLog, destroy_log, Exit
  <2>6. QED
    BY <1>3, <2>1, <2>2, <2>3, <2>4, <2>5 DEF EndStep
<1>4. CASE OtherStep
  <2>1. CASE log_writer_routine \/ SignalFlag \/ Connect
    BY <1>0, <2>1 DEF log_writer_routine, SignalFlag, Connect
  <2>2. CASE SignalWrite
    BY <1>0, <2>2 DEF SignalWrite
  <2>3. CASE SpuriousWakeup
    BY <1>0, <2>3 DEF SpuriousWakeup
  <2>4. QED
    BY <1>4, <2>1, <2>2, <2>3 DEF OtherStep
<1>5. CASE Accept
  BY <1>0, <1>5 DEF Accept
<1>6. CASE StoreConnection
  BY <1>0, <1>6 DEF StoreConnection
<1>7. CASE CreateThread
  BY <1>0, <1>7 DEF CreateThread
<1>8. ASSUME NEW o \in Slots,
             CopyDesc(o) \/ WorkerLog(o) \/ WorkerLock(o) \/ WorkerUnlock(o)
      PROVE  PhaseInv'
  BY <1>0, <1>8 DEF CopyDesc, WorkerLog, WorkerLock, WorkerUnlock, WorkerGoto
<1>9. ASSUME NEW o \in Slots, serve_connection(o) PROVE PhaseInv'
  BY <1>0, <1>9 DEF serve_connection, WorkerGoto
<1>10. ASSUME NEW o \in Slots, WorkerRelease(o) PROVE PhaseInv'
  BY <1>0, <1>10 DEF WorkerRelease, WorkerGoto, Broadcast
<1>11. QED
  BY NextCases, <1>1, <1>2, <1>3, <1>4, <1>5, <1>6, <1>7, <1>8, <1>9, <1>10

\* What store_connection does under the server's invariant: it refuses, and a bit
\* that no slot owns is missing from then on, or it fills a zeroed slot.
LEMMA StoreEffect ==
  ASSUME ServerInv, StoreConnection
  PROVE  \/ /\ offset' = NOT_OK /\ mainpc' = "unlock" /\ UNCHANGED connections
            /\ Leaked'
         \/ /\ offset' \in Slots /\ mainpc' = "create"
            /\ connections[offset'] = ZeroDesc
            /\ connections' = [connections EXCEPT ![offset'] =
                 [thread_id |-> "garbage", connection_sock |-> connection_sock,
                  offset |-> offset']]
            /\ Leaked' <=> Leaked
<1>0. PoolInv
  BY DEF ServerInv
<1>1. CASE free_space_bitmap = {}
  <2>1. Size \in Overflow
    BY PoolAssumption DEF Overflow, INT64_MAX, Slots
  <2>2. QED
    BY <1>1, <2>1 DEF StoreConnection, store_connection, poolVars, Leaked, Goto, NOT_OK, Slots
<1>2. CASE free_space_bitmap # {}
  <2>1. PICK o \in 0 .. IntBits :
          /\ book_pos(o)
          /\ \/ /\ o >= Size /\ offset' = NOT_OK /\ mainpc' = "unlock"
                /\ UNCHANGED connections
             \/ /\ o < Size /\ offset' = o /\ mainpc' = "create"
                /\ connections' = [connections EXCEPT ![o] =
                     [thread_id |-> "garbage", connection_sock |-> connection_sock,
                      offset |-> o]]
    <3>1. PICK res \in Slots \union {NOT_OK} :
            /\ store_connection(connection_sock, res) /\ offset' = res
            /\ mainpc' = IF res = NOT_OK THEN "unlock" ELSE "create"
      BY DEF StoreConnection, Goto
    <3>2. \A o \in 0 .. IntBits : o # NOT_OK
      BY PoolAssumption DEF NOT_OK
    <3>3. QED
      BY <1>2, <3>1, <3>2 DEF store_connection
  <2>2. o \in LowWord /\ o \in free_space_bitmap
    BY <1>0, <1>2, <2>1, CtzFinds DEF book_pos
  <2>3. CASE o >= Size
    <3>1. o \in Overflow /\ o \in Mask(o)
      BY <2>2, <2>3, PoolAssumption DEF Overflow, INT64_MAX, Slots, LowWord, Mask
    <3>2. Leaked'
      BY <2>1, <3>1 DEF Leaked, book_pos
    <3>3. QED
      BY <2>1, <2>3, <3>2, PoolAssumption
  <2>4. CASE o < Size
    <3>1. o \in Slots
      BY <2>4, PoolAssumption DEF Slots
    <3>2. connections[o] = ZeroDesc
      BY <1>0, <2>2, <3>1 DEF PoolInv, BitsMatchSlots
    <3>3. free_space_bitmap' = free_space_bitmap \ {o}
      BY <2>1, <3>1, SlotMask DEF book_pos
    <3>4. Leaked' <=> Leaked
      BY <3>1, <3>3 DEF Leaked, Overflow
    <3>5. QED
      BY <2>1, <2>4, <3>1, <3>2, <3>4, PoolAssumption
  <2>5. QED
    BY <2>3, <2>4, PoolAssumption
<1>3. QED
  BY <1>1, <1>2

\* Slots and their workers.
LEMMA ThreadStep == ServerInv /\ Next => ThreadInv'
<1> SUFFICES ASSUME ServerInv, Next PROVE ThreadInv'
  OBVIOUS
<1>0. ThreadInv /\ TypeOK /\ PoolTypeOK /\ Alive
  BY NextCases DEF ServerInv, PoolInv
<1>a. StartStep \/ LoopStep \/ EndStep \/ OtherStep => UNCHANGED <<poolVars, workVars, open_socks>>
  BY Quiet
<1> USE DEF ThreadInv, Live, Serving, InUse, At, GotoOnly, Goto, mainVars, workVars, poolVars,
            Alive
<1>1. CASE StartStep
  <2>1. mainpc \notin {"create", "detach"} /\ mainpc' \notin {"create", "detach"}
    BY <1>1 DEF StartStep, start_log_routine, create_server, BindFailed, Leave, LogHello,
                CreatePool
  <2>2. QED
    BY <1>0, <1>a, <1>1, <2>1
<1>2. CASE LoopStep
  <2>1. mainpc # "create" /\ mainpc' \notin {"create", "detach"}
    BY <1>2, CheckFullCases
    DEF LoopStep, LoopTest, Select, LockPool, DetachThread, UnlockPool
  <2>2. QED
    BY <1>0, <1>a, <1>2, <2>1
<1>3. CASE EndStep
  <2>1. mainpc \notin {"create", "detach"} /\ mainpc' \notin {"create", "detach"}
    BY <1>3 DEF EndStep, WaitRoutinesLock, WaitRoutinesCheck, destruct_conn_pool, LogBye,
                free_pipe, SetShutdownFlag, JoinLog, destroy_log, Exit
  <2>2. QED
    BY <1>0, <1>a, <1>3, <2>1
<1>4. CASE OtherStep
  <2>1. \/ UNCHANGED <<mainpc, offset>>
        \/ mainpc' = "failed"
        \/ mainpc # "create" /\ mainpc' \notin {"create", "detach"}
    BY <1>4 DEF OtherStep, log_writer_routine, SignalFlag, SignalWrite, Connect, SpuriousWakeup
  <2>2. QED
    BY <1>0, <1>a, <1>4, <2>1
<1>5. CASE Accept
  BY <1>0, <1>5 DEF Accept
<1>6. CASE StoreConnection
  <2>1. connection_sock \in Sock /\ connection_sock # 0 /\ pc' = pc /\ conn_desc' = conn_desc
        /\ mainpc = "store"
    BY <1>6, PoolAssumption DEF StoreConnection, ServerInv, SocketInv, Holding, TypeOK
  <2>2. CASE offset' = NOT_OK /\ mainpc' = "unlock" /\ UNCHANGED connections
    BY <1>0, <2>1, <2>2
  <2>3. CASE /\ offset' \in Slots /\ mainpc' = "create" /\ connections[offset'] = ZeroDesc
             /\ connections' = [connections EXCEPT ![offset'] =
                  [thread_id |-> "garbage", connection_sock |-> connection_sock,
                   offset |-> offset']]
    <3>1. /\ connections'[offset'].connection_sock # 0
          /\ \A q \in Slots : q # offset' => connections'[q] = connections[q]
      BY <1>0, <2>1, <2>3 DEF PoolTypeOK
    <3>2. ~Live(offset')
      <4>1. connections[offset'].connection_sock = 0
        BY <2>3 DEF ZeroDesc
      <4>2. \A o \in Slots : Live(o) => connections[o].connection_sock # 0
        BY <1>0
      <4>3. QED
        BY <2>3, <4>1, <4>2
    <3>3. pc[offset'] \notin {"log_unlock", "unlock"}
      BY <2>1, <2>3, PoolAssumption DEF ServerInv, MutexHeld, Main, Slots
    <3>4. pc[offset'] = "none"
      BY <1>0, <2>3, <3>2, <3>3 DEF TypeOK, WorkerPC
    <3>5. QED
      BY <1>0, <2>1, <2>3, <3>1, <3>4
  <2>4. QED
    BY <1>6, <2>2, <2>3, StoreEffect
<1>7. CASE CreateThread
  <2>1. offset \in Slots /\ InUse(offset) /\ pc[offset] = "none" /\ mainpc = "create"
        /\ offset' = offset /\ conn_desc' = conn_desc
    BY <1>0, <1>7 DEF CreateThread
  <2>2. CASE get_tid_pos(offset) /\ pc' = [pc EXCEPT ![offset] = "copy"] /\ mainpc' = "detach"
    <3>1. /\ connections'[offset].thread_id = "valid"
          /\ connections'[offset].connection_sock = connections[offset].connection_sock
          /\ \A q \in Slots : q # offset => connections'[q] = connections[q]
      BY <1>0, <2>1, <2>2 DEF get_tid_pos, PoolTypeOK, ConnectionDesc
    <3>2. pc'[offset] = "copy" /\ \A q \in Slots : q # offset => pc'[q] = pc[q]
      BY <1>0, <2>1, <2>2 DEF TypeOK
    <3>3. QED
      BY <1>0, <2>1, <2>2, <3>1, <3>2 DEF WorkerPC
  <2>3. CASE release_connection(offset) /\ pc' = pc /\ mainpc' = "unlock"
    <3>1. /\ connections'[offset].connection_sock = 0
          /\ \A q \in Slots : q # offset => connections'[q] = connections[q]
      BY <1>0, <2>1, <2>3 DEF release_connection, PoolTypeOK, ZeroDesc
    <3>2. QED
      BY <1>0, <2>1, <2>3, <3>1
  <2>4. QED
    BY <1>7, <2>2, <2>3 DEF CreateThread
<1>8. ASSUME NEW o \in Slots, CopyDesc(o) PROVE ThreadInv'
  BY <1>0, <1>8 DEF CopyDesc, WorkerGoto, TypeOK, WorkerPC
<1>9. ASSUME NEW o \in Slots, WorkerLog(o) PROVE ThreadInv'
  <2>1. /\ Live(o)' <=> Live(o)
        /\ Serving(o)' <=> Serving(o)
        /\ pc[o] # "none" /\ pc' = [pc EXCEPT ![o] = pc'[o]]
    BY <1>0, <1>9 DEF WorkerLog, WorkerGoto, TypeOK, WorkerPC
  <2>2. QED
    BY <1>0, <1>9, <2>1 DEF WorkerLog, TypeOK
<1>10. ASSUME NEW o \in Slots, serve_connection(o) PROVE ThreadInv'
  BY <1>0, <1>10 DEF serve_connection, WorkerGoto, TypeOK, WorkerPC
<1>11. ASSUME NEW o \in Slots, WorkerLock(o) PROVE ThreadInv'
  BY <1>0, <1>11 DEF WorkerLock, WorkerGoto, TypeOK, WorkerPC
<1>12. ASSUME NEW o \in Slots, WorkerRelease(o) PROVE ThreadInv'
  <2>1. conn_desc[o].offset = o /\ lock = o /\ pc[o] = "release"
    BY <1>12, ReleaseOwn DEF WorkerRelease, WorkerGoto, ServerInv, MutexHeld
  <2>2. mainpc \notin {"create", "detach"} /\ mainpc' \notin {"create", "detach"}
    <3>1. mainpc \notin {"create", "detach"}
      <4>1. lock # Main
        BY <2>1, PoolAssumption DEF Main, Slots
      <4>2. QED
        BY <4>1 DEF ServerInv, MutexHeld
    <3>2. mainpc' \in {"drain_lock", "lock", mainpc}
      BY <1>12 DEF WorkerRelease, Broadcast
    <3>3. QED
      BY <3>1, <3>2
  <2>3. /\ connections'[o].connection_sock = 0
        /\ \A q \in Slots : q # o => connections'[q] = connections[q]
    BY <1>0, <1>12, <2>1 DEF WorkerRelease, release_connection, PoolTypeOK, ZeroDesc
  <2>4. /\ pc'[o] = "log_unlock" /\ \A q \in Slots : q # o => pc'[q] = pc[q]
        /\ conn_desc' = conn_desc
    BY <1>0, <1>12 DEF WorkerRelease, WorkerGoto, TypeOK
  <2>5. QED
    BY <1>0, <2>2, <2>3, <2>4, SMTT(30)
<1>13. ASSUME NEW o \in Slots, WorkerUnlock(o) PROVE ThreadInv'
  <2>1. mainpc \notin {"create", "detach"} /\ mainpc' = mainpc
    BY <1>13, PoolAssumption
    DEF WorkerUnlock, WorkerGoto, Unlock, ServerInv, MutexHeld, Main, Slots
  <2>2. QED
    BY <1>0, <1>13, <2>1 DEF WorkerUnlock, WorkerGoto, TypeOK
<1>14. QED
  BY NextCases, <1>1, <1>2, <1>3, <1>4, <1>5, <1>6, <1>7, <1>8, <1>9, <1>10, <1>11, <1>12,
     <1>13

\* Releasing a slot closes the socket it records and no other.
LEMMA ReleaseSockets ==
  ASSUME ServerInv, Alive, NEW o \in Slots, InUse(o), release_connection(o),
         open_socks' = open_socks \ {connections[o].connection_sock},
         mainpc' \in Holding <=> mainpc \in Holding, connection_sock' = connection_sock
  PROVE  SocketInv'
<1> DEFINE s == connections[o].connection_sock
<1>1. /\ connections'[o].connection_sock = 0
      /\ \A q \in Slots : q # o => connections'[q] = connections[q]
      /\ s # 0
  BY DEF ServerInv, PoolInv, PoolTypeOK, release_connection, ZeroDesc, InUse
<1>2. \A q \in Slots : q # o => connections[q].connection_sock # s
  BY DEF ServerInv, SocketInv
<1>3. s \in Recorded /\ Recorded' = Recorded \ {s}
  <2>1. s \in Recorded
    BY <1>1 DEF Recorded
  <2>2. QED
    BY <1>1, <1>2, <2>1, SMTT(30) DEF Recorded
<1>4. Leaked' <=> Leaked
  BY SlotMask DEF release_connection, unbook_pos, Leaked, Overflow
<1>5. Recorded' \subseteq open_socks'
  BY <1>3 DEF ServerInv, SocketInv
<1>6. \A p, q \in Slots : InUse(p)' /\ p # q =>
        connections'[p].connection_sock # connections'[q].connection_sock
  BY <1>1, <1>2 DEF ServerInv, SocketInv, InUse
<1>7. mainpc' \in Holding => connection_sock' \in open_socks' \ Recorded'
  BY <1>3 DEF ServerInv, SocketInv
<1>8. OrphansMeanLeak'
  <2>1. InHand' = InHand
    BY DEF InHand
  <2>2. open_socks' \ (InHand' \union Recorded') = open_socks \ (InHand \union Recorded)
    BY <1>3, <2>1
  <2>3. QED
    BY <1>4, <2>2 DEF ServerInv, SocketInv, OrphansMeanLeak
<1>9. QED
  BY <1>5, <1>6, <1>7, <1>8 DEF SocketInv, InUse

\* A step that touches neither the pool nor the open sockets, and keeps the socket
\* in hand or ends the process.
LEMMA QuietSockets ==
  ASSUME ServerInv, Alive, UNCHANGED <<poolVars, open_socks>>,
         \/ (mainpc' \in Holding <=> mainpc \in Holding)
            /\ (mainpc \in Holding => connection_sock' = connection_sock)
         \/ mainpc' = "failed"
  PROVE  SocketInv'
<1>1. Recorded' = Recorded /\ (Leaked' <=> Leaked)
  BY DEF Recorded, Leaked, poolVars
<1>2. mainpc' # "failed" => InHand' = InHand
  BY DEF InHand
<1>3. OrphansMeanLeak'
  BY <1>1, <1>2 DEF ServerInv, SocketInv, OrphansMeanLeak, Alive
<1>4. mainpc' \in Holding => connection_sock' \in open_socks' \ Recorded'
  BY <1>1 DEF ServerInv, SocketInv, Holding
<1>5. QED
  BY <1>1, <1>3, <1>4 DEF ServerInv, SocketInv, InUse, poolVars

\* Sockets.
LEMMA SocketStep == ServerInv /\ Next => SocketInv'
<1> SUFFICES ASSUME ServerInv, Next PROVE SocketInv'
  OBVIOUS
<1>0. SocketInv /\ TypeOK /\ PoolTypeOK /\ Alive
  BY NextCases DEF ServerInv, PoolInv
<1> USE DEF At, GotoOnly, Goto, mainVars
<1>1. CASE StartStep
  <2>1. mainpc \notin Holding /\ mainpc' \notin Holding
    BY <1>1 DEF StartStep, start_log_routine, create_server, BindFailed, Leave, LogHello,
                CreatePool, Holding
  <2>2. QED
    BY <1>0, <1>1, <2>1, Quiet, QuietSockets
<1>2. CASE LoopStep
  <2>1. /\ mainpc' \in Holding <=> mainpc \in Holding
        /\ mainpc \in Holding => connection_sock' = connection_sock
    BY <1>2, CheckFullCases
    DEF LoopStep, LoopTest, Select, LockPool, DetachThread, UnlockPool, Holding
  <2>2. QED
    BY <1>0, <1>2, <2>1, Quiet, QuietSockets
<1>3. CASE EndStep
  <2>1. mainpc \notin Holding /\ mainpc' \notin Holding
    BY <1>3 DEF EndStep, WaitRoutinesLock, WaitRoutinesCheck, destruct_conn_pool, LogBye,
                free_pipe, SetShutdownFlag, JoinLog, destroy_log, Exit, Holding
  <2>2. QED
    BY <1>0, <1>3, <2>1, Quiet, QuietSockets
<1>4. CASE OtherStep
  <2>1. \/ UNCHANGED <<mainpc, connection_sock>>
        \/ mainpc' = "failed"
        \/ (mainpc' \in Holding <=> mainpc \in Holding) /\ connection_sock' = connection_sock
    BY <1>4 DEF OtherStep, log_writer_routine, SignalFlag, SignalWrite, Connect,
                SpuriousWakeup, Holding
  <2>2. QED
    BY <1>0, <1>4, <2>1, Quiet, QuietSockets
<1>5. CASE Accept
  <2>1. UNCHANGED poolVars /\ mainpc = "accept" /\ mainpc \notin Holding
    BY <1>5 DEF Accept, Holding
  <2>2. CASE UNCHANGED open_socks /\ mainpc' = "loop"
    BY <1>0, <2>1, <2>2, QuietSockets DEF Holding
  <2>3. ASSUME NEW s \in Sock \ open_socks, connection_sock' = s,
               open_socks' = open_socks \union {s}, mainpc' = "lock"
        PROVE  SocketInv'
    <3>1. Recorded' = Recorded /\ (Leaked' <=> Leaked) /\ s \notin Recorded
      BY <1>0, <2>1, <2>3 DEF Recorded, Leaked, poolVars, SocketInv
    <3>2. InHand = {} /\ InHand' = {s}
      BY <2>1, <2>3 DEF InHand, Holding
    <3>3. open_socks' \ (InHand' \union Recorded') = open_socks \ (InHand \union Recorded)
      BY <2>3, <3>1, <3>2
    <3>4. OrphansMeanLeak'
      BY <1>0, <3>1, <3>3 DEF SocketInv, OrphansMeanLeak
    <3>5. QED
      BY <1>0, <2>1, <2>3, <3>1, <3>4 DEF SocketInv, InUse, poolVars
  <2>4. QED
    BY <1>5, <2>2, <2>3 DEF Accept
<1>6. CASE StoreConnection
  <2>1. /\ mainpc = "store" /\ InHand = {connection_sock}
        /\ connection_sock \in open_socks \ Recorded /\ connection_sock # 0
        /\ UNCHANGED <<open_socks, connection_sock>>
    BY <1>0, <1>6, PoolAssumption
    DEF StoreConnection, SocketInv, InHand, Holding, netVars, TypeOK
  <2>2. CASE mainpc' = "unlock" /\ UNCHANGED connections /\ Leaked'
    <3>1. Recorded' = Recorded /\ InHand' = {}
      BY <2>2 DEF Recorded, InHand, Holding
    <3>2. connection_sock \in open_socks' \ (InHand' \union Recorded')
      BY <2>1, <3>1
    <3>3. OrphansMeanLeak'
      BY <2>2, <3>2 DEF OrphansMeanLeak
    <3>4. QED
      BY <1>0, <2>1, <2>2, <3>1, <3>3 DEF SocketInv, InUse, Holding
  <2>3. CASE /\ offset' \in Slots /\ mainpc' = "create" /\ connections[offset'] = ZeroDesc
             /\ connections' = [connections EXCEPT ![offset'] =
                  [thread_id |-> "garbage", connection_sock |-> connection_sock,
                   offset |-> offset']]
             /\ Leaked' <=> Leaked
    <3>1. /\ connections'[offset'].connection_sock = connection_sock
          /\ \A q \in Slots : q # offset' => connections'[q] = connections[q]
          /\ connections[offset'].connection_sock = 0
      BY <1>0, <2>3, SMTT(30) DEF PoolTypeOK, ZeroDesc
    <3>2. Recorded' = Recorded \union {connection_sock}
      <4>1. ASSUME NEW s \in Recorded' PROVE s \in Recorded \union {connection_sock}
        <5>1. PICK q \in Slots : s = connections'[q].connection_sock /\ s # 0
          BY <4>1 DEF Recorded
        <5>2. QED
          BY <3>1, <5>1 DEF Recorded
      <4>2. connection_sock \in Recorded'
        BY <2>1, <2>3, <3>1 DEF Recorded
      <4>3. ASSUME NEW s \in Recorded PROVE s \in Recorded'
        <5>1. PICK q \in Slots : s = connections[q].connection_sock /\ s # 0
          BY <4>3 DEF Recorded
        <5>2. connections'[q] = connections[q]
          BY <3>1, <5>1
        <5>3. QED
          BY <5>1, <5>2 DEF Recorded
      <4>4. QED
        BY <4>1, <4>2, <4>3
    <3>3. InHand' = {} /\ mainpc' \notin Holding
      BY <2>3 DEF InHand, Holding
    <3>4. open_socks' \ (InHand' \union Recorded') = open_socks \ (InHand \union Recorded)
      BY <2>1, <3>2, <3>3
    <3>5. OrphansMeanLeak'
      BY <1>0, <2>3, <3>4 DEF SocketInv, OrphansMeanLeak
    <3>6. \A q \in Slots : connections[q].connection_sock # connection_sock
      BY <2>1 DEF Recorded
    <3>7. \A p, q \in Slots : InUse(p)' /\ p # q =>
            connections'[p].connection_sock # connections'[q].connection_sock
      BY <1>0, <2>3, <3>1, <3>6 DEF SocketInv, InUse
    <3>8. QED
      BY <1>0, <2>1, <3>2, <3>3, <3>5, <3>7 DEF SocketInv, InUse
  <2>4. QED
    BY <1>6, <2>2, <2>3, StoreEffect
<1>7. CASE CreateThread
  <2>1. /\ offset \in Slots /\ InUse(offset) /\ connection_sock' = connection_sock
        /\ mainpc \notin Holding /\ mainpc' \notin Holding
    BY <1>7 DEF CreateThread, ServerInv, ThreadInv, Holding
  <2>2. CASE get_tid_pos(offset) /\ UNCHANGED open_socks
    <3>1. \A q \in Slots : connections'[q].connection_sock = connections[q].connection_sock
      BY <1>0, <2>1, <2>2 DEF get_tid_pos, PoolTypeOK, ConnectionDesc
    <3>2. Recorded' = Recorded /\ (Leaked' <=> Leaked) /\ InHand' = InHand
      BY <2>1, <2>2, <3>1 DEF Recorded, Leaked, get_tid_pos, InHand
    <3>3. OrphansMeanLeak'
      BY <1>0, <2>2, <3>2 DEF SocketInv, OrphansMeanLeak
    <3>4. QED
      BY <1>0, <2>1, <2>2, <3>1, <3>2, <3>3 DEF SocketInv, InUse
  <2>3. CASE /\ release_connection(offset)
             /\ open_socks' = open_socks \ {connections[offset].connection_sock}
    BY <1>0, <2>1, <2>3, ReleaseSockets
  <2>4. QED
    BY <1>7, <2>2, <2>3 DEF CreateThread
<1>8. ASSUME NEW o \in Slots,
             CopyDesc(o) \/ WorkerLog(o) \/ serve_connection(o) \/ WorkerLock(o) \/ WorkerUnlock(o)
      PROVE  SocketInv'
  <2>1. UNCHANGED <<poolVars, open_socks>>
    BY <1>8 DEF CopyDesc, WorkerLog, serve_connection, WorkerLock, WorkerUnlock, netVars
  <2>2. UNCHANGED <<mainpc, connection_sock>> \/ mainpc' = "failed"
    BY <1>8 DEF CopyDesc, WorkerLog, serve_connection, WorkerLock, WorkerUnlock
  <2>3. QED
    BY <1>0, <2>1, <2>2, QuietSockets
<1>9. ASSUME NEW o \in Slots, WorkerRelease(o) PROVE SocketInv'
  <2>1. conn_desc[o].offset = o /\ InUse(o)
    BY <1>9, ReleaseOwn
  <2>2. /\ release_connection(o)
        /\ open_socks' = open_socks \ {connections[o].connection_sock}
        /\ connection_sock' = connection_sock
        /\ mainpc' \in Holding <=> mainpc \in Holding
    BY <1>9, <2>1 DEF WorkerRelease, Broadcast, Holding
  <2>3. QED
    BY <1>0, <2>1, <2>2, ReleaseSockets
<1>10. QED
  BY NextCases, <1>1, <1>2, <1>3, <1>4, <1>5, <1>6, <1>7, <1>8, <1>9

\* The log.
LEMMA LogStep == ServerInv /\ Next => LogInv'
<1> SUFFICES ASSUME ServerInv, Next PROVE LogInv'
  OBVIOUS
<1>0. LogInv /\ Alive
  BY NextCases DEF ServerInv
<1> USE DEF LogInv, At, GotoOnly, Goto, mainVars, logVars
<1>1. CASE StartStep
  <2>1. CASE start_log_routine
    BY <1>0, <2>1 DEF start_log_routine
  <2>2. CASE create_server \/ Leave \/ CreatePool
    BY <1>0, <2>2 DEF create_server, Leave, CreatePool
  <2>3. CASE BindFailed
    BY <1>0, <2>3 DEF BindFailed
  <2>4. CASE LogHello
    BY <1>0, <2>4 DEF LogHello, push_message
  <2>5. QED
    BY <1>1, <2>1, <2>2, <2>3, <2>4 DEF StartStep
<1>2. CASE LoopStep
  <2>1. CASE CheckFull
    BY <1>0, <2>1, CheckFullCases
  <2>2. CASE LoopTest \/ Select \/ LockPool
    BY <1>0, <2>2 DEF LoopTest, Select, LockPool
  <2>3. CASE DetachThread \/ UnlockPool
    BY <1>0, <2>3 DEF DetachThread, UnlockPool
  <2>4. QED
    BY <1>2, <2>1, <2>2, <2>3 DEF LoopStep
<1>3. CASE EndStep
  <2>1. CASE WaitRoutinesLock \/ WaitRoutinesCheck \/ destruct_conn_pool
    BY <1>0, <2>1 DEF WaitRoutinesLock, WaitRoutinesCheck, destruct_conn_pool
  <2>2. CASE LogBye
    BY <1>0, <2>2 DEF LogBye, push_message
  <2>3. CASE free_pipe \/ SetShutdownFlag
    BY <1>0, <2>3 DEF free_pipe, SetShutdownFlag
  <2>4. CASE JoinLog \/ destroy_log \/ Exit
    BY <1>0, <2>4 DEF JoinLog, destroy_log, Exit
  <2>5. QED
    BY <1>3, <2>1, <2>2, <2>3, <2>4 DEF EndStep
<1>4. CASE OtherStep
  <2>1. CASE log_writer_routine
    BY <1>0, <2>1 DEF log_writer_routine, LogTest, pop_message, write_to_logfile
  <2>2. CASE SignalFlag \/ SignalWrite \/ Connect \/ SpuriousWakeup
    BY <1>0, <2>2 DEF SignalFlag, SignalWrite, Connect, SpuriousWakeup
  <2>3. QED
    BY <1>4, <2>1, <2>2 DEF OtherStep
<1>5. CASE Accept
  BY <1>0, <1>5 DEF Accept
<1>6. CASE StoreConnection
  BY <1>0, <1>6 DEF StoreConnection
<1>7. CASE CreateThread
  BY <1>0, <1>7 DEF CreateThread
<1>8. ASSUME NEW o \in Slots,
             CopyDesc(o) \/ serve_connection(o) \/ WorkerLock(o) \/ WorkerUnlock(o)
      PROVE  LogInv'
  BY <1>0, <1>8 DEF CopyDesc, serve_connection, WorkerLock, WorkerUnlock
<1>9. ASSUME NEW o \in Slots, WorkerLog(o) PROVE LogInv'
  BY <1>0, <1>9 DEF WorkerLog, push_message
<1>10. ASSUME NEW o \in Slots, WorkerRelease(o) PROVE LogInv'
  BY <1>0, <1>10 DEF WorkerRelease, Broadcast
<1>11. QED
  BY NextCases, <1>1, <1>2, <1>3, <1>4, <1>5, <1>6, <1>7, <1>8, <1>9, <1>10

-------------------------------------------------------------------------------

\* The server starts in a state that satisfies the invariant.
LEMMA ServerInit == Init => ServerInv
<1> SUFFICES ASSUME Init PROVE ServerInv
  OBVIOUS
<1>1. PoolInv
  BY InitInv DEF Init
<1>2. ZeroDesc \in ConnectionDesc /\ \A o \in Slots : connections[o] = ZeroDesc
  BY PoolAssumption DEF Init, PoolInit, create_conn_pool, ZeroDesc, ConnectionDesc, Slots
<1>3. TypeOK
  <2>1. pending \in BOOLEAN /\ exit_signal \in BOOLEAN /\ shutdown_flag \in BOOLEAN
    BY Zenon DEF Init
  <2>2. QED
    BY <1>1, <1>2, <2>1, LogAssumption, SMTT(30) DEF Init, TypeOK, PoolInv, MainPC, WorkerPC, LogPC
<1>4. MutexHeld /\ LogInv
  BY DEF Init, MutexHeld, LogInv
<1>5. PhaseInv
  BY DEF Init, PhaseInv, Looping, Starting, Drained, At, pool_is_free, PoolInit, create_conn_pool
<1>6. ThreadInv
  BY <1>2, SMTT(30) DEF Init, ThreadInv, Live, Serving, InUse, ZeroDesc, At
<1>7. Recorded = {} /\ ~Leaked
  BY <1>2 DEF Recorded, Leaked, ZeroDesc, Init, PoolInit, create_conn_pool, Overflow
<1>8. SocketInv
  BY <1>2, <1>7, SMTT(30) DEF Init, SocketInv, InUse, ZeroDesc, Holding, OrphansMeanLeak
<1>9. QED
  BY <1>1, <1>3, <1>4, <1>5, <1>6, <1>8 DEF ServerInv

\* One step of the server preserves the invariant.
LEMMA ServerStep == ServerInv /\ [Next]_vars => ServerInv'
<1> SUFFICES ASSUME ServerInv, [Next]_vars PROVE ServerInv'
  OBVIOUS
<1>1. CASE Next
  <2>1. PoolInv'
    BY PoolStep, NextInv DEF ServerInv
  <2>2. QED
    BY <1>1, <2>1, TypeStep, MutexStep, PhaseStep, ThreadStep, SocketStep, LogStep DEF ServerInv
<1>2. CASE UNCHANGED vars
  <2>1. PoolInv'
    BY PoolStep, NextInv DEF ServerInv
  <2> USE DEF vars, poolVars, mainVars, workVars, netVars, sigVars, logVars, ServerInv
  <2>2. TypeOK' /\ MutexHeld'
    BY <1>2, <2>1, ZenonT(60) DEF TypeOK, MutexHeld, PoolInv
  <2>3. PhaseInv' /\ ThreadInv' /\ LogInv'
    BY <1>2 DEF PhaseInv, ThreadInv, LogInv, At, pool_is_free, Live, Serving, InUse, Alive
  <2>4. SocketInv'
    <3>1. Recorded' = Recorded /\ InHand' = InHand /\ (Leaked' <=> Leaked) /\ (Alive' <=> Alive)
      BY <1>2 DEF Recorded, InHand, Leaked, Alive
    <3>2. OrphansMeanLeak'
      BY <1>2, <3>1 DEF SocketInv, OrphansMeanLeak
    <3>3. QED
      BY <1>2, <3>1, <3>2 DEF SocketInv, InUse
  <2>5. QED
    BY <2>1, <2>2, <2>3, <2>4
<1>3. QED
  BY <1>1, <1>2

\* The invariant holds in every reachable state.
THEOREM ServerInvariant == Spec => []ServerInv
BY ServerInit, ServerStep, PTL DEF Spec

\* Every variable of the server keeps its type.
THEOREM TypeCorrect == Spec => []TypeOK
<1>1. ServerInv => TypeOK
  BY DEF ServerInv
<1>2. QED
  BY ServerInvariant, <1>1, PTL

\* The threads never use the pool in a way it is not made for: whatever is proved
\* of PoolSpec holds inside the server.
THEOREM ServerUsesPool == Spec => UsesPool
<1>1. Init => PoolInit
  BY DEF Init
<1>2. QED
  BY ServerInvariant, PoolStep, <1>1, PTL DEF Spec, UsesPool, PoolSpec

\* The pool is destroyed only when no worker is left to touch it.
THEOREM DestructIsSafe == Spec => []SafeDestruct
<1>1. ServerInv => SafeDestruct
  BY DEF ServerInv, PhaseInv, SafeDestruct
<1>2. QED
  BY ServerInvariant, <1>1, PTL

\* The descriptor a worker copied without the mutex stays the one of its slot.
THEOREM CopiesAreCurrent == Spec => []CopyIsCurrent
<1>1. ServerInv => CopyIsCurrent
  <2> SUFFICES ASSUME ServerInv, NEW o \in Slots, Serving(o)
               PROVE  CopyIsCurrent!(o)!2
    BY DEF CopyIsCurrent
  <2>1. Live(o)
    BY DEF Live, Serving
  <2>2. /\ InUse(o) /\ connections[o].thread_id = "valid" /\ conn_desc[o] = connections[o]
    BY <2>1 DEF ServerInv, ThreadInv
  <2>3. connections[o].connection_sock \in open_socks
    BY <2>2 DEF ServerInv, SocketInv, Recorded, InUse
  <2>4. QED
    BY <2>2, <2>3 DEF ServerInv, SocketInv, PoolInv
<1>2. QED
  BY ServerInvariant, <1>1, PTL

\* pthread_detach reads the id of the worker it has started, however far the worker is.
THEOREM DetachReadsTheTid == Spec => []DetachReadsTid
<1>1. ServerInv => DetachReadsTid
  BY DEF ServerInv, ThreadInv, DetachReadsTid
<1>2. QED
  BY ServerInvariant, <1>1, PTL

\* A socket is forgotten exactly when the pool has lost a bit.
THEOREM OrphansAreLeaks == Spec => []OrphansMeanLeak
<1>1. ServerInv => OrphansMeanLeak
  BY DEF ServerInv, SocketInv
<1>2. QED
  BY ServerInvariant, <1>1, PTL

\* The main thread never waits for something that has already happened.
THEOREM WakeupsAreNotLost == Spec => []NoLostWakeup
<1>1. ServerInv => NoLostWakeup
  <2> SUFFICES ASSUME ServerInv PROVE NoLostWakeup
    OBVIOUS
  <2>1. ASSUME NEW o \in Slots, o \notin free_space_bitmap, mainpc \in {"full_wait", "drain_wait"}
        PROVE  Live(o)
    <3>1. connections[o] # ZeroDesc
      BY <2>1 DEF ServerInv, PoolInv, BitsMatchSlots
    <3>2. InUse(o)
      BY <2>1, <3>1 DEF ServerInv, PoolInv, InUse
    <3>3. QED
      BY <2>1, <3>2 DEF ServerInv, ThreadInv, Alive, At
  <2>2. CASE At("full_wait")
    BY <2>1, <2>2 DEF ServerInv, PhaseInv, NoLostWakeup, At
  <2>3. CASE At("drain_wait")
    <3>0. free_space_bitmap \subseteq INT64_MAX
      BY PoolAssumption DEF ServerInv, PoolInv, PoolTypeOK, INT64_MAX, Bits
    <3>1. PICK b \in INT64_MAX : b \notin free_space_bitmap
      BY <2>3, <3>0 DEF ServerInv, PhaseInv, pool_is_free
    <3>2. QED
      BY <2>1, <2>3, <3>1 DEF NoLostWakeup, Leaked, Overflow, At
  <2>4. QED
    BY <2>2, <2>3 DEF NoLostWakeup
<1>2. QED
  BY ServerInvariant, <1>1, PTL

\* The log is destroyed after its writer and the workers have ended, but for the
\* path on which create_server failed.
THEOREM LogOutlives == Spec => []LogOutlivesUsers
<1>1. ServerInv => LogOutlivesUsers
  BY DEF ServerInv, LogInv, PhaseInv, Drained, LogOutlivesUsers, Alive
<1>2. QED
  BY ServerInvariant, <1>1, PTL
===============================================================================
