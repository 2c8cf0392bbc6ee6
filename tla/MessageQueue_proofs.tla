------------------------- MODULE MessageQueue_proofs -------------------------
(***************************************************************************)
(* For every number of threads, every capacity and every set of messages:  *)
(* the message queue keeps its ring and its flags right, never leaves a    *)
(* thread asleep beside a set flag while its chain is intact, and          *)
(* implements the bounded FIFO.                                            *)
(***************************************************************************)
EXTENDS MessageQueue, TLAPS

\* What the thread inside the region knows, statement by statement: this is the
\* strengthening that makes FlagsTellTheTruth inductive.
InsideGet(r) ==
    /\ pc[r] = "wake" => /\ GET \in flags
                         /\ length < Size
                         /\ edge[r] <=> length + 1 = Size
                         /\ SEND \in flags <=> ~edge[r]
    /\ pc[r] = "finish" => GET \in flags /\ SEND \in flags /\ length < Size

InsideSend(s) ==
    /\ pc[s] = "wake" => /\ SEND \in flags
                         /\ length > 0
                         /\ edge[s] <=> length = 1
                         /\ GET \in flags <=> ~edge[s]
    /\ pc[s] = "finish" => GET \in flags /\ SEND \in flags /\ length > 0

FlagsRight == /\ GET \in flags <=> length > 0
              /\ SEND \in flags <=> length < Size

\* Flags and length, wherever the owner of the region is.
FlagsInv ==
    /\ switchOwner = NULL => FlagsRight
    /\ \A t \in Threads : pc[t] = "loop" => FlagsRight
    /\ \A r \in Receivers : InsideGet(r)
    /\ \A s \in Senders : InsideSend(s)

\* A sender in its call has a message to send.
ArgInv == \A s \in Senders : pc[s] # "idle" => arg[s] \in Messages

IInv == /\ TypeOK
        /\ ChainHoldsTheBlocked
        /\ OneThreadInside
        /\ ArgInv
        /\ FlagsInv
        /\ WindowHoldsTheMessages

-------------------------------------------------------------------------------
LEMMA Roles == /\ Receivers \subseteq Threads
               /\ Senders \subseteq Threads
               /\ \A r \in Receivers : r \notin Senders
               /\ NULL \notin Threads
               /\ GET # SEND
  BY NullAssumption, RolesAssumption DEF Threads, GET, SEND

LEMMA InitTypeOK == Init => TypeOK
  BY SizeAssumption DEF Init, TypeOK, Slots, Locations

\* The next state of the two steps that change the ring.
LEMMA TakeType ==
  ASSUME TypeOK, NEW r \in Receivers, GetTake(r)
  PROVE  TypeOK'
  <1>1. length \in 1 .. Size /\ start \in Slots /\ messages[start] \in Messages \cup {NULL}
    BY Roles, SizeAssumption DEF TypeOK, NextStart, Oldest, Emptied, WasFull, GetTake, MustWait, Slots
  <1>2. start' \in Slots /\ length' \in 0 .. Size
    BY <1>1, SizeAssumption DEF GetTake, NextStart, Slots
  <1>3. pc' \in [Threads -> Locations] /\ edge' \in [Threads -> BOOLEAN]
    BY Roles DEF TypeOK, NextStart, Oldest, Emptied, WasFull, GetTake, Step, Locations
  <1>4. messages' \in [Slots -> Messages \cup {NULL}]
        /\ got' \in [Receivers -> Messages \cup {NULL}]
    BY <1>1 DEF TypeOK, NextStart, Oldest, Emptied, WasFull, GetTake
  <1> QED
    BY <1>2, <1>3, <1>4 DEF TypeOK, NextStart, Oldest, Emptied, WasFull, GetTake

LEMMA SendIndexInRange ==
  ASSUME TypeOK, length < Size
  PROVE  SendIndex \in Slots
  BY SizeAssumption DEF TypeOK, SendIndex, Slots

LEMMA PutType ==
  ASSUME TypeOK, ArgInv, NEW s \in Senders, SendPut(s)
  PROVE  TypeOK'
  <1>1. length \in 0 .. Size - 1 /\ arg[s] \in Messages
    BY Roles, SizeAssumption DEF TypeOK, SendPut, MustWait, ArgInv, Step
  <1>2. length' \in 0 .. Size
    BY <1>1, SizeAssumption DEF SendPut
  <1>3. pc' \in [Threads -> Locations] /\ edge' \in [Threads -> BOOLEAN]
    BY Roles DEF TypeOK, SendPut, Step, Locations
  <1>4. messages' \in [Slots -> Messages \cup {NULL}] /\ sent' \in [Senders -> BOOLEAN]
    BY <1>1, SendIndexInRange, SizeAssumption DEF TypeOK, SendPut
  <1> QED
    BY <1>2, <1>3, <1>4 DEF TypeOK, SendPut

LEMMA CallType ==
  ASSUME TypeOK, NEW t \in Threads, CallNext(t)
  PROVE  TypeOK'
  <1>1. CASE Disable(t)
    BY <1>1 DEF TypeOK, Disable, Step, Locations, queueVars
  <1>2. CASE LoopAgain(t)
    BY <1>2 DEF TypeOK, LoopAgain, Step, Locations, queueVars
  <1>3. CASE WaitReturn(t)
    BY <1>3 DEF TypeOK, WaitReturn, Step, Locations, queueVars
  <1>4. CASE WaitBlock(t)
    BY <1>4 DEF TypeOK, WaitBlock, Step, Locations, queueVars
  <1>5. CASE Wake(t)
    <2>1. CASE edge[t]
      <3>1. PICK flag \in {GET, SEND} : WakeupAll(t, flag)
        BY <1>5, <2>1 DEF Wake, OtherFlag
      <3>2. flags' \subseteq {GET, SEND} /\ blocked' \subseteq Threads
            /\ chainOk' \in BOOLEAN
        BY <3>1 DEF WakeupAll, Matching, LeftOnChain, TypeOK
      <3>3. pc' \in [Threads -> Locations]
        BY <3>1 DEF WakeupAll, Matching, LeftOnChain, TypeOK, Locations
      <3> QED
        BY <1>5, <3>2, <3>3 DEF Wake, TypeOK
    <2>2. CASE ~edge[t]
      BY <1>5, <2>2 DEF TypeOK, Wake, Step, Locations
    <2> QED
      BY <2>1, <2>2
  <1>6. CASE Finish(t)
    <2>1. flags' \subseteq {GET, SEND}
      BY <1>6 DEF TypeOK, Finish
    <2>2. arg' \in [Senders -> Messages \cup {NULL}]
      BY <1>6 DEF TypeOK, Finish
    <2> QED
      BY <1>6, <2>1, <2>2 DEF TypeOK, Finish, Step, Locations
  <1> QED
    BY <1>1, <1>2, <1>3, <1>4, <1>5, <1>6 DEF CallNext

LEMMA NextTypeOK ==
  ASSUME TypeOK, ArgInv, [Next]_vars
  PROVE  TypeOK'
  <1>1. ASSUME NEW r \in Receivers, NEW nw \in BOOLEAN, GetCall(r, nw)
        PROVE  TypeOK'
    BY <1>1, Roles DEF TypeOK, GetCall, Locations, queueVars
  <1>2. ASSUME NEW s \in Senders, NEW m \in Sends[s], NEW nw \in BOOLEAN,
               SendCall(s, m, nw)
        PROVE  TypeOK'
    <2>1. CASE Refused(s, nw)
      BY <1>2, <2>1 DEF TypeOK, SendCall, queueVars
    <2>2. CASE ~Refused(s, nw)
      <3>1. pc' \in [Threads -> Locations] /\ nowait' \in [Threads -> BOOLEAN]
            /\ arg' \in [Senders -> Messages \cup {NULL}]
        <4>1. m \in Messages
          BY SendsAssumption
        <4> QED  BY <1>2, <2>2, <4>1, Roles DEF TypeOK, SendCall, Locations
      <3> QED
        BY <1>2, <2>2, <3>1, SendsAssumption DEF TypeOK, SendCall, queueVars
    <2> QED
      BY <2>1, <2>2
  <1>3. CASE UNCHANGED vars
    BY <1>3 DEF TypeOK, vars
  <1> QED
    BY <1>1, <1>2, <1>3, TakeType, PutType, CallType DEF Next, GetNext, SendNext

LEMMA NextOneThreadInside ==
  ASSUME TypeOK, ChainHoldsTheBlocked, OneThreadInside, [Next]_vars
  PROVE  OneThreadInside'
  <1> USE Roles DEF OneThreadInside, Region
  <1>1. ASSUME NEW r \in Receivers, NEW nw \in BOOLEAN, GetCall(r, nw)
        PROVE  OneThreadInside'
    BY <1>1 DEF TypeOK, GetCall
  <1>2. ASSUME NEW s \in Senders, NEW m \in Sends[s], NEW nw \in BOOLEAN,
               SendCall(s, m, nw)
        PROVE  OneThreadInside'
    BY <1>2 DEF TypeOK, SendCall
  <1>3. ASSUME NEW r \in Receivers, GetTake(r)
        PROVE  OneThreadInside'
    BY <1>3 DEF TypeOK, NextStart, Oldest, Emptied, WasFull, GetTake, Step
  <1>4. ASSUME NEW s \in Senders, SendPut(s)
        PROVE  OneThreadInside'
    BY <1>4 DEF TypeOK, SendPut, Step
  <1>5. ASSUME NEW t \in Threads, CallNext(t)
        PROVE  OneThreadInside'
    <2>1. CASE Disable(t)
      BY <2>1 DEF TypeOK, Disable, Step, CanRun
    <2>2. CASE LoopAgain(t)
      BY <2>2 DEF TypeOK, LoopAgain, Step, CanRun
    <2>3. CASE WaitReturn(t)
      BY <2>3 DEF TypeOK, WaitReturn, Step, CanRun
    <2>4. CASE WaitBlock(t)
      BY <2>4 DEF TypeOK, WaitBlock, Step, CanRun
    <2>5. CASE Wake(t)
      BY <2>5 DEF ChainHoldsTheBlocked, TypeOK, Wake, WakeupAll, Matching, LeftOnChain, OtherFlag, Step, CanRun
    <2>6. CASE Finish(t)
      BY <2>6 DEF TypeOK, Finish, Step, CanRun
    <2> QED
      BY <1>5, <2>1, <2>2, <2>3, <2>4, <2>5, <2>6 DEF CallNext
  <1>6. CASE UNCHANGED vars
    BY <1>6 DEF vars
  <1> QED
    BY <1>1, <1>2, <1>3, <1>4, <1>5, <1>6 DEF Next, GetNext, SendNext

LEMMA NextArgInv ==
  ASSUME TypeOK, ArgInv, ChainHoldsTheBlocked, [Next]_vars
  PROVE  ArgInv'
  <1> USE Roles DEF ArgInv
  <1>1. ASSUME NEW r \in Receivers, NEW nw \in BOOLEAN, GetCall(r, nw)
        PROVE  ArgInv'
    BY <1>1 DEF TypeOK, GetCall
  <1>2. ASSUME NEW s \in Senders, NEW m \in Sends[s], NEW nw \in BOOLEAN,
               SendCall(s, m, nw)
        PROVE  ArgInv'
    <2>1. m \in Messages
      BY SendsAssumption
    <2> QED  BY <1>2, <2>1 DEF TypeOK, SendCall
  <1>3. ASSUME NEW r \in Receivers, GetTake(r)
        PROVE  ArgInv'
    BY <1>3 DEF TypeOK, NextStart, Oldest, Emptied, WasFull, GetTake, Step
  <1>4. ASSUME NEW s \in Senders, SendPut(s)
        PROVE  ArgInv'
    BY <1>4 DEF TypeOK, SendPut, Step
  <1>5. ASSUME NEW t \in Threads, CallNext(t)
        PROVE  ArgInv'
    <2>1. CASE Disable(t) \/ LoopAgain(t) \/ WaitReturn(t) \/ WaitBlock(t)
      BY <2>1 DEF TypeOK, Disable, LoopAgain, WaitReturn, WaitBlock, Step
    <2>2. CASE Wake(t)
      BY <2>2 DEF TypeOK, Wake, WakeupAll, Matching, LeftOnChain, OtherFlag, Step, ChainHoldsTheBlocked
    <2>3. CASE Finish(t)
      BY <2>3 DEF TypeOK, Finish, Step
    <2> QED
      BY <1>5, <2>1, <2>2, <2>3 DEF CallNext
  <1>6. CASE UNCHANGED vars
    BY <1>6 DEF vars
  <1> QED
    BY <1>1, <1>2, <1>3, <1>4, <1>5, <1>6 DEF Next, GetNext, SendNext

LEMMA NextChainHoldsTheBlocked ==
  ASSUME TypeOK, ChainHoldsTheBlocked, [Next]_vars
  PROVE  ChainHoldsTheBlocked'
  <1> USE Roles DEF ChainHoldsTheBlocked
  <1>1. ASSUME NEW r \in Receivers, NEW nw \in BOOLEAN, GetCall(r, nw)
        PROVE  ChainHoldsTheBlocked'
    BY <1>1 DEF TypeOK, GetCall
  <1>2. ASSUME NEW s \in Senders, NEW m \in Sends[s], NEW nw \in BOOLEAN,
               SendCall(s, m, nw)
        PROVE  ChainHoldsTheBlocked'
    BY <1>2 DEF TypeOK, SendCall
  <1>3. ASSUME NEW r \in Receivers, GetTake(r)
        PROVE  ChainHoldsTheBlocked'
    BY <1>3 DEF TypeOK, NextStart, Oldest, Emptied, WasFull, GetTake, Step
  <1>4. ASSUME NEW s \in Senders, SendPut(s)
        PROVE  ChainHoldsTheBlocked'
    BY <1>4 DEF TypeOK, SendPut, Step
  <1>5. ASSUME NEW t \in Threads, CallNext(t)
        PROVE  ChainHoldsTheBlocked'
    <2>1. CASE Disable(t) \/ LoopAgain(t) \/ WaitReturn(t)
      BY <2>1 DEF TypeOK, Disable, LoopAgain, WaitReturn, Step
    <2>2. CASE WaitBlock(t)
      BY <2>2 DEF TypeOK, WaitBlock, Step
    <2>3. CASE Wake(t)
      BY <2>3 DEF TypeOK, Wake, WakeupAll, Matching, LeftOnChain, OtherFlag, Step
    <2>4. CASE Finish(t)
      BY <2>4 DEF TypeOK, Finish, Step
    <2> QED
      BY <1>5, <2>1, <2>2, <2>3, <2>4 DEF CallNext
  <1>6. CASE UNCHANGED vars
    BY <1>6 DEF vars
  <1> QED
    BY <1>1, <1>2, <1>3, <1>4, <1>5, <1>6 DEF Next, GetNext, SendNext

-------------------------------------------------------------------------------
(* Flags and length. *)

LEMMA NextFlagsInv ==
  ASSUME TypeOK, OneThreadInside, ChainHoldsTheBlocked, FlagsInv, [Next]_vars
  PROVE  FlagsInv'
  <1> USE Roles, SizeAssumption
      DEF FlagsInv, FlagsRight, InsideGet, InsideSend, OneThreadInside, Region
  <1>1. ASSUME NEW r \in Receivers, NEW nw \in BOOLEAN, GetCall(r, nw)
        PROVE  FlagsInv'
    BY <1>1 DEF TypeOK, GetCall, queueVars
  <1>2. ASSUME NEW s \in Senders, NEW m \in Sends[s], NEW nw \in BOOLEAN,
               SendCall(s, m, nw)
        PROVE  FlagsInv'
    BY <1>2 DEF TypeOK, SendCall, queueVars
  <1>3. ASSUME NEW r \in Receivers, GetTake(r)
        PROVE  FlagsInv'
    <2>1. switchOwner = r /\ switchOwner' = r /\ pc'[r] = "wake" /\ FlagsRight
          /\ \A t \in Threads : t # r => pc'[t] \notin Region
      BY <1>3 DEF TypeOK, NextStart, Oldest, Emptied, WasFull, GetTake, Step
    <2>2. length \in 1 .. Size /\ length' = length - 1 /\ flags' = flags
      BY <1>3 DEF TypeOK, NextStart, Oldest, Emptied, WasFull, GetTake, MustWait
    <2>3. edge'[r] <=> length = Size
      BY <1>3 DEF TypeOK, NextStart, Oldest, Emptied, WasFull, GetTake
    <2>4. InsideGet(r)'
      BY <2>1, <2>2, <2>3
    <2> QED
      BY <2>1, <2>4
  <1>4. ASSUME NEW s \in Senders, SendPut(s)
        PROVE  FlagsInv'
    <2>1. switchOwner = s /\ switchOwner' = s /\ pc'[s] = "wake" /\ FlagsRight
          /\ \A t \in Threads : t # s => pc'[t] \notin Region
      BY <1>4 DEF TypeOK, SendPut, Step
    <2>2. length \in 0 .. Size - 1 /\ length' = length + 1 /\ flags' = flags
      BY <1>4 DEF TypeOK, SendPut, MustWait
    <2>3. edge'[s] <=> length = 0
      BY <1>4 DEF TypeOK, SendPut
    <2>4. InsideSend(s)'
      BY <2>1, <2>2, <2>3
    <2> QED
      BY <2>1, <2>4
  <1>5. ASSUME NEW t \in Threads, CallNext(t)
        PROVE  FlagsInv'
    <2>1. CASE Disable(t)
      BY <2>1 DEF TypeOK, Disable, Step, CanRun, queueVars
    <2>2. CASE LoopAgain(t)
      BY <2>2 DEF TypeOK, LoopAgain, Step, CanRun, queueVars
    <2>3. CASE WaitReturn(t) \/ WaitBlock(t)
      BY <2>3 DEF TypeOK, WaitReturn, WaitBlock, Step, CanRun, queueVars
    <2>4. CASE Wake(t)
      <3>1. switchOwner = t /\ switchOwner' = t /\ pc'[t] = "finish"
            /\ length' = length
            /\ \A u \in Threads : u # t => pc'[u] \notin Region
        BY <2>4 DEF TypeOK, Wake, WakeupAll, Matching, LeftOnChain, OtherFlag, Step, ChainHoldsTheBlocked
      <3>2. flags' = IF edge[t] THEN flags \cup {IF t \in Receivers THEN SEND ELSE GET}
                                ELSE flags
        BY <2>4 DEF Wake, WakeupAll, Matching, LeftOnChain, OtherFlag
      <3>3. GET \in flags' /\ SEND \in flags'
            /\ (t \in Receivers => length < Size) /\ (t \in Senders => length > 0)
        BY <2>4, <3>2 DEF Wake, Threads
      <3> QED
        BY <3>1, <3>3
    <2>5. CASE Finish(t)
      <3>1. switchOwner' = NULL /\ length' = length
            /\ \A u \in Threads : pc'[u] \notin Region
        BY <2>5 DEF TypeOK, Finish, Step
      <3>2. length \in 0 .. Size /\ GET \in flags /\ SEND \in flags
            /\ (t \in Receivers => length < Size) /\ (t \in Senders => length > 0)
        BY <2>5 DEF TypeOK, Finish, Step, Threads
      <3>3. flags' = IF MustWait(t) THEN flags \ {AwaitedFlag(t)} ELSE flags
        BY <2>5 DEF Finish
      <3>4. FlagsRight'
        BY <3>1, <3>2, <3>3 DEF MustWait, AwaitedFlag, Threads
      <3> QED
        BY <3>1, <3>4
    <2> QED
      BY <1>5, <2>1, <2>2, <2>3, <2>4, <2>5 DEF CallNext
  <1>6. CASE UNCHANGED vars
    BY <1>6 DEF vars
  <1> QED
    BY <1>1, <1>2, <1>3, <1>4, <1>5, <1>6 DEF Next, GetNext, SendNext

-------------------------------------------------------------------------------
(* The ring. *)

\* sendMessage's assertion: the slot it fills is free.
LEMMA SendSlotFree ==
  ASSUME TypeOK, WindowHoldsTheMessages, length < Size
  PROVE  messages[SendIndex] = NULL
  <1>1. SendIndex \in Slots /\ ~InUse(SendIndex)
    BY SizeAssumption DEF TypeOK, SendIndex, Slots, InUse
  <1> QED
    BY <1>1 DEF WindowHoldsTheMessages

LEMMA NextWindow ==
  ASSUME TypeOK, ArgInv, WindowHoldsTheMessages, [Next]_vars
  PROVE  WindowHoldsTheMessages'
  <1> USE Roles, SizeAssumption DEF WindowHoldsTheMessages, InUse
  <1>1. CASE UNCHANGED <<start, length, messages>>
    BY <1>1 DEF Slots
  <1>2. ASSUME NEW r \in Receivers, GetTake(r)
        PROVE  WindowHoldsTheMessages'
    <2>1. length \in 1 .. Size /\ start \in Slots /\ length' = length - 1
          /\ start' = IF start + 1 = Size THEN 0 ELSE start + 1
      BY <1>2 DEF TypeOK, NextStart, Oldest, Emptied, WasFull, GetTake, MustWait
    <2>2. \A k \in Slots : messages'[k] = IF k = start THEN NULL ELSE messages[k]
      BY <1>2 DEF TypeOK, NextStart, Oldest, Emptied, WasFull, GetTake
    <2>3. \A k \in Slots : InUse(k)' <=> InUse(k) /\ k # start
      BY <2>1 DEF Slots
    <2> QED
      BY <2>2, <2>3
  <1>3. ASSUME NEW s \in Senders, SendPut(s)
        PROVE  WindowHoldsTheMessages'
    <2>1. length \in 0 .. Size - 1 /\ start \in Slots /\ length' = length + 1
          /\ start' = start
      BY <1>3 DEF TypeOK, SendPut, MustWait
    <2>2. \A k \in Slots : messages'[k] = IF k = SendIndex THEN arg[s] ELSE messages[k]
      BY <1>3 DEF TypeOK, SendPut
    <2>3. \A k \in Slots : InUse(k)' <=> InUse(k) \/ k = SendIndex
      BY <2>1 DEF Slots, SendIndex
    <2>4. arg[s] # NULL
      BY <1>3, NullAssumption DEF ArgInv, SendPut, Step
    <2> QED
      BY <2>2, <2>3, <2>4
  <1> QED
    BY <1>1, <1>2, <1>3 DEF Next, GetNext, SendNext, GetCall, SendCall, CallNext,
       Disable, LoopAgain, WaitReturn, WaitBlock, Wake, Finish, queueVars, vars

-------------------------------------------------------------------------------
(* The theorems. *)

\* The inductive invariant holds in every reachable state.
THEOREM Invariance == Spec => []IInv
  <1>1. Init => IInv
    <2> SUFFICES ASSUME Init PROVE IInv
      OBVIOUS
    <2>1. OneThreadInside /\ ArgInv /\ ChainHoldsTheBlocked /\ FlagsInv
      BY Roles, SizeAssumption DEF Init, OneThreadInside, Region, ArgInv, FlagsInv,
         FlagsRight, InsideGet, InsideSend, ChainHoldsTheBlocked
    <2>2. WindowHoldsTheMessages
      BY SizeAssumption DEF Init, WindowHoldsTheMessages, InUse, Slots
    <2> QED
      BY <2>1, <2>2, InitTypeOK DEF IInv
  <1>2. IInv /\ [Next]_vars => IInv'
    BY NextTypeOK, NextOneThreadInside, NextArgInv, NextChainHoldsTheBlocked,
       NextFlagsInv, NextWindow DEF IInv
  <1> QED
    BY <1>1, <1>2, PTL DEF Spec

\* Type correctness.
THEOREM TypeCorrect == Spec => []TypeOK
  BY Invariance, PTL DEF IInv

\* Whatever the number of threads, one call at a time is inside its region.
THEOREM MutualExclusion == Spec => []OneThreadInside
  BY Invariance, PTL DEF IInv

\* For every capacity: slots in use hold messages, the others are NULL; with
\* SendSlotFree this is the assertion of messagequeue.cpp:77.
THEOREM RingCorrect == Spec => []WindowHoldsTheMessages
  BY Invariance, PTL DEF IInv

\* Between calls the wait flags tell whether a get (a send) can proceed.
THEOREM FlagsCorrect == Spec => []FlagsTellTheTruth
  <1>1. IInv => FlagsTellTheTruth
    BY DEF IInv, FlagsInv, FlagsRight, FlagsTellTheTruth
  <1> QED
    BY <1>1, Invariance, PTL

\* While the chain is intact no thread sleeps beside a set flag.
THEOREM WakeupsReach == Spec => []NoLostWakeup
  <1>1. Init => NoLostWakeup
    BY DEF Init, NoLostWakeup
  <1>2. IInv /\ NoLostWakeup /\ [Next]_vars => NoLostWakeup'
    <2> SUFFICES ASSUME IInv, NoLostWakeup, [Next]_vars
                 PROVE  NoLostWakeup'
      OBVIOUS
    <2> USE DEF NoLostWakeup, AwaitedFlag
    <2>1. ASSUME NEW t \in Threads, WaitBlock(t)
          PROVE  NoLostWakeup'
      BY <2>1 DEF WaitBlock, Recheck, queueVars
    <2>2. ASSUME NEW t \in Threads, Wake(t)
          PROVE  NoLostWakeup'
      BY <2>2 DEF Wake, WakeupAll, Matching, LeftOnChain, OtherFlag
    <2>3. ASSUME NEW t \in Threads, Finish(t)
          PROVE  NoLostWakeup'
      BY <2>3 DEF Finish
    <2>4. CASE UNCHANGED <<flags, blocked, chainOk>>
      BY <2>4
    <2> QED
      BY <2>1, <2>2, <2>3, <2>4 DEF Next, GetNext, SendNext, GetCall, SendCall,
         CallNext, GetTake, SendPut, Disable, LoopAgain, WaitReturn, queueVars, vars
  <1> QED
    BY <1>1, <1>2, Invariance, PTL DEF Spec

-------------------------------------------------------------------------------
(* Refinement of the bounded FIFO. *)

LEMMA ContentsSeq ==
  ASSUME TypeOK, WindowHoldsTheMessages
  PROVE  /\ Contents \in Seq(Messages)
         /\ Len(Contents) = length
         /\ DOMAIN Contents = 1 .. length
         /\ \A i \in 1 .. length : Contents[i] = messages[SlotAt(i)]
  <1>1. \A i \in 1 .. length : SlotAt(i) \in Slots /\ InUse(SlotAt(i))
    BY SizeAssumption DEF TypeOK, Slots, SlotAt, InUse
  <1>2. \A i \in 1 .. length : messages[SlotAt(i)] \in Messages
    BY <1>1 DEF TypeOK, WindowHoldsTheMessages
  <1>3. length \in Nat
    BY SizeAssumption DEF TypeOK
  <1> QED
    BY <1>2, <1>3 DEF Contents

\* Taking the message at start is taking the head of the contents.
LEMMA TakeIsTail ==
  ASSUME IInv, IInv', NEW r \in Receivers, GetTake(r)
  PROVE  /\ Contents # <<>>
         /\ messages[start] = Head(Contents)
         /\ Contents' = Tail(Contents)
  <1>1. TypeOK /\ WindowHoldsTheMessages /\ TypeOK' /\ WindowHoldsTheMessages'
    BY DEF IInv
  <1>2. length \in 1 .. Size /\ start \in Slots /\ length' = length - 1
        /\ start' = (IF start + 1 = Size THEN 0 ELSE start + 1)
        /\ \A k \in Slots : k # start => messages'[k] = messages[k]
    BY <1>1, Roles DEF TypeOK, NextStart, Oldest, Emptied, WasFull, GetTake, MustWait
  <1>3. Contents # <<>> /\ SlotAt(1) = start
    BY <1>1, <1>2, ContentsSeq, SizeAssumption DEF SlotAt, Slots
  <1>4. Head(Contents) = messages[start]
    BY <1>1, <1>2, <1>3, ContentsSeq, SizeAssumption
  <1>5. \A i \in 1 .. length - 1 :
           SlotAt(i)' = SlotAt(i + 1) /\ SlotAt(i + 1) \in Slots /\ SlotAt(i + 1) # start
    BY <1>2, SizeAssumption DEF SlotAt, Slots
  <1>6. \A i \in 1 .. length - 1 : Contents'[i] = Contents[i + 1]
    <2> TAKE i \in 1 .. length - 1
    <2>1. Contents'[i] = messages'[SlotAt(i)']
      BY <1>2, SizeAssumption DEF Contents
    <2>2. Contents[i + 1] = messages[SlotAt(i + 1)]
      BY <1>1, <1>2, ContentsSeq, SizeAssumption
    <2> QED
      BY <2>1, <2>2, <1>2, <1>5
  <1>7. Contents' \in Seq(Messages) /\ Len(Contents') = length - 1
    <2>1. Contents' = [i \in 1 .. length' |-> messages'[SlotAt(i)']]
      BY DEF Contents
    <2>2. \A i \in 1 .. length' : Contents'[i] \in Messages
      BY <1>1, <1>2, <1>6, ContentsSeq, SizeAssumption
    <2> QED
      BY <1>2, <2>1, <2>2, SizeAssumption
  <1>8. Tail(Contents) \in Seq(Messages) /\ Len(Tail(Contents)) = length - 1
        /\ \A i \in 1 .. length - 1 : Tail(Contents)[i] = Contents[i + 1]
    BY <1>1, <1>2, <1>3, ContentsSeq, SizeAssumption
  <1>9. Contents' = Tail(Contents)
    BY <1>6, <1>7, <1>8
  <1> QED
    BY <1>3, <1>4, <1>9

\* Filling the slot at SendIndex is appending to the contents.
LEMMA PutIsAppend ==
  ASSUME IInv, IInv', NEW s \in Senders, SendPut(s)
  PROVE  /\ Len(Contents) < Size
         /\ arg[s] \in Messages
         /\ Contents' = Append(Contents, arg[s])
  <1>1. TypeOK /\ WindowHoldsTheMessages
    BY DEF IInv
  <1>2. length \in 0 .. Size - 1 /\ start \in Slots /\ length' = length + 1
        /\ start' = start /\ arg[s] \in Messages
        /\ \A k \in Slots : messages'[k] = IF k = SendIndex THEN arg[s] ELSE messages[k]
    <2>1. length \in 0 .. Size - 1 /\ start \in Slots /\ length' = length + 1
          /\ start' = start
      BY <1>1, Roles, SizeAssumption DEF TypeOK, SendPut, MustWait
    <2>2. arg[s] \in Messages
      BY DEF IInv, ArgInv, SendPut, Step
    <2>3. \A k \in Slots : messages'[k] = IF k = SendIndex THEN arg[s] ELSE messages[k]
      BY <1>1 DEF TypeOK, SendPut
    <2> QED
      BY <2>1, <2>2, <2>3
  <1>3. \A i \in 1 .. length :
           SlotAt(i)' = SlotAt(i) /\ SlotAt(i) \in Slots /\ SlotAt(i) # SendIndex
    BY <1>2, SizeAssumption DEF SlotAt, SendIndex, Slots
  <1>4. SendIndex \in Slots
        /\ \A i \in 1 .. length + 1 : i = length + 1 => SlotAt(i)' = SendIndex
    BY <1>2, SizeAssumption DEF SlotAt, SendIndex, Slots
  <1>5. Contents' = [i \in 1 .. length + 1 |-> messages'[SlotAt(i)']]
    BY <1>2 DEF Contents
  <1>6. \A i \in 1 .. length : Contents'[i] = Contents[i]
    BY <1>1, <1>2, <1>3, <1>5, ContentsSeq, SizeAssumption
  <1>7. Contents'[length + 1] = arg[s]
    BY <1>2, <1>4, <1>5, SizeAssumption
  <1>8. Contents' \in Seq(Messages) /\ Len(Contents') = length + 1
    <2>1. \A i \in 1 .. length + 1 : Contents'[i] \in Messages
      BY <1>1, <1>2, <1>6, <1>7, ContentsSeq, SizeAssumption
    <2> QED
      BY <1>2, <1>5, <2>1, SizeAssumption
  <1>9. Append(Contents, arg[s]) \in Seq(Messages)
        /\ Len(Append(Contents, arg[s])) = length + 1
        /\ Append(Contents, arg[s])[length + 1] = arg[s]
        /\ \A i \in 1 .. length : Append(Contents, arg[s])[i] = Contents[i]
    BY <1>1, <1>2, ContentsSeq, SizeAssumption
  <1>10. Contents' = Append(Contents, arg[s])
    BY <1>6, <1>7, <1>8, <1>9, <1>2
  <1> QED
    BY <1>1, <1>2, <1>10, ContentsSeq, SizeAssumption

LEMMA ContentsStay ==
  ASSUME UNCHANGED <<start, length, messages>>
  PROVE  Contents' = Contents
  BY DEF Contents, SlotAt

\* Every step of the queue is a step of the FIFO or leaves it alone.
LEMMA StepSimulation ==
  ASSUME IInv, IInv', [Next]_vars
  PROVE  [Fifo!FifoNext]_<<Contents, got, sent>>
  <1>1. TypeOK /\ WindowHoldsTheMessages
    BY DEF IInv
  <1>2. ASSUME NEW r \in Receivers, NEW nw \in BOOLEAN, GetCall(r, nw)
        PROVE  [Fifo!FifoNext]_<<Contents, got, sent>>
    <2>1. Contents' = Contents /\ sent' = sent
      BY <1>2, ContentsStay DEF GetCall, queueVars
    <2>2. CASE Refused(r, nw)
      <3>1. Contents = <<>>
        BY <2>2, <1>1, ContentsSeq DEF Refused, MustWait
      <3>2. Fifo!RefuseTake(r)
        BY <1>2, <2>1, <2>2, <3>1 DEF GetCall, Fifo!RefuseTake
      <3> QED
        BY <3>2 DEF Fifo!FifoNext
    <2>3. CASE ~Refused(r, nw)
      BY <1>2, <2>1, <2>3 DEF GetCall
    <2> QED
      BY <2>2, <2>3
  <1>3. ASSUME NEW s \in Senders, NEW m \in Sends[s], NEW nw \in BOOLEAN,
               SendCall(s, m, nw)
        PROVE  [Fifo!FifoNext]_<<Contents, got, sent>>
    <2>1. Contents' = Contents /\ got' = got
      BY <1>3, ContentsStay DEF SendCall, queueVars
    <2>2. CASE Refused(s, nw)
      <3>1. Len(Contents) = Size
        BY <2>2, <1>1, ContentsSeq, Roles DEF Refused, MustWait
      <3>2. Fifo!RefusePut(s)
        BY <1>3, <2>1, <2>2, <3>1 DEF SendCall, Fifo!RefusePut
      <3> QED
        BY <3>2 DEF Fifo!FifoNext
    <2>3. CASE ~Refused(s, nw)
      BY <1>3, <2>1, <2>3 DEF SendCall
    <2> QED
      BY <2>2, <2>3
  <1>4. ASSUME NEW r \in Receivers, GetTake(r)
        PROVE  [Fifo!FifoNext]_<<Contents, got, sent>>
    <2>1. Fifo!Take(r)
      BY <1>4, TakeIsTail DEF GetTake, Oldest, Fifo!Take
    <2> QED
      BY <2>1 DEF Fifo!FifoNext
  <1>5. ASSUME NEW s \in Senders, SendPut(s)
        PROVE  [Fifo!FifoNext]_<<Contents, got, sent>>
    <2>1. Fifo!Put(s)
      BY <1>5, PutIsAppend DEF SendPut, Fifo!Put
    <2> QED
      BY <2>1 DEF Fifo!FifoNext
  <1>6. ASSUME NEW t \in Threads, CallNext(t)
        PROVE  UNCHANGED <<Contents, got, sent>>
    BY <1>6, ContentsStay DEF CallNext, Disable, LoopAgain, WaitReturn, WaitBlock,
       Wake, Finish, queueVars
  <1>7. CASE UNCHANGED vars
    BY <1>7, ContentsStay DEF vars
  <1> QED
    BY <1>2, <1>3, <1>4, <1>5, <1>6, <1>7 DEF Next, GetNext, SendNext

\* For every capacity and any number of senders and receivers, messages leave
\* the ring once each, in the order in which they entered it.
THEOREM Refinement == Spec => ImplementsFifo
  <1>1. Init => Fifo!FifoInit
    <2> SUFFICES ASSUME Init PROVE Fifo!FifoInit
      OBVIOUS
    <2>1. Contents = <<>>
      BY SizeAssumption DEF Init, Contents
    <2> QED
      BY <2>1 DEF Init, Fifo!FifoInit
  <1>2. IInv /\ IInv' /\ [Next]_vars => [Fifo!FifoNext]_<<Contents, got, sent>>
    BY StepSimulation
  <1> QED
    BY <1>1, <1>2, Invariance, PTL DEF Spec, ImplementsFifo, Fifo!FifoSpec,
       Fifo!fifoVars
===============================================================================
