---------------------------- MODULE Keyboard_proofs ----------------------------
(***************************************************************************)
(* Proofs about the way of a key into the text: KeyboardDriver, which      *)
(* hands its code to a reader, and InputLine, which does what it is for.   *)
(*                                                                         *)
(* The driver, for any readers, blocking or not, any ring and any sizes of *)
(* reads: every step of the window, the dispatcher, the handler and the    *)
(* readers is a step of KeyRing or none.  A ring that is written or read   *)
(* is the sequence of its contents with an item more at its end, or less   *)
(* at its front, wherever it starts.  The invariant says which codes a     *)
(* reader can hold where, that the dispatcher handles an interrupt only    *)
(* while it is triggered, and that it tells only readers that are blocked. *)
(*                                                                         *)
(* The line, for any characters of one byte or two, buffers of any size,   *)
(* and texts and strings of keys of any length: a key does what it is for  *)
(* (LineEditor), under the modifiers that are held, and the context is the *)
(* one where the cursor is.  The bytes before the gap and behind it code   *)
(* the characters before the cursor and behind it, and a code cannot be    *)
(* taken for another, whichever end it is read from: so what the iterator  *)
(* finds is a character, and moving over it, erasing it or inserting       *)
(* another changes the two sequences by one.  A context that is updated    *)
(* forward by a character and then backward is as it was.                  *)
(***************************************************************************)
EXTENDS KeyboardDriver, InputLine, SequenceTheorems, WellFoundedInduction, TLAPS

Buffers == [items : [0 .. Size - 1 -> Codes], start : 0 .. Size, length : 0 .. Size]

Places == {"out", "test", "look", "blocked", "enter", "turnOff", "copy", "unset",
           "turnOn", "notify", "leave"}

Types ==
    /\ keyCode \in Codes /\ host \in {"idle", "pressed", "triggered"}
    /\ enabled \in BOOLEAN /\ triggered \in BOOLEAN /\ notified \in BOOLEAN
    /\ cpu \in {"look", "run", "held", "handled", "cleared"}
    /\ buffer \in Buffers /\ ready \in BOOLEAN /\ waiters \in Seq(Readers)
    /\ owner \in Readers \cup {NULL}
    /\ pc \in [Readers -> Places]
    /\ asked \in [Readers -> Nat] /\ got \in [Readers -> Seq(Codes)]

\* An interrupt is handled while it is triggered.
Handling == cpu \in {"held", "handled"} => triggered

\* The chain of READ_READY holds readers that are blocked, each once.
Chain ==
    /\ \A i \in 1 .. Len(waiters) : pc[waiters[i]] = "blocked"
    /\ \A i, j \in 1 .. Len(waiters) : i # j => waiters[i] # waiters[j]

\* What a reader has asked for and got, by where it is.
Asking ==
    \A r \in Readers :
       /\ pc[r] = "out" => asked[r] = 0
       /\ pc[r] \in {"out", "test", "look", "blocked", "enter", "turnOff"} => got[r] = <<>>
       /\ pc[r] \in {"unset", "turnOn", "notify", "leave"} => asked[r] = 0 \/ got[r] = <<>>

IInv == Types /\ Handling /\ Chain /\ Asking

-------------------------------------------------------------------------------
(* The ring. *)

\* The contents of a ring are a sequence of codes, as long as the ring says.
LEMMA ContentsIs ==
    ASSUME NEW b \in Buffers
    PROVE  /\ Ring!Contents(b) \in Seq(Codes)
           /\ Len(Ring!Contents(b)) = b.length
           /\ \A n \in 1 .. b.length :
                 Ring!Contents(b)[n] = b.items[Ring!Place(b, n - 1)]
<1>1. Size \in Nat \ {0} /\ b.length \in Nat
  BY DriverAssumption DEF Buffers
<1>2. ASSUME NEW n \in 1 .. b.length PROVE Ring!Place(b, n - 1) \in 0 .. Size - 1
  BY <1>1 DEF Buffers, Ring!Place
<1>3. \A n \in 1 .. b.length : b.items[Ring!Place(b, n - 1)] \in Codes
  BY <1>2 DEF Buffers
<1>4. Ring!Contents(b) \in [1 .. b.length -> Codes]
  BY <1>3 DEF Ring!Contents
<1> DEFINE s == Ring!Contents(b)
<1>5. \A n \in 1 .. b.length : s[n] = b.items[Ring!Place(b, n - 1)]
  BY DEF Ring!Contents
<1> HIDE DEF s
<1>6. s \in Seq(Codes) /\ Len(s) = b.length
  BY <1>1, <1>4 DEF s
<1> QED  BY <1>5, <1>6 DEF s

\* A code that is written comes last, and moves none of the others.
LEMMA WrittenContents ==
    ASSUME NEW b \in Buffers, NEW c \in Codes, ~Ring!IsFull(b)
    PROVE  /\ Ring!Written(b, c) \in Buffers
           /\ Ring!Contents(Ring!Written(b, c)) = Append(Ring!Contents(b), c)
<1> DEFINE w == Ring!Written(b, c)
           p == Ring!Place(b, b.length)
<1>1. /\ Size \in Nat \ {0} /\ b.length \in 0 .. Size - 1 /\ b.start \in 0 .. Size
      /\ b.items \in [0 .. Size - 1 -> Codes]
  BY DriverAssumption DEF Buffers, Ring!IsFull
<1>2. p \in 0 .. Size - 1
  BY <1>1 DEF Ring!Place
<1>3. /\ w \in Buffers /\ w.start = b.start /\ w.length = b.length + 1
      /\ w.items = [b.items EXCEPT ![p] = c]
  <2>1. w = [b EXCEPT !.items = [@ EXCEPT ![p] = c], !.length = @ + 1]
    BY DEF Ring!Written, Ring!WrittenAt, Buffers
  <2>2. b = [items |-> b.items, start |-> b.start, length |-> b.length]
    BY DEF Buffers
  <2> HIDE DEF w, p
  <2>3. w = [items |-> [b.items EXCEPT ![p] = c], start |-> b.start,
             length |-> b.length + 1]
    BY <2>1, <2>2
  <2>4. [b.items EXCEPT ![p] = c] \in [0 .. Size - 1 -> Codes] /\ b.length + 1 \in 0 .. Size
    BY <1>1, <1>2
  <2> QED  BY <1>1, <2>3, <2>4 DEF Buffers
<1> HIDE DEF w
<1>4. \A n \in 1 .. b.length : /\ Ring!Place(b, n - 1) \in 0 .. Size - 1
                               /\ Ring!Place(b, n - 1) # p
                               /\ Ring!Place(w, n - 1) = Ring!Place(b, n - 1)
  <2> SUFFICES ASSUME NEW n \in 1 .. b.length
               PROVE  /\ Ring!Place(b, n - 1) \in 0 .. Size - 1
                      /\ Ring!Place(b, n - 1) # p
                      /\ Ring!Place(w, n - 1) = Ring!Place(b, n - 1)
    OBVIOUS
  <2>1. Ring!Place(b, n - 1) \in 0 .. Size - 1
    BY <1>1 DEF Ring!Place
  <2>2. Ring!Place(b, n - 1) # p
    BY <1>1 DEF Ring!Place
  <2>3. Ring!Place(w, n - 1) = Ring!Place(b, n - 1)
    BY <1>3 DEF Ring!Place
  <2> QED  BY <2>1, <2>2, <2>3
<1>5. Ring!Place(w, w.length - 1) = p
  BY <1>1, <1>3 DEF Ring!Place
<1> HIDE DEF p
<1>6. Ring!Contents(w) \in Seq(Codes) /\ Ring!Contents(b) \in Seq(Codes)
      /\ Len(Ring!Contents(w)) = b.length + 1 /\ Len(Ring!Contents(b)) = b.length
  BY <1>3, ContentsIs
<1>7. ASSUME NEW n \in 1 .. b.length + 1
      PROVE  Ring!Contents(w)[n] = Append(Ring!Contents(b), c)[n]
  <2>1. Ring!Contents(w)[n] = w.items[Ring!Place(w, n - 1)]
    BY <1>3, ContentsIs
  <2>2. CASE n = b.length + 1
    BY <1>1, <1>2, <1>3, <1>5, <1>6, <2>1, <2>2
  <2>3. CASE n # b.length + 1
    <3>1. n \in 1 .. b.length
      BY <1>1, <2>3
    <3>2. Append(Ring!Contents(b), c)[n] = Ring!Contents(b)[n]
      BY <1>6, <3>1
    <3>3. Ring!Contents(b)[n] = b.items[Ring!Place(b, n - 1)]
      BY <3>1, ContentsIs
    <3> QED  BY <1>1, <1>3, <1>4, <2>1, <3>1, <3>2, <3>3
  <2> QED  BY <2>2, <2>3
<1>8. Append(Ring!Contents(b), c) \in Seq(Codes)
      /\ Len(Append(Ring!Contents(b), c)) = b.length + 1
  BY <1>6
<1> QED  BY <1>3, <1>6, <1>7, <1>8, SeqEqual DEF w

\* The code that is read was first, and moves none of the others.
LEMMA ReadContents ==
    ASSUME NEW b \in Buffers, ~Ring!IsEmpty(b)
    PROVE  /\ Ring!AfterRead(b) \in Buffers
           /\ Ring!Contents(b) # <<>>
           /\ Ring!ItemRead(b) = Head(Ring!Contents(b))
           /\ Ring!Contents(Ring!AfterRead(b)) = Tail(Ring!Contents(b))
<1> DEFINE a == Ring!AfterRead(b)
<1>1. /\ Size \in Nat \ {0} /\ b.length \in 1 .. Size /\ b.start \in 0 .. Size
      /\ b.items \in [0 .. Size - 1 -> Codes]
  BY DriverAssumption DEF Buffers, Ring!IsEmpty
<1>2. Ring!First(b) \in 0 .. Size - 1
  BY <1>1 DEF Ring!First, Ring!Place
<1>3. /\ a \in Buffers /\ a.start = Ring!First(b) + 1 /\ a.length = b.length - 1
      /\ a.items = b.items
  <2>1. b = [items |-> b.items, start |-> b.start, length |-> b.length]
    BY DEF Buffers
  <2> DEFINE f == Ring!First(b) + 1
  <2>4. a = [b EXCEPT !.start = f, !.length = @ - 1]
    BY DEF Ring!AfterRead
  <2> HIDE DEF a, f
  <2>2. a = [items |-> b.items, start |-> f, length |-> b.length - 1]
    BY <2>1, <2>4
  <2>3. Ring!First(b) + 1 \in 0 .. Size /\ b.length - 1 \in 0 .. Size
    BY <1>1, <1>2
  <2> QED  BY <1>1, <2>2, <2>3 DEF Buffers, f
<1> HIDE DEF a
<1>4. \A n \in 1 .. a.length : Ring!Place(a, n - 1) = Ring!Place(b, n)
  BY <1>1, <1>3 DEF Ring!First, Ring!Place
<1>5. /\ Ring!Contents(a) \in Seq(Codes) /\ Ring!Contents(b) \in Seq(Codes)
      /\ Len(Ring!Contents(a)) = b.length - 1 /\ Len(Ring!Contents(b)) = b.length
  BY <1>3, ContentsIs
<1>6. Ring!Contents(b) # <<>>
  BY <1>1, <1>5
<1>7. Ring!ItemRead(b) = Head(Ring!Contents(b))
  BY <1>1, <1>5, ContentsIs DEF Ring!ItemRead, Ring!First
<1>8. /\ Tail(Ring!Contents(b)) \in Seq(Codes)
      /\ Len(Tail(Ring!Contents(b))) = b.length - 1
      /\ \A n \in 1 .. b.length - 1 : Tail(Ring!Contents(b))[n] = Ring!Contents(b)[n + 1]
  BY <1>1, <1>5, <1>6, HeadTailProperties
<1>9. ASSUME NEW n \in 1 .. b.length - 1
      PROVE  Ring!Contents(a)[n] = Tail(Ring!Contents(b))[n]
  <2>1. Ring!Contents(a)[n] = a.items[Ring!Place(a, n - 1)]
    BY <1>3, ContentsIs
  <2>2. Ring!Contents(b)[n + 1] = b.items[Ring!Place(b, n + 1 - 1)] /\ n + 1 - 1 = n
    BY <1>1, ContentsIs
  <2> QED  BY <1>3, <1>4, <1>8, <2>1, <2>2
<1> QED  BY <1>3, <1>5, <1>6, <1>7, <1>8, <1>9, SeqEqual DEF a

-------------------------------------------------------------------------------
(* The invariant is inductive. *)

LEMMA InitInvariant == Init => IInv
<1> SUFFICES ASSUME Init PROVE IInv
  OBVIOUS
<1>1. buffer \in Buffers
  BY DriverAssumption DEF Init, Ring!EmptyRing, Buffers
<1>2. <<>> \in Seq(Readers) /\ <<>> \in Seq(Codes) /\ Len(<<>>) = 0
  BY EmptySeq
<1>3. waiters \in Seq(Readers) /\ got \in [Readers -> Seq(Codes)]
  BY <1>2 DEF Init
<1>4. Types
  BY <1>1, <1>3 DEF Init, Types, Places
<1>5. Chain
  BY <1>2 DEF Init, Chain
<1>6. Handling /\ Asking
  BY DEF Init, Handling, Asking
<1> QED  BY <1>4, <1>5, <1>6 DEF IInv

\* The code of a key goes into the ring, or finds no room.
LEMMA WrittenIsRing ==
    ASSUME NEW b \in Buffers, NEW c \in Codes
    PROVE  Ring!Written(b, c) \in Buffers
BY WrittenContents DEF Ring!Written

\* The handler: a reader that it tells was blocked, and the others still are.
LEMMA HandlerInvariant == IInv /\ triggered /\ RunHandler => IInv'
<1> SUFFICES ASSUME IInv, triggered, RunHandler PROVE IInv'
  OBVIOUS
<1>1. buffer' \in Buffers
  BY WrittenIsRing DEF RunHandler, IInv, Types
<1>2. UNCHANGED <<keyCode, host, triggered, notified, owner, asked, got>>
      /\ cpu' = "handled" /\ enabled' = FALSE /\ ready' \in BOOLEAN
  BY DEF RunHandler, hostVars, IInv, Types
<1>3. CASE UNCHANGED <<pc, waiters>>
  BY <1>1, <1>2, <1>3 DEF IInv, Types, Handling, Chain, Asking
<1>4. CASE /\ waiters # <<>> /\ pc' = [pc EXCEPT ![Head(waiters)] = "enter"]
           /\ waiters' = Tail(waiters)
  <2> DEFINE h == Head(waiters)
  <2>1. /\ Len(waiters) \in Nat \ {0} /\ h = waiters[1] /\ h \in Readers
        /\ waiters' \in Seq(Readers) /\ Len(waiters') = Len(waiters) - 1
        /\ \A i \in 1 .. Len(waiters) - 1 : waiters'[i] = waiters[i + 1]
    BY <1>4, EmptySeq, HeadTailProperties DEF IInv, Types
  <2>2. pc[h] = "blocked"
    BY <2>1 DEF IInv, Chain
  <2> HIDE DEF h
  <2>3. pc' = [pc EXCEPT ![h] = "enter"]
    BY <1>4 DEF h
  <2>4. Types' /\ Handling'
    BY <1>1, <1>2, <2>1, <2>3 DEF IInv, Types, Handling, Places
  <2>5. Asking'
    BY <1>2, <2>1, <2>2, <2>3 DEF IInv, Types, Asking
  <2>6. ASSUME NEW i \in 1 .. Len(waiters')
        PROVE  /\ pc'[waiters'[i]] = "blocked"
               /\ \A j \in 1 .. Len(waiters') : i # j => waiters'[i] # waiters'[j]
    <3>1. i + 1 \in 1 .. Len(waiters) /\ i + 1 # 1 /\ waiters'[i] = waiters[i + 1]
      BY <2>1
    <3>2. waiters'[i] # h /\ pc[waiters'[i]] = "blocked" /\ waiters'[i] \in Readers
      <4>1. 1 \in 1 .. Len(waiters)
        BY <2>1
      <4>2. waiters[i + 1] # waiters[1] /\ pc[waiters[i + 1]] = "blocked"
        BY <3>1, <4>1 DEF IInv, Chain
      <4>3. waiters[i + 1] \in Readers
        BY <3>1 DEF IInv, Types
      <4> QED  BY <2>1, <3>1, <4>2, <4>3
    <3>3. ASSUME NEW j \in 1 .. Len(waiters'), i # j PROVE waiters'[i] # waiters'[j]
      <4>1. j + 1 \in 1 .. Len(waiters) /\ i + 1 # j + 1 /\ waiters'[j] = waiters[j + 1]
        BY <2>1, <3>3
      <4> QED  BY <3>1, <4>1 DEF IInv, Chain
    <3> QED  BY <2>3, <3>2, <3>3 DEF IInv, Types
  <2> QED  BY <2>4, <2>5, <2>6 DEF IInv, Chain
<1> QED  BY <1>3, <1>4 DEF RunHandler

\* The window and the dispatcher, but for the handler.
LEMMA HostInvariant ==
    IInv /\ ((\E c \in Codes : Press(c)) \/ Host \/ Hold \/ Clear \/ EnableAgain \/ Resume
             \/ Awaken \/ OtherInterrupt)
       => IInv'
<1> SUFFICES ASSUME IInv,
                    \/ (\E c \in Codes : Press(c)) \/ Host \/ Hold \/ Clear
                    \/ EnableAgain \/ Resume \/ Awaken \/ OtherInterrupt
             PROVE  IInv'
  OBVIOUS
<1>1. UNCHANGED <<buffer, ready, waiters, pc, owner, asked, got>>
  BY DEF Press, Host, Trigger, TriggerNotifies, Hold, Clear, EnableAgain, Resume, Awaken,
         OtherInterrupt, hostVars, irqVars, ringVars, readVars
<1>2. Handling'
  BY DEF IInv, Types, Handling, Press, Host, Trigger, TriggerNotifies, Hold, Clear,
         EnableAgain, Resume, Awaken, OtherInterrupt, hostVars, irqVars
<1>3. /\ keyCode' \in Codes /\ host' \in {"idle", "pressed", "triggered"}
      /\ enabled' \in BOOLEAN /\ triggered' \in BOOLEAN /\ notified' \in BOOLEAN
      /\ cpu' \in {"look", "run", "held", "handled", "cleared"}
  BY DEF IInv, Types, Press, Host, Trigger, TriggerNotifies, Hold, Clear, EnableAgain,
         Resume, Awaken, OtherInterrupt, hostVars, irqVars
<1>4. Types'
  BY <1>1, <1>3 DEF IInv, Types
<1> QED  BY <1>1, <1>2, <1>4 DEF IInv, Chain, Asking

\* A reader that moves on outside of the ring and the chain.
LEMMA ReaderMoves ==
    ASSUME IInv, NEW r \in Readers, NEW p \in Places, pc[r] # "blocked", p # "blocked",
           pc' = [pc EXCEPT ![r] = p],
           UNCHANGED <<keyCode, host, triggered, cpu, waiters>>,
           enabled' \in BOOLEAN, notified' \in BOOLEAN, ready' \in BOOLEAN,
           owner' \in Readers \cup {NULL}, buffer' \in Buffers,
           asked' \in [Readers -> Nat], got' \in [Readers -> Seq(Codes)],
           \A s \in Readers \ {r} : asked'[s] = asked[s] /\ got'[s] = got[s],
           p = "out" => asked'[r] = 0,
           p \in {"out", "test", "look", "enter", "turnOff"} => got'[r] = <<>>,
           p \in {"unset", "turnOn", "notify", "leave"} => asked'[r] = 0 \/ got'[r] = <<>>
    PROVE  IInv'
<1>1. Types' /\ Handling'
  BY DEF IInv, Types, Handling
<1>2. Asking'
  <2>1. \A s \in Readers : pc'[s] = IF s = r THEN p ELSE pc[s]
    BY DEF IInv, Types
  <2>2. ASSUME NEW s \in Readers
        PROVE  /\ pc'[s] = "out" => asked'[s] = 0
               /\ pc'[s] \in {"out", "test", "look", "blocked", "enter", "turnOff"}
                    => got'[s] = <<>>
               /\ pc'[s] \in {"unset", "turnOn", "notify", "leave"}
                    => asked'[s] = 0 \/ got'[s] = <<>>
    <3>1. CASE s = r
      BY <2>1, <3>1
    <3>2. CASE s # r
      BY <2>1, <3>2 DEF IInv, Asking
    <3> QED  BY <3>1, <3>2
  <2> QED  BY <2>2 DEF Asking
<1>3. \A i \in 1 .. Len(waiters) : waiters[i] \in Readers /\ waiters[i] # r
  <2>1. waiters \in Seq(Readers)
    BY DEF IInv, Types
  <2>2. \A i \in 1 .. Len(waiters) : waiters[i] \in Readers
    BY <2>1
  <2> QED  BY <2>2 DEF IInv, Chain
<1>4. Chain'
  <2>1. \A i \in 1 .. Len(waiters) : pc'[waiters[i]] = pc[waiters[i]]
    BY <1>3 DEF IInv, Types
  <2> QED  BY <2>1 DEF IInv, Chain
<1> QED  BY <1>1, <1>2, <1>4 DEF IInv

LEMMA ReaderInvariant == \A r \in Readers : IInv /\ GoesOn(r) => IInv'
<1> SUFFICES ASSUME NEW r \in Readers, IInv, GoesOn(r) PROVE IInv'
  OBVIOUS
<1> USE DEF IInv, Types, Places, GoesTo, hostVars, irqVars, ringVars, readVars
<1>1. CASE Test(r)
  BY <1>1, ReaderMoves DEF Test, Asking
<1>2. CASE Look(r)
  <2>1. CASE ready
    BY <1>2, <2>1, ReaderMoves DEF Look, Asking
  <2>2. CASE ~ready
    <3>1. /\ waiters' = Append(waiters, r) /\ pc' = [pc EXCEPT ![r] = "blocked"]
          /\ pc[r] = "look"
          /\ UNCHANGED <<hostVars, irqVars, cpu, buffer, ready, owner, asked, got>>
      BY <1>2, <2>2 DEF Look
    <3>2. /\ waiters' \in Seq(Readers) /\ Len(waiters') = Len(waiters) + 1
          /\ Len(waiters) \in Nat /\ waiters'[Len(waiters) + 1] = r
          /\ \A i \in 1 .. Len(waiters) : waiters'[i] = waiters[i] /\ waiters[i] \in Readers
      BY <3>1, AppendProperties
    <3>3. \A i \in 1 .. Len(waiters) : waiters[i] # r /\ pc'[waiters[i]] = "blocked"
      BY <3>1, <3>2 DEF Chain
    <3>4. \A i \in 1 .. Len(waiters') : i \in 1 .. Len(waiters) \/ i = Len(waiters) + 1
      BY <3>2
    <3>5. pc'[r] = "blocked"
      BY <3>1
    <3>6. Chain'
      <4>1. \A i \in 1 .. Len(waiters') : pc'[waiters'[i]] = "blocked"
        BY <3>2, <3>3, <3>4, <3>5
      <4>2. \A i, j \in 1 .. Len(waiters) : i # j => waiters'[i] # waiters'[j]
        BY <3>2 DEF Chain
      <4>3. \A i \in 1 .. Len(waiters) : /\ waiters'[i] # waiters'[Len(waiters) + 1]
                                         /\ waiters'[Len(waiters) + 1] # waiters'[i]
        BY <3>2, <3>3
      <4>4. \A i, j \in 1 .. Len(waiters') : i # j => waiters'[i] # waiters'[j]
        BY <3>4, <4>2, <4>3
      <4> QED  BY <4>1, <4>4 DEF Chain
    <3>7. Asking'
      BY <3>1 DEF Asking
    <3> QED  BY <3>1, <3>2, <3>6, <3>7 DEF Handling
  <2> QED  BY <2>1, <2>2
<1>3. CASE Enter(r)
  BY <1>3, ReaderMoves DEF Enter, Asking
<1>4. CASE TurnOff(r)
  BY <1>4, ReaderMoves DEF TurnOff, Asking
<1>5. CASE CopyOne(r)
  <2>1. Ring!AfterRead(buffer) \in Buffers /\ Ring!ItemRead(buffer) \in Codes
    <3>1. Ring!Contents(buffer) \in Seq(Codes) /\ ~Ring!IsEmpty(buffer)
      BY <1>5, ContentsIs DEF CopyOne
    <3>2. Ring!AfterRead(buffer) \in Buffers /\ Ring!ItemRead(buffer) = Head(Ring!Contents(buffer))
          /\ Ring!Contents(buffer) # <<>>
      BY <3>1, ReadContents
    <3>3. Head(Ring!Contents(buffer)) \in Codes
      BY <3>1, <3>2, HeadTailProperties
    <3> QED  BY <3>2, <3>3
  <2>2. got' \in [Readers -> Seq(Codes)] /\ asked' \in [Readers -> Nat]
    <3>1. Append(got[r], Ring!ItemRead(buffer)) \in Seq(Codes)
      BY <2>1, AppendProperties
    <3> QED  BY <1>5, <3>1 DEF CopyOne
  <2>3. pc' = [pc EXCEPT ![r] = "copy"] /\ pc[r] = "copy"
    BY <1>5 DEF CopyOne
  <2> QED  BY <1>5, <2>1, <2>2, <2>3, ReaderMoves DEF CopyOne
<1>6. CASE Copied(r)
  BY <1>6, ReaderMoves DEF Copied
<1>7. CASE UnsetReady(r)
  BY <1>7, ReaderMoves DEF UnsetReady, Asking
<1>8. CASE TurnOn(r)
  BY <1>8, ReaderMoves DEF TurnOn, Asking
<1>9. CASE Notify(r)
  BY <1>9, ReaderMoves DEF Notify, Asking
<1>10. CASE Leave(r)
  <2>1. got' \in [Readers -> Seq(Codes)] /\ got'[r] = <<>>
    BY <1>10, EmptySeq DEF Leave
  <2> QED  BY <1>10, <2>1, ReaderMoves DEF Leave, Asking
<1> QED  BY <1>1, <1>2, <1>3, <1>4, <1>5, <1>6, <1>7, <1>8, <1>9, <1>10 DEF GoesOn

LEMMA NextInvariant == IInv /\ [Next]_vars => IInv'
<1> SUFFICES ASSUME IInv, [Next]_vars PROVE IInv'
  OBVIOUS
<1>1. ASSUME NEW r \in Readers, NEW n \in 1 .. MaxAsked, Ask(r, n) PROVE IInv'
  <2>1. n \in Nat
    BY DriverAssumption
  <2> QED
    BY <1>1, <2>1, ReaderMoves
       DEF Ask, IInv, Types, Asking, Places, GoesTo, hostVars, irqVars, ringVars
<1>2. CASE Service \/ ServiceHeld
  BY <1>2, HandlerInvariant DEF Service, ServiceHeld, IInv, Handling
<1>3. CASE UNCHANGED vars
  BY <1>3 DEF IInv, Types, Handling, Chain, Asking, vars, hostVars, irqVars, ringVars, readVars
<1> QED  BY <1>1, <1>2, <1>3, HostInvariant, ReaderInvariant DEF Next, Dispatcher

\* The invariant holds for any readers, codes and sizes.
THEOREM Invariance == Spec => []IInv
BY InitInvariant, NextInvariant, PTL DEF Spec

-------------------------------------------------------------------------------
(* The refinement. *)

\* Whether a key has been struck, as KeyRing has it.
Struck == IF ~triggered THEN "no" ELSE IF cpu = "handled" THEN "in" ELSE "new"
Keys == Ring!Contents(buffer)

\* The handler puts the code in.
LEMMA HandlerSimulates ==
    ASSUME IInv, triggered, cpu # "handled", RunHandler
    PROVE  Abstract!GoesIn
<1>1. Struck = "new" /\ Struck' = "in" /\ UNCHANGED <<asked, got>>
  BY DEF RunHandler, Struck
<1>2. Len(Keys) = buffer.length /\ buffer \in Buffers /\ keyCode \in Codes
      /\ buffer' = Ring!Written(buffer, keyCode)
  BY ContentsIs DEF Keys, IInv, Types, RunHandler
<1>3. IF Len(Keys) < Size THEN Keys' = Append(Keys, keyCode) ELSE Keys' = Keys
  <2>1. buffer.length \in 0 .. Size /\ Size \in Nat
    BY <1>2, DriverAssumption DEF Buffers
  <2>2. CASE Len(Keys) < Size
    <3>1. ~Ring!IsFull(buffer)
      BY <1>2, <2>1, <2>2 DEF Ring!IsFull
    <3> QED  BY <1>2, <2>2, <3>1, WrittenContents DEF Keys
  <2>3. CASE ~(Len(Keys) < Size)
    <3>1. Ring!IsFull(buffer)
      BY <1>2, <2>1, <2>3 DEF Ring!IsFull
    <3> QED  BY <1>2, <2>3, <3>1 DEF Keys, Ring!Written
  <2> QED  BY <2>2, <2>3
<1> QED  BY <1>1, <1>2, <1>3 DEF Abstract!GoesIn, Struck, Keys

\* A code that is copied is taken from the front.
LEMMA CopySimulates ==
    ASSUME IInv, NEW r \in Readers, CopyOne(r)
    PROVE  Abstract!Takes(r)
<1>1. /\ buffer \in Buffers /\ ~Ring!IsEmpty(buffer) /\ asked[r] > 0
      /\ got' = [got EXCEPT ![r] = Append(@, Ring!ItemRead(buffer))]
      /\ asked' = [asked EXCEPT ![r] = @ - 1]
      /\ buffer' = Ring!AfterRead(buffer)
      /\ UNCHANGED <<cpu, triggered>>
  BY DEF CopyOne, IInv, Types, irqVars
<1>2. /\ Keys # <<>> /\ Ring!ItemRead(buffer) = Head(Keys) /\ Keys' = Tail(Keys)
  BY <1>1, ReadContents DEF Keys
<1> QED  BY <1>1, <1>2 DEF Abstract!Takes, Keys

\* The end of a copy: with fewer codes than asked for only when there are no more.
LEMMA CopiedSimulates ==
    ASSUME IInv, NEW r \in Readers, Copied(r)
    PROVE  Abstract!GoesWithFewer(r) \/ UNCHANGED <<Struck, Keys, asked, got>>
<1>1. /\ asked[r] = 0 \/ Ring!IsEmpty(buffer)
      /\ asked' = [asked EXCEPT ![r] = IF got[r] = <<>> /\ r \in Blocking THEN @ ELSE 0]
      /\ UNCHANGED <<cpu, triggered, buffer, got>>
  BY DEF Copied, irqVars, ringVars
<1>2. asked \in [Readers -> Nat] /\ buffer \in Buffers
  BY DEF IInv, Types
<1>3. UNCHANGED <<Struck, Keys>>
  BY <1>1 DEF Struck, Keys
<1>4. CASE asked[r] = 0 \/ (got[r] = <<>> /\ r \in Blocking)
  <2>1. asked' = asked
    BY <1>1, <1>2, <1>4
  <2> QED  BY <1>1, <1>3, <2>1
<1>5. CASE asked[r] # 0 /\ ~(got[r] = <<>> /\ r \in Blocking)
  <2>1. Keys = <<>>
    <3>1. Len(Keys) = 0 /\ Keys \in Seq(Codes)
      BY <1>1, <1>2, <1>5, ContentsIs DEF Keys, Ring!IsEmpty
    <3> QED  BY <3>1, EmptySeq
  <2>2. asked[r] > 0 /\ asked' = [asked EXCEPT ![r] = 0]
    <3>1. asked[r] \in Nat /\ asked[r] # 0
      BY <1>2, <1>5
    <3>2. asked' = [asked EXCEPT ![r] = 0]
      BY <1>1, <1>5, Zenon
    <3> QED  BY <3>1, <3>2
  <2>3. (got[r] # <<>> \/ r \notin Blocking) /\ got' = got
    BY <1>1, <1>5
  <2> QED  BY <1>3, <2>1, <2>2, <2>3 DEF Abstract!GoesWithFewer, Struck, Keys
<1> QED  BY <1>4, <1>5

\* The other steps of readers.
LEMMA ReaderSimulates ==
    ASSUME IInv, NEW r \in Readers, GoesOn(r)
    PROVE  [Abstract!RingNext]_<<Struck, Keys, asked, got>>
<1>1. CASE CopyOne(r)
  BY <1>1, CopySimulates DEF Abstract!RingNext
<1>2. CASE Copied(r)
  BY <1>2, CopiedSimulates DEF Abstract!RingNext
<1>3. CASE Leave(r)
  <2>1. /\ UNCHANGED <<triggered, cpu, buffer, asked>> /\ got' = [got EXCEPT ![r] = <<>>]
        /\ asked[r] = 0 \/ got[r] = <<>>
        /\ asked \in [Readers -> Nat] /\ got \in [Readers -> Seq(Codes)]
    BY <1>3 DEF Leave, irqVars, ringVars, IInv, Asking, Types
  <2>2. CASE asked[r] = 0
    BY <2>1, <2>2 DEF Abstract!Returns, Abstract!RingNext, Struck, Keys
  <2>3. CASE got[r] = <<>>
    <3>1. got' = got
      BY <2>1, <2>3
    <3> QED  BY <2>1, <3>1 DEF Struck, Keys
  <2> QED  BY <2>1, <2>2, <2>3
<1>4. CASE Test(r) \/ Look(r) \/ Enter(r) \/ TurnOff(r) \/ UnsetReady(r) \/ TurnOn(r) \/ Notify(r)
  <2>1. UNCHANGED <<triggered, cpu, buffer, asked, got>>
    BY <1>4 DEF Test, Look, Enter, TurnOff, UnsetReady, TurnOn, Notify, irqVars, ringVars
  <2> QED  BY <2>1 DEF Struck, Keys
<1> QED  BY <1>1, <1>2, <1>3, <1>4 DEF GoesOn

\* Every step is one of KeyRing, or none.
LEMMA StepSimulation == IInv /\ [Next]_vars => [Abstract!RingNext]_<<Struck, Keys, asked, got>>
<1> SUFFICES ASSUME IInv, [Next]_vars
             PROVE  [Abstract!RingNext]_<<Struck, Keys, asked, got>>
  OBVIOUS
<1>1. CASE Trigger
  <2>1. triggered' /\ UNCHANGED <<cpu, buffer, asked, got>>
    BY <1>1 DEF Trigger, ringVars, readVars
  <2>2. CASE triggered
    BY <2>1, <2>2 DEF Struck, Keys
  <2>3. CASE ~triggered
    <3>1. cpu # "handled"
      BY <2>3 DEF IInv, Handling
    <3> QED  BY <2>1, <2>3, <3>1 DEF Abstract!RingNext, Abstract!Strikes, Struck, Keys
  <2> QED  BY <2>2, <2>3 DEF IInv, Types
<1>2. CASE Service \/ ServiceHeld
  BY <1>2, HandlerSimulates DEF Service, ServiceHeld, IInv, Handling, Abstract!RingNext
<1>3. CASE Clear
  <2>1. /\ cpu = "handled" /\ triggered /\ ~triggered' /\ UNCHANGED <<buffer, asked, got>>
    BY <1>3 DEF Clear, IInv, Handling, ringVars, readVars
  <2> QED  BY <2>1 DEF Abstract!RingNext, Abstract!IsOver, Struck, Keys
<1>4. CASE (\E c \in Codes : Press(c)) \/ TriggerNotifies \/ Hold \/ EnableAgain \/ Resume
             \/ Awaken \/ OtherInterrupt \/ UNCHANGED vars
  <2>1. UNCHANGED <<triggered, buffer, asked, got>> /\ (cpu = "handled" <=> cpu' = "handled")
    BY <1>4 DEF Press, TriggerNotifies, Hold, EnableAgain, Resume, Awaken, OtherInterrupt,
                vars, irqVars, ringVars, readVars
  <2> QED  BY <2>1 DEF Struck, Keys
<1>5. ASSUME NEW r \in Readers, NEW n \in 1 .. MaxAsked, Ask(r, n)
      PROVE  [Abstract!RingNext]_<<Struck, Keys, asked, got>>
  <2>1. /\ UNCHANGED <<triggered, cpu, buffer, got>> /\ asked' = [asked EXCEPT ![r] = n]
        /\ asked[r] = 0 /\ got[r] = <<>>
    BY <1>5 DEF Ask, irqVars, ringVars, IInv, Asking
  <2> QED  BY <2>1 DEF Abstract!RingNext, Abstract!Asks, Struck, Keys
<1> QED  BY <1>1, <1>2, <1>3, <1>4, <1>5, ReaderSimulates DEF Next, Host, Dispatcher

\* What the driver does is what KeyRing promises, but for its fairness: a code goes in
\* once, comes out once and in order, and only a read that does not block returns
\* without any.
THEOREM DriverIsKeyRing == Spec => Abstract!RingSafety
<1>1. Init => Abstract!RingInit
  <2> SUFFICES ASSUME Init PROVE Abstract!RingInit
    OBVIOUS
  <2>1. buffer \in Buffers /\ buffer.length = 0
    BY InitInvariant DEF Init, IInv, Types, Ring!EmptyRing
  <2>2. Keys = <<>>
    BY <2>1, ContentsIs, EmptySeq DEF Keys
  <2> QED  BY <2>2 DEF Init, Abstract!RingInit, Keys
<1>2. IInv /\ [Next]_vars => [Abstract!RingNext]_<<Struck, Keys, asked, got>>
  BY StepSimulation
<1> QED
  BY <1>1, <1>2, Invariance, PTL DEF Spec, Abstract!RingSafety, Abstract!vars, Struck, Keys

-------------------------------------------------------------------------------
(* What is done with a sequence item by item. *)

NatLess == {p \in Nat \X Nat : p[1] < p[2]}

\* A set of naturals that is not empty has a least element.
LEMMA LeastOf ==
    ASSUME NEW T \in SUBSET Nat, T # {}
    PROVE  \E m \in T : \A k \in T : m <= k
<1>1. IsWellFoundedOn(NatLess, Nat)
  BY NatLessThanWellFounded DEF OpToRel, NatLess
<1>2. PICK m \in T : \A k \in T : ~(<<k, m>> \in NatLess)
  BY <1>1, WFMin, Zenon
<1>3. ASSUME NEW k \in T, k < m PROVE FALSE
  <2>1. <<k, m>> \in NatLess
    BY <1>3 DEF NatLess
  <2> QED  BY <2>1, <1>2
<1>4. \A k \in T : m <= k
  BY <1>3
<1> QED  BY <1>4

\* What holds at 0, and one further wherever it holds, holds as far as n.
LEMMA StepByStep ==
    ASSUME NEW n \in Nat, NEW S, 0 \in S, \A k \in 0 .. n - 1 : k \in S => k + 1 \in S
    PROVE  0 .. n \subseteq S
<1> DEFINE T == {k \in 0 .. n : k \notin S}
<1> SUFFICES ASSUME T # {} PROVE FALSE
  OBVIOUS
<1>0. T \in SUBSET Nat /\ T # {}
  OBVIOUS
<1>1. PICK m \in T : \A k \in T : m <= k
  <2> HIDE DEF T
  <2> QED  BY <1>0, LeastOf
<1>2. m # 0 /\ m \in 1 .. n
  BY <1>1
<1>3. m - 1 \in 0 .. n - 1 /\ m - 1 \notin T /\ (m - 1) + 1 = m
  BY <1>1, <1>2
<1>4. m - 1 \in S
  BY <1>3
<1>5. m \in S
  BY <1>3, <1>4
<1> QED  BY <1>1, <1>5

\* f leads from x, item of s after item, by step.
Leads(f, x, step, s) ==
    \A n \in 0 .. Len(s) : f[n] = IF n = 0 THEN x ELSE step[<<f[n - 1], s[n]>>]

LEMMA LeadsExists ==
    ASSUME NEW X, NEW Y, NEW x \in X, NEW step \in [X \X Y -> X], NEW s \in Seq(Y)
    PROVE  \E f \in [0 .. Len(s) -> X] : Leads(f, x, step, s)
<1> DEFINE n == Len(s)
           S == {m \in 0 .. n : \E f \in [0 .. m -> X] :
                    \A k \in 0 .. m : f[k] = IF k = 0 THEN x ELSE step[<<f[k - 1], s[k]>>]}
<1>0. n \in Nat /\ \A k \in 1 .. n : s[k] \in Y
  OBVIOUS
<1>1. 0 \in S
  <2> DEFINE f == [k \in 0 .. 0 |-> x]
  <2>1. f \in [0 .. 0 -> X]
        /\ \A k \in 0 .. 0 : f[k] = IF k = 0 THEN x ELSE step[<<f[k - 1], s[k]>>]
    OBVIOUS
  <2>2. 0 \in 0 .. n
    BY <1>0
  <2> QED  BY <2>1, <2>2
<1>2. ASSUME NEW m \in 0 .. n - 1, m \in S PROVE m + 1 \in S
  <2>1. PICK f \in [0 .. m -> X] :
               \A k \in 0 .. m : f[k] = IF k = 0 THEN x ELSE step[<<f[k - 1], s[k]>>]
    BY <1>2
  <2> DEFINE v == step[<<f[m], s[m + 1]>>]
             t == [k \in 0 .. m + 1 |-> IF k = m + 1 THEN v ELSE f[k]]
  <2>2. v \in X
    <3>1. m + 1 \in 1 .. n /\ m \in 0 .. m
      BY <1>0
    <3>2. <<f[m], s[m + 1]>> \in X \X Y
      BY <1>0, <3>1
    <3> QED  BY <3>2
  <2> HIDE DEF v
  <2>3. t \in [0 .. m + 1 -> X]
    BY <2>2
  <2>4. ASSUME NEW k \in 0 .. m + 1 PROVE t[k] = IF k = 0 THEN x ELSE step[<<t[k - 1], s[k]>>]
    <3>1. CASE k = m + 1
      <4>1. t[k] = v /\ k # 0 /\ t[k - 1] = f[m]
        BY <3>1
      <4> HIDE DEF t
      <4> QED  BY <3>1, <4>1 DEF v
    <3>2. CASE k # m + 1
      <4>1. k \in 0 .. m /\ (k # 0 => k - 1 \in 0 .. m)
        BY <3>2
      <4>2. t[k] = f[k] /\ (k # 0 => t[k - 1] = f[k - 1])
        BY <4>1
      <4> HIDE DEF t
      <4> QED  BY <2>1, <4>1, <4>2
    <3> QED  BY <3>1, <3>2
  <2>5. m + 1 \in 0 .. n
    BY <1>0
  <2> HIDE DEF t
  <2>6. \E u \in [0 .. m + 1 -> X] :
            \A k \in 0 .. m + 1 : u[k] = IF k = 0 THEN x ELSE step[<<u[k - 1], s[k]>>]
    BY <2>3, <2>4
  <2> QED  BY <2>5, <2>6
<1> HIDE DEF S
<1>3. n \in S
  <2>1. \A k \in 0 .. n - 1 : k \in S => k + 1 \in S
    BY <1>2
  <2> HIDE DEF n
  <2>2. 0 .. n \subseteq S
    BY <1>0, <1>1, <2>1, StepByStep
  <2> QED  BY <1>0, <2>2
<1>4. \E f \in [0 .. n -> X] : \A k \in 0 .. n : f[k] = IF k = 0 THEN x ELSE step[<<f[k - 1], s[k]>>]
  BY <1>3 DEF S
<1> QED  BY <1>4 DEF Leads

\* There is one way only, and a longer sequence begins like a shorter one.
LEMMA LeadsAlike ==
    ASSUME NEW x, NEW step, NEW s, NEW t, NEW f, NEW g, Leads(f, x, step, s), Leads(g, x, step, t),
           NEW m \in Nat, m <= Len(s), m <= Len(t), Len(s) \in Nat, Len(t) \in Nat,
           \A k \in 1 .. m : s[k] = t[k]
    PROVE  \A k \in 0 .. m : f[k] = g[k]
<1> DEFINE S == {k \in 0 .. m : f[k] = g[k]}
<1>1. 0 \in S
  <2>1. 0 \in 0 .. Len(s) /\ 0 \in 0 .. Len(t) /\ 0 \in 0 .. m
    OBVIOUS
  <2> QED  BY <2>1 DEF Leads
<1>2. ASSUME NEW k \in 0 .. m - 1, k \in S PROVE k + 1 \in S
  <2>1. k + 1 \in 0 .. Len(s) /\ k + 1 \in 0 .. Len(t) /\ k + 1 # 0 /\ (k + 1) - 1 = k /\ k + 1 \in 1 .. m
    OBVIOUS
  <2>2. f[k + 1] = step[<<f[k], s[k + 1]>>] /\ g[k + 1] = step[<<g[k], t[k + 1]>>]
    BY <2>1 DEF Leads
  <2>3. f[k] = g[k] /\ s[k + 1] = t[k + 1]
    BY <1>2, <2>1
  <2> QED  BY <2>1, <2>2, <2>3
<1>3. 0 .. m \subseteq S
  <2> HIDE DEF S
  <2> QED  BY <1>1, <1>2, StepByStep
<1> QED  BY <1>3

\* What an item more makes of the value a sequence leads to.
LEMMA LeadsOn ==
    ASSUME NEW x, NEW step, NEW s, NEW t, NEW f, NEW g, Leads(f, x, step, s), Leads(g, x, step, t),
           NEW n \in Nat, Len(s) = n, Len(t) = n + 1, \A k \in 1 .. n : s[k] = t[k]
    PROVE  g[n + 1] = step[<<f[n], t[n + 1]>>]
<1>1. n <= Len(s) /\ n <= Len(t) /\ Len(s) \in Nat /\ Len(t) \in Nat /\ n \in 0 .. n
  OBVIOUS
<1>2. f[n] = g[n]
  BY <1>1, LeadsAlike
<1>3. n + 1 \in 0 .. Len(t) /\ n + 1 # 0 /\ (n + 1) - 1 = n
  OBVIOUS
<1> QED  BY <1>2, <1>3 DEF Leads

-------------------------------------------------------------------------------
(* Characters and their bytes. *)

\* The characters without the one of an escape.
Simple == Chars \ {"\\"}

LEMMA SimpleIs == " " \in Simple /\ \A c \in Simple : c \in Chars /\ c # NONE /\ c # "\\"
<1>1. " " # "\\"
  OBVIOUS
<1>2. " " \in Chars
  BY InputAssumption
<1>3. NONE \notin Chars
  BY BytesAssumption DEF Chars
<1> QED  BY <1>1, <1>2, <1>3 DEF Simple

Byte == Simple \X (1 .. 2)

LEMMA OneEncoded ==
    ASSUME NEW c \in Simple
    PROVE  /\ Encoded(c) \in Seq(Byte) /\ Len(Encoded(c)) = Bytes[c] /\ Bytes[c] \in 1 .. 2
           /\ \A k \in 1 .. Bytes[c] : Encoded(c)[k] = <<c, k>>
<1>1. Bytes[c] \in 1 .. 2
  BY BytesAssumption DEF Chars, Simple
<1> DEFINE n == Bytes[c]
<1>2. \A k \in 1 .. n : <<c, k>> \in Byte
  BY <1>1 DEF Byte
<1>3. Encoded(c) = [k \in 1 .. n |-> <<c, k>>]
  BY DEF Encoded
<1> HIDE DEF n
<1>4. n \in Nat
  BY <1>1 DEF n
<1>5. Encoded(c) \in Seq(Byte) /\ Len(Encoded(c)) = n /\ \A k \in 1 .. n : Encoded(c)[k] = <<c, k>>
  BY <1>2, <1>3, <1>4
<1> QED  BY <1>1, <1>5 DEF n

Encoding == [p \in Seq(Byte) \X Simple |-> p[1] \o Encoded(p[2])]

LEMMA EncodingIs ==
    /\ Encoding \in [Seq(Byte) \X Simple -> Seq(Byte)]
    /\ \A b \in Seq(Byte), c \in Simple : Encoding[<<b, c>>] = b \o Encoded(c)
<1>1. ASSUME NEW p \in Seq(Byte) \X Simple PROVE p[1] \o Encoded(p[2]) \in Seq(Byte)
  <2>1. p[1] \in Seq(Byte) /\ p[2] \in Simple
    OBVIOUS
  <2>2. Encoded(p[2]) \in Seq(Byte)
    BY <2>1, OneEncoded
  <2> QED  BY <2>1, <2>2
<1> QED  BY <1>1 DEF Encoding

LEMMA EncodedLeads ==
    ASSUME NEW s \in Seq(Simple)
    PROVE  \E f \in [0 .. Len(s) -> Seq(Byte)] :
              Leads(f, <<>>, Encoding, s) /\ EncodedText(s) = f[Len(s)]
<1> DEFINE ss == [k \in 1 .. Len(s) |-> Encoded(s[k])]
<1>0. PICK n : n = Len(s)
  OBVIOUS
<1>1. n \in Nat /\ \A k \in 1 .. n : s[k] \in Simple /\ Encoded(s[k]) \in Seq(Byte)
  BY <1>0, OneEncoded
<1>2. Len(ss) = n /\ (\A k \in 1 .. n : ss[k] = Encoded(s[k])) /\ (n = 0 => ss = <<>>)
  BY <1>0, <1>1
<1>3. EncodedText(s) = FlattenSeq(ss)
  BY DEF EncodedText
<1> HIDE DEF ss
<1>4. PICK f \in [0 .. n -> Seq(Byte)] : Leads(f, <<>>, Encoding, s)
  <2>1. <<>> \in Seq(Byte) /\ Encoding \in [Seq(Byte) \X Simple -> Seq(Byte)]
    BY EncodingIs
  <2>2. \E f \in [0 .. Len(s) -> Seq(Byte)] : Leads(f, <<>>, Encoding, s)
    BY <2>1, LeadsExists
  <2> QED  BY <1>0, <2>2
<1>5. f[0] = <<>> /\ \A k \in 1 .. n : f[k] = f[k - 1] \o ss[k] /\ f[k] \in Seq(Byte)
  <2>1. 0 \in 0 .. n
    BY <1>1
  <2>2. ASSUME NEW k \in 1 .. n PROVE f[k] = f[k - 1] \o ss[k] /\ f[k] \in Seq(Byte)
    <3>1. k \in 0 .. n /\ k # 0 /\ k - 1 \in 0 .. n
      BY <1>1
    <3>2. f[k] = Encoding[<<f[k - 1], s[k]>>]
      BY <1>0, <1>4, <3>1 DEF Leads
    <3>3. f[k - 1] \in Seq(Byte) /\ f[k] \in Seq(Byte) /\ s[k] \in Simple
      BY <1>1, <1>4, <3>1
    <3> QED  BY <1>2, <3>2, <3>3, EncodingIs
  <2> QED  BY <1>0, <1>4, <2>1, <2>2 DEF Leads
<1>6. CASE n = 0
  BY <1>0, <1>2, <1>3, <1>4, <1>5, <1>6 DEF FlattenSeq
<1>7. CASE n # 0
  <2> DEFINE F == CHOOSE g : g = [k \in 1 .. Len(ss) |-> IF k = 1 THEN ss[k] ELSE g[k - 1] \o ss[k]]
             S == {k \in 0 .. n - 1 : F[k + 1] = f[k + 1]}
             g == [k \in 1 .. n |-> f[k]]
  <2>0. f[1] = ss[1]
    <3>1. 1 \in 1 .. n /\ 1 - 1 = 0
      BY <1>1, <1>7
    <3>2. ss[1] \in Seq(Byte)
      BY <1>1, <1>2, <3>1
    <3>3. f[1] = <<>> \o ss[1]
      BY <1>5, <3>1
    <3> QED  BY <3>2, <3>3
  <2>1. g = [k \in 1 .. Len(ss) |-> IF k = 1 THEN ss[k] ELSE g[k - 1] \o ss[k]]
    <3>1. ASSUME NEW k \in 1 .. n PROVE f[k] = IF k = 1 THEN ss[k] ELSE g[k - 1] \o ss[k]
      <4>1. CASE k = 1
        BY <2>0, <4>1
      <4>2. CASE k # 1
        <5>1. k - 1 \in 1 .. n
          BY <1>1, <4>2
        <5>2. g[k - 1] = f[k - 1]
          BY <5>1
        <5> QED  BY <1>5, <4>2, <5>2
      <4> QED  BY <4>1, <4>2
    <3> QED  BY <1>2, <3>1
  <2>2. F = [k \in 1 .. Len(ss) |-> IF k = 1 THEN ss[k] ELSE F[k - 1] \o ss[k]]
    <3> HIDE DEF g
    <3> QED  BY <2>1
  <2>3. FlattenSeq(ss) = F[Len(ss)]
    BY <1>2, <1>7 DEF FlattenSeq
  <2> HIDE DEF F
  <2>4. \A k \in 1 .. n : F[k] = IF k = 1 THEN ss[k] ELSE F[k - 1] \o ss[k]
    BY <1>2, <2>2
  <2>5. 0 \in S
    <3>1. 1 \in 1 .. n /\ 0 + 1 = 1 /\ 0 \in 0 .. n - 1
      BY <1>1, <1>7
    <3> QED  BY <2>0, <2>4, <3>1
  <2>6. ASSUME NEW k \in 0 .. (n - 1) - 1, k \in S PROVE k + 1 \in S
    <3>1. (k + 1) + 1 \in 1 .. n /\ (k + 1) + 1 # 1 /\ ((k + 1) + 1) - 1 = k + 1 /\ k + 1 \in 0 .. n - 1
      BY <1>1
    <3>2. F[(k + 1) + 1] = F[k + 1] \o ss[(k + 1) + 1]
      BY <2>4, <3>1
    <3>3. f[(k + 1) + 1] = f[k + 1] \o ss[(k + 1) + 1]
      BY <1>5, <3>1
    <3> QED  BY <2>6, <3>1, <3>2, <3>3
  <2>7. n - 1 \in S
    <3> HIDE DEF S
    <3>1. n - 1 \in Nat /\ n - 1 \in 0 .. n - 1
      BY <1>1, <1>7
    <3>2. 0 .. n - 1 \subseteq S
      BY <2>5, <2>6, <3>1, StepByStep
    <3> QED  BY <3>1, <3>2
  <2>8. F[n] = f[n]
    <3>1. (n - 1) + 1 = n
      BY <1>1
    <3> QED  BY <2>7, <3>1
  <2> QED  BY <1>0, <1>2, <1>3, <1>4, <2>3, <2>8
<1> QED  BY <1>6, <1>7

LEMMA EncodedOn ==
    /\ EncodedText(<<>>) = <<>>
    /\ \A s \in Seq(Simple) : EncodedText(s) \in Seq(Byte)
    /\ \A s \in Seq(Simple), c \in Simple : EncodedText(Append(s, c)) = EncodedText(s) \o Encoded(c)
<1>1. EncodedText(<<>>) = <<>>
  <2>1. <<>> \in Seq(Simple) /\ Len(<<>>) = 0 /\ 0 \in 0 .. 0
    OBVIOUS
  <2>2. PICK f : Leads(f, <<>>, Encoding, <<>>) /\ EncodedText(<<>>) = f[Len(<<>>)]
    BY <2>1, EncodedLeads
  <2>3. f[0] = <<>>
    BY <2>1, <2>2 DEF Leads
  <2> QED  BY <2>1, <2>2, <2>3
<1>2. ASSUME NEW s \in Seq(Simple) PROVE EncodedText(s) \in Seq(Byte)
  <2>1. Len(s) \in 0 .. Len(s)
    OBVIOUS
  <2> QED  BY <2>1, EncodedLeads
<1>3. ASSUME NEW s \in Seq(Simple), NEW c \in Simple
      PROVE  EncodedText(Append(s, c)) = EncodedText(s) \o Encoded(c)
  <2>0. PICK t : t = Append(s, c)
    OBVIOUS
  <2>1. t \in Seq(Simple) /\ <<>> \in Seq(Byte)
    BY <2>0
  <2>2. PICK f : Leads(f, <<>>, Encoding, s) /\ EncodedText(s) = f[Len(s)]
    BY EncodedLeads
  <2>3. PICK g : Leads(g, <<>>, Encoding, t) /\ EncodedText(t) = g[Len(t)]
    BY <2>1, EncodedLeads
  <2>4. PICK n : n = Len(s)
    OBVIOUS
  <2>5. n \in Nat /\ Len(t) = n + 1 /\ t[n + 1] = c /\ \A k \in 1 .. n : s[k] = t[k]
    BY <2>0, <2>4
  <2>6. g[n + 1] = Encoding[<<f[n], t[n + 1]>>]
    BY <2>2, <2>3, <2>4, <2>5, LeadsOn
  <2>7. EncodedText(s) \in Seq(Byte)
    BY <1>2
  <2> QED  BY <2>0, <2>2, <2>3, <2>4, <2>5, <2>6, <2>7, EncodingIs
<1> QED  BY <1>1, <1>2, <1>3

\* What holds of the empty sequence, and of a sequence with one item more wherever it
\* holds of the sequence, holds of all.
LEMMA ItemByItem ==
    ASSUME NEW S, NEW T, <<>> \in T, \A t \in Seq(S), c \in S : t \in T => Append(t, c) \in T
    PROVE  Seq(S) \subseteq T
<1> SUFFICES ASSUME NEW u \in Seq(S) PROVE u \in T
  OBVIOUS
<1> DEFINE n == Len(u)
           P == {k \in 0 .. n : \A t \in Seq(S) : Len(t) = k => t \in T}
<1>1. n \in Nat
  OBVIOUS
<1>2. 0 \in P
  <2>1. \A t \in Seq(S) : Len(t) = 0 => t = <<>>
    OBVIOUS
  <2> QED  BY <1>1, <2>1
<1>3. ASSUME NEW k \in 0 .. n - 1, k \in P PROVE k + 1 \in P
  <2>1. ASSUME NEW t \in Seq(S), Len(t) = k + 1 PROVE t \in T
    <3> DEFINE f == SubSeq(t, 1, k)
    <3>1. k \in Nat
      BY <1>1
    <3>2. f \in Seq(S) /\ Len(f) = k /\ t[k + 1] \in S
      BY <2>1, <3>1
    <3>3. t = Append(f, t[k + 1])
      BY <2>1, <3>1
    <3>4. f \in T
      BY <1>3, <3>2
    <3> HIDE DEF f
    <3>5. Append(f, t[k + 1]) \in T
      BY <3>2, <3>4
    <3> QED  BY <3>3, <3>5
  <2>2. k + 1 \in 0 .. n
    BY <1>1
  <2> QED  BY <2>1, <2>2
<1>4. n \in P
  <2>1. \A k \in 0 .. n - 1 : k \in P => k + 1 \in P
    BY <1>3
  <2> HIDE DEF P, n
  <2>2. 0 .. n \subseteq P
    BY <1>1, <1>2, <2>1, StepByStep
  <2> QED  BY <1>1, <2>2
<1> QED  BY <1>4

LEMMA AppendIs ==
    ASSUME NEW S, NEW s \in Seq(S), NEW t \in Seq(S), NEW c \in S
    PROVE  /\ s \o Append(t, c) = Append(s \o t, c) /\ s \o <<>> = s /\ <<>> \o s = s
           /\ Append(s, c) = s \o <<c>> /\ Append(s, c) \in Seq(S) /\ s \o t \in Seq(S)
<1>1. s \o Append(t, c) = Append(s \o t, c)
  <2> DEFINE u == s \o Append(t, c)
             v == Append(s \o t, c)
  <2>1. Append(t, c) \in Seq(S) /\ Len(Append(t, c)) = Len(t) + 1
    OBVIOUS
  <2>2. u \in Seq(S) /\ Len(u) = Len(s) + Len(t) + 1 /\ v \in Seq(S) /\ Len(v) = Len(s) + Len(t) + 1
    BY <2>1
  <2>3. ASSUME NEW i \in 1 .. Len(u) PROVE u[i] = v[i]
    <3>0. i \in Nat /\ i >= 1 /\ i <= Len(s) + Len(t) + 1 /\ Len(s) \in Nat /\ Len(t) \in Nat
      BY <2>2
    <3>1. CASE i <= Len(s)
      BY <3>0, <3>1
    <3>2. CASE i > Len(s) /\ i <= Len(s) + Len(t)
      BY <3>0, <3>2
    <3>3. CASE i = Len(s) + Len(t) + 1
      BY <3>0, <3>3
    <3> QED  BY <3>0, <3>1, <3>2, <3>3
  <2> HIDE DEF u, v
  <2>4. u = v
    BY <2>2, <2>3, SeqEqual
  <2> QED  BY <2>4 DEF u, v
<1> QED  BY <1>1

LEMMA RegroupedBytes ==
    ASSUME NEW s \in Seq(Byte), NEW t \in Seq(Byte), NEW u \in Seq(Byte)
    PROVE  (s \o t) \o u = s \o (t \o u)
BY ConcatAssociative

LEMMA EncodedJoined ==
    ASSUME NEW s \in Seq(Simple), NEW t \in Seq(Simple)
    PROVE  EncodedText(s \o t) = EncodedText(s) \o EncodedText(t)
<1> DEFINE T == {u \in Seq(Simple) : EncodedText(s \o u) = EncodedText(s) \o EncodedText(u)}
<1>1. EncodedText(s) \in Seq(Byte)
  BY EncodedOn
<1>2. <<>> \in T
  <2>1. s \o <<>> = s /\ EncodedText(s) \o <<>> = EncodedText(s) /\ <<>> \in Seq(Simple)
    BY <1>1
  <2> QED  BY <2>1, EncodedOn
<1>3. ASSUME NEW u \in Seq(Simple), NEW c \in Simple, u \in T PROVE Append(u, c) \in T
  <2>1. s \o Append(u, c) = Append(s \o u, c) /\ s \o u \in Seq(Simple) /\ Append(u, c) \in Seq(Simple)
    BY AppendIs
  <2>2. EncodedText(u) \in Seq(Byte) /\ Encoded(c) \in Seq(Byte)
    BY EncodedOn, OneEncoded
  <2>3. EncodedText(Append(s \o u, c)) = EncodedText(s \o u) \o Encoded(c)
    BY <2>1, EncodedOn
  <2>4. EncodedText(Append(u, c)) = EncodedText(u) \o Encoded(c)
    BY EncodedOn
  <2>5. EncodedText(s \o u) = EncodedText(s) \o EncodedText(u)
    BY <1>3
  <2>6. (EncodedText(s) \o EncodedText(u)) \o Encoded(c) = EncodedText(s) \o (EncodedText(u) \o Encoded(c))
    BY <1>1, <2>2, RegroupedBytes
  <2>7. EncodedText(s \o Append(u, c)) = EncodedText(s) \o EncodedText(Append(u, c))
    BY <2>1, <2>3, <2>4, <2>5, <2>6
  <2> QED  BY <2>1, <2>7
<1>4. Seq(Simple) \subseteq T
  <2> HIDE DEF T
  <2> QED  BY <1>2, <1>3, ItemByItem
<1> QED  BY <1>4

LEMMA EncodedFirst ==
    ASSUME NEW s \in Seq(Simple), NEW c \in Simple
    PROVE  EncodedText(<<c>>) = Encoded(c) /\ EncodedText(<<c>> \o s) = Encoded(c) \o EncodedText(s)
<1>1. <<>> \in Seq(Simple) /\ Append(<<>>, c) = <<c>> /\ <<c>> \in Seq(Simple)
  OBVIOUS
<1>2. EncodedText(<<c>>) = <<>> \o Encoded(c)
  BY <1>1, EncodedOn
<1>3. EncodedText(<<c>>) = Encoded(c)
  BY <1>2, OneEncoded
<1> QED  BY <1>1, <1>3, EncodedJoined

\* What one byte more does to the characters that are complete.
Decoding == [p \in Seq(Simple) \X Byte |->
               IF p[2][2] = Bytes[p[2][1]] THEN Append(p[1], p[2][1]) ELSE p[1]]

LEMMA DecodingIs ==
    /\ Decoding \in [Seq(Simple) \X Byte -> Seq(Simple)]
    /\ \A s \in Seq(Simple), b \in Byte :
          Decoding[<<s, b>>] = IF b[2] = Bytes[b[1]] THEN Append(s, b[1]) ELSE s
<1>1. ASSUME NEW p \in Seq(Simple) \X Byte
      PROVE  (IF p[2][2] = Bytes[p[2][1]] THEN Append(p[1], p[2][1]) ELSE p[1]) \in Seq(Simple)
  <2>1. p[1] \in Seq(Simple) /\ p[2][1] \in Simple
    BY DEF Byte
  <2>2. Append(p[1], p[2][1]) \in Seq(Simple)
    BY <2>1, AppendProperties
  <2> QED  BY <2>1, <2>2
<1>2. ASSUME NEW s \in Seq(Simple), NEW b \in Byte
      PROVE  Decoding[<<s, b>>] = IF b[2] = Bytes[b[1]] THEN Append(s, b[1]) ELSE s
  <2>1. <<s, b>> \in Seq(Simple) \X Byte /\ <<s, b>>[1] = s /\ <<s, b>>[2] = b
    OBVIOUS
  <2> QED  BY <2>1 DEF Decoding
<1> QED  BY <1>1, <1>2 DEF Decoding

LEMMA CharactersLead ==
    ASSUME NEW b \in Seq(Byte)
    PROVE  \E f \in [0 .. Len(b) -> Seq(Simple)] :
              Leads(f, <<>>, Decoding, b) /\ Characters(b) = f[Len(b)]
<1> DEFINE D == CHOOSE f : f = [n \in 0 .. Len(b) |->
                   IF n = 0 THEN <<>>
                   ELSE IF b[n][2] = Bytes[b[n][1]] THEN Append(f[n - 1], b[n][1])
                   ELSE f[n - 1]]
<1>1. PICK f \in [0 .. Len(b) -> Seq(Simple)] : Leads(f, <<>>, Decoding, b)
  <2>1. <<>> \in Seq(Simple) /\ Decoding \in [Seq(Simple) \X Byte -> Seq(Simple)]
    BY DecodingIs
  <2> QED  BY <2>1, LeadsExists
<1>2. ASSUME NEW n \in 0 .. Len(b)
      PROVE  f[n] = IF n = 0 THEN <<>>
                    ELSE IF b[n][2] = Bytes[b[n][1]] THEN Append(f[n - 1], b[n][1])
                    ELSE f[n - 1]
  <2>1. CASE n = 0
    BY <1>1, <2>1 DEF Leads
  <2>2. CASE n # 0
    <3>1. n - 1 \in 0 .. Len(b) /\ n \in 1 .. Len(b)
      BY <2>2
    <3>2. f[n - 1] \in Seq(Simple) /\ b[n] \in Byte
      BY <1>1, <3>1
    <3>3. f[n] = Decoding[<<f[n - 1], b[n]>>]
      BY <1>1, <2>2 DEF Leads
    <3> QED  BY <2>2, <3>2, <3>3, DecodingIs
  <2> QED  BY <2>1, <2>2
<1>3. f = [n \in 0 .. Len(b) |->
             IF n = 0 THEN <<>>
             ELSE IF b[n][2] = Bytes[b[n][1]] THEN Append(f[n - 1], b[n][1])
             ELSE f[n - 1]]
  BY <1>1, <1>2
<1>4. D = [n \in 0 .. Len(b) |->
             IF n = 0 THEN <<>>
             ELSE IF b[n][2] = Bytes[b[n][1]] THEN Append(D[n - 1], b[n][1])
             ELSE D[n - 1]]
  BY <1>3
<1>5. Characters(b) = D[Len(b)]
  BY DEF Characters
<1> HIDE DEF D
<1> DEFINE S == {k \in 0 .. Len(b) : D[k] = f[k]}
<1>6. 0 \in S
  <2>1. 0 \in 0 .. Len(b)
    OBVIOUS
  <2> QED  BY <1>2, <1>4, <2>1
<1>7. ASSUME NEW k \in 0 .. Len(b) - 1, k \in S PROVE k + 1 \in S
  <2>1. k + 1 \in 0 .. Len(b) /\ k + 1 # 0 /\ (k + 1) - 1 = k
    OBVIOUS
  <2>2. D[k] = f[k]
    BY <1>7
  <2>3. f[k + 1] = IF b[k + 1][2] = Bytes[b[k + 1][1]] THEN Append(f[k], b[k + 1][1]) ELSE f[k]
    BY <1>2, <2>1
  <2>4. D[k + 1] = IF b[k + 1][2] = Bytes[b[k + 1][1]] THEN Append(D[k], b[k + 1][1]) ELSE D[k]
    BY <1>4, <2>1
  <2> QED  BY <2>1, <2>2, <2>3, <2>4
<1>8. 0 .. Len(b) \subseteq S
  <2>1. Len(b) \in Nat
    OBVIOUS
  <2> HIDE DEF S
  <2> QED  BY <1>6, <1>7, <2>1, StepByStep
<1>9. D[Len(b)] = f[Len(b)]
  BY <1>8
<1> QED  BY <1>1, <1>5, <1>9

LEMMA CharactersOn ==
    /\ Characters(<<>>) = <<>>
    /\ \A b \in Seq(Byte) : Characters(b) \in Seq(Simple)
    /\ \A b \in Seq(Byte), x \in Byte :
          Characters(Append(b, x)) = IF x[2] = Bytes[x[1]] THEN Append(Characters(b), x[1])
                                     ELSE Characters(b)
<1>1. Characters(<<>>) = <<>>
  <2>1. <<>> \in Seq(Byte) /\ Len(<<>>) = 0 /\ 0 \in 0 .. 0
    OBVIOUS
  <2>2. PICK f : Leads(f, <<>>, Decoding, <<>>) /\ Characters(<<>>) = f[Len(<<>>)]
    BY <2>1, CharactersLead
  <2>3. f[0] = <<>>
    BY <2>1, <2>2 DEF Leads
  <2> QED  BY <2>1, <2>2, <2>3
<1>2. ASSUME NEW b \in Seq(Byte) PROVE Characters(b) \in Seq(Simple)
  <2>1. Len(b) \in 0 .. Len(b)
    OBVIOUS
  <2> QED  BY <2>1, CharactersLead
<1>3. ASSUME NEW b \in Seq(Byte), NEW x \in Byte
      PROVE  Characters(Append(b, x)) = IF x[2] = Bytes[x[1]] THEN Append(Characters(b), x[1])
                                        ELSE Characters(b)
  <2>0. PICK t : t = Append(b, x)
    OBVIOUS
  <2>1. t \in Seq(Byte)
    BY <2>0
  <2>2. PICK f : Leads(f, <<>>, Decoding, b) /\ Characters(b) = f[Len(b)]
    BY CharactersLead
  <2>3. PICK g : Leads(g, <<>>, Decoding, t) /\ Characters(t) = g[Len(t)]
    BY <2>1, CharactersLead
  <2>4. PICK n : n = Len(b)
    OBVIOUS
  <2>5. n \in Nat /\ Len(t) = n + 1 /\ t[n + 1] = x /\ \A k \in 1 .. n : b[k] = t[k]
    BY <2>0, <2>4
  <2>6. g[n + 1] = Decoding[<<f[n], t[n + 1]>>]
    BY <2>2, <2>3, <2>4, <2>5, LeadsOn
  <2>7. Characters(b) \in Seq(Simple)
    BY <1>2
  <2> QED  BY <2>0, <2>2, <2>3, <2>4, <2>5, <2>6, <2>7, DecodingIs
<1> QED  BY <1>1, <1>2, <1>3

LEMMA DecodedOne ==
    ASSUME NEW b \in Seq(Byte), NEW c \in Simple
    PROVE  Characters(b \o Encoded(c)) = Append(Characters(b), c)
<1>0. /\ Encoded(c) \in Seq(Byte) /\ Len(Encoded(c)) = Bytes[c] /\ Bytes[c] \in 1 .. 2
      /\ \A k \in 1 .. Bytes[c] : Encoded(c)[k] = <<c, k>>
  BY OneEncoded
<1>1. CASE Bytes[c] = 1
  <2>1. Encoded(c) = <<<<c, 1>>>> /\ <<c, 1>> \in Byte
    BY <1>0, <1>1 DEF Byte
  <2>2. b \o Encoded(c) = Append(b, <<c, 1>>)
    BY <2>1
  <2>3. <<c, 1>>[1] = c /\ <<c, 1>>[2] = 1
    OBVIOUS
  <2> QED  BY <1>1, <2>1, <2>2, <2>3, CharactersOn
<1>2. CASE Bytes[c] = 2
  <2>1. Encoded(c) = <<<<c, 1>>, <<c, 2>>>> /\ <<c, 1>> \in Byte /\ <<c, 2>> \in Byte
    BY <1>0, <1>2 DEF Byte
  <2>2. b \o Encoded(c) = Append(Append(b, <<c, 1>>), <<c, 2>>) /\ Append(b, <<c, 1>>) \in Seq(Byte)
    <3> DEFINE x == <<c, 1>>
               y == <<c, 2>>
    <3>1. x \in Byte /\ y \in Byte /\ Encoded(c) = <<x, y>>
      BY <2>1
    <3> HIDE DEF x, y
    <3>2. <<x>> \in Seq(Byte) /\ <<x, y>> = Append(<<x>>, y) /\ b \o <<x>> = Append(b, x)
      BY <3>1
    <3>3. b \o Append(<<x>>, y) = Append(b \o <<x>>, y)
      BY <3>1, <3>2, AppendIs
    <3>4. b \o Encoded(c) = Append(Append(b, x), y) /\ Append(b, x) \in Seq(Byte)
      BY <3>1, <3>2, <3>3, AppendProperties
    <3> QED  BY <3>4 DEF x, y
  <2>3. <<c, 1>>[1] = c /\ <<c, 1>>[2] = 1 /\ <<c, 2>>[1] = c /\ <<c, 2>>[2] = 2
    OBVIOUS
  <2>4. Characters(Append(b, <<c, 1>>)) = Characters(b)
    BY <1>2, <2>1, <2>3, CharactersOn
  <2>5. Characters(Append(Append(b, <<c, 1>>), <<c, 2>>)) = Append(Characters(Append(b, <<c, 1>>)), c)
    BY <1>2, <2>1, <2>2, <2>3, CharactersOn
  <2> QED  BY <2>2, <2>4, <2>5
<1> QED  BY <1>0, <1>1, <1>2

\* What is decoded is what has been encoded.
LEMMA Decoded ==
    ASSUME NEW s \in Seq(Simple)
    PROVE  Characters(EncodedText(s)) = s
<1> DEFINE T == {u \in Seq(Simple) : Characters(EncodedText(u)) = u}
<1>1. <<>> \in T
  <2>1. <<>> \in Seq(Simple)
    OBVIOUS
  <2> QED  BY <2>1, EncodedOn, CharactersOn
<1>2. ASSUME NEW u \in Seq(Simple), NEW c \in Simple, u \in T PROVE Append(u, c) \in T
  <2>1. EncodedText(u) \in Seq(Byte) /\ EncodedText(Append(u, c)) = EncodedText(u) \o Encoded(c)
    BY EncodedOn
  <2>2. Characters(EncodedText(u) \o Encoded(c)) = Append(Characters(EncodedText(u)), c)
    BY <2>1, DecodedOne
  <2>3. Append(u, c) \in Seq(Simple)
    OBVIOUS
  <2> QED  BY <1>2, <2>1, <2>2, <2>3
<1>3. Seq(Simple) \subseteq T
  <2> HIDE DEF T
  <2> QED  BY <1>1, <1>2, ItemByItem
<1> QED  BY <1>3

-------------------------------------------------------------------------------
(* The context of the cursor. *)

Contexts == [string : BOOLEAN, algebraic : BOOLEAN, vector : BOOLEAN, prog : Int, dim : Int]

Ctx(s, a, v, p, d) == [string |-> s, algebraic |-> a, vector |-> v, prog |-> p, dim |-> d]

LEMMA ContextIs ==
    ASSUME NEW x \in Contexts
    PROVE  /\ x = Ctx(x.string, x.algebraic, x.vector, x.prog, x.dim)
           /\ x.string \in BOOLEAN /\ x.algebraic \in BOOLEAN /\ x.vector \in BOOLEAN
           /\ x.prog \in Int /\ x.dim \in Int
BY DEF Contexts, Ctx

LEMMA CtxIs ==
    ASSUME NEW s, NEW a, NEW v, NEW p, NEW d
    PROVE  /\ Ctx(s, a, v, p, d).string = s /\ Ctx(s, a, v, p, d).algebraic = a
           /\ Ctx(s, a, v, p, d).vector = v /\ Ctx(s, a, v, p, d).prog = p /\ Ctx(s, a, v, p, d).dim = d
           /\ Plain(Ctx(s, a, v, p, d)) <=> ~a /\ ~v
BY DEF Ctx, Plain

LEMMA CtxType ==
    ASSUME NEW s \in BOOLEAN, NEW a \in BOOLEAN, NEW v \in BOOLEAN, NEW p \in Int, NEW d \in Int
    PROVE  Ctx(s, a, v, p, d) \in Contexts
BY DEF Contexts, Ctx

InVector(v, d, by) == IF by = 1 /\ d = 1 THEN TRUE ELSE IF by = -1 /\ d = 0 THEN FALSE ELSE v

LEMMA DimensionIs ==
    ASSUME NEW x, NEW by
    PROVE  InDimension(x, by) = [x EXCEPT !.dim = x.dim + by, !.vector = InVector(x.vector, x.dim + by, by)]
BY DEF InDimension, InVector

LEMMA NestedIs ==
    ASSUME NEW s, NEW a, NEW v, NEW p, NEW d, NEW by
    PROVE  /\ Nested(Ctx(s, a, v, p, d), by) = Ctx(s, a, v, p + by, d)
           /\ InDimension(Ctx(s, a, v, p, d), by) = Ctx(s, a, InVector(v, d + by, by), p, d + by)
<1>1. Nested(Ctx(s, a, v, p, d), by) = Ctx(s, a, v, p + by, d)
  BY DEF Ctx, Nested
<1>2. PICK x : x = Ctx(s, a, v, p, d)
  OBVIOUS
<1>3. x.dim = d /\ x.vector = v
  BY <1>2, CtxIs
<1> DEFINE e == x.dim + by
           w == InVector(x.vector, x.dim + by, by)
<1>4. e = d + by /\ w = InVector(v, d + by, by)
  BY <1>3
<1>5. InDimension(x, by) = [x EXCEPT !.dim = e, !.vector = w]
  BY DimensionIs
<1> HIDE DEF e, w
<1>6. [x EXCEPT !.dim = e, !.vector = w] = [[x EXCEPT !.dim = e] EXCEPT !.vector = w]
  OBVIOUS
<1>7. [Ctx(s, a, v, p, d) EXCEPT !.dim = e] = Ctx(s, a, v, p, e)
  BY DEF Ctx
<1>8. [Ctx(s, a, v, p, e) EXCEPT !.vector = w] = Ctx(s, a, w, p, e)
  BY DEF Ctx
<1>9. InDimension(x, by) = Ctx(s, a, w, p, e)
  BY <1>2, <1>5, <1>6, <1>7, <1>8, Zenon
<1>10. InDimension(Ctx(s, a, v, p, d), by) = Ctx(s, a, InVector(v, d + by, by), p, d + by)
  BY <1>2, <1>4, <1>9, Zenon
<1> QED  BY <1>1, <1>10

LEMMA OtherIs ==
    ASSUME NEW s, NEW a, NEW v, NEW p, NEW d, NEW w
    PROVE  /\ [Ctx(s, a, v, p, d) EXCEPT !.string = w] = Ctx(w, a, v, p, d)
           /\ [Ctx(s, a, v, p, d) EXCEPT !.algebraic = w] = Ctx(s, w, v, p, d)
BY DEF Ctx

Flagged(x, w) == [x EXCEPT !.string = w]

LEMMA FlagIs ==
    ASSUME NEW s, NEW a, NEW v, NEW p, NEW d, NEW w
    PROVE  Flagged(Ctx(s, a, v, p, d), w) = Ctx(w, a, v, p, d)
BY OtherIs DEF Flagged

\* What a character does, one kind of character after the other.
Outcome(y, s, a, v, p, d, c, by) ==
    LET x == Ctx(s, a, v, p, d)
    IN  /\ s => y = IF c = "quote" THEN Ctx(FALSE, a, v, p, d) ELSE x
        /\ ~s /\ Opens(c) => y = IF ~a /\ ~v THEN Ctx(s, a, v, p + by, d) ELSE x
        /\ ~s /\ Closes(c) => y = IF ~a /\ ~v THEN Ctx(s, a, v, p + (-by), d) ELSE x
        /\ ~s /\ c = "[" => y = Ctx(s, a, InVector(v, d + by, by), p, d + by)
        /\ ~s /\ c = "]" => y = Ctx(s, a, InVector(v, d + (-by), -by), p, d + (-by))
        /\ ~s /\ c = "'" => y = IF ~v THEN Ctx(s, ~a, v, p, d) ELSE x
        /\ ~s /\ c = "quote" => y = IF ~a /\ ~v THEN Ctx(TRUE, a, v, p, d) ELSE x
        /\ ~s /\ ~Opens(c) /\ ~Closes(c) /\ c \notin {"[", "]", "'", "quote"} => y = x

LEMMA PassedOf ==
    ASSUME NEW s \in BOOLEAN, NEW a \in BOOLEAN, NEW v \in BOOLEAN, NEW p, NEW d, NEW c, NEW by
    PROVE  Outcome(Passed(Ctx(s, a, v, p, d), c, NONE, by), s, a, v, p, d, c, by)
<1> PICK x : x = Ctx(s, a, v, p, d)
  OBVIOUS
<1>0. x.string = s /\ x.algebraic = a /\ x.vector = v /\ (Plain(x) <=> ~a /\ ~v) /\ NONE # "\\"
  <2>1. /\ Ctx(s, a, v, p, d).string = s /\ Ctx(s, a, v, p, d).algebraic = a /\ Ctx(s, a, v, p, d).vector = v
        /\ Plain(Ctx(s, a, v, p, d)) <=> ~a /\ ~v
    BY CtxIs
  <2>2. NONE # "\\"
    BY InputAssumption
  <2> QED  BY <2>1, <2>2, Zenon
<1>1. s => Passed(x, c, NONE, by) = IF c = "quote" THEN [x EXCEPT !.string = FALSE] ELSE x
  BY <1>0 DEF Passed
<1>2. ~s /\ Opens(c) => Passed(x, c, NONE, by) = IF ~a /\ ~v THEN Nested(x, by) ELSE x
  BY <1>0 DEF Passed, Opens, Closes
<1>3. ~s /\ Closes(c) => Passed(x, c, NONE, by) = IF ~a /\ ~v THEN Nested(x, -by) ELSE x
  BY <1>0 DEF Passed, Opens, Closes
<1>4. ~s /\ c = "[" => Passed(x, c, NONE, by) = InDimension(x, by)
  BY <1>0 DEF Passed, Opens, Closes
<1>5. ~s /\ c = "]" => Passed(x, c, NONE, by) = InDimension(x, -by)
  BY <1>0 DEF Passed, Opens, Closes
<1>6. ~s /\ c = "'" => Passed(x, c, NONE, by) = IF ~v THEN [x EXCEPT !.algebraic = ~@] ELSE x
  BY <1>0 DEF Passed, Opens, Closes
<1>7. ~s /\ c = "quote" => Passed(x, c, NONE, by) = IF ~a /\ ~v THEN [x EXCEPT !.string = TRUE] ELSE x
  BY <1>0 DEF Passed, Opens, Closes
<1>8. ~s /\ ~Opens(c) /\ ~Closes(c) /\ c \notin {"[", "]", "'", "quote"} => Passed(x, c, NONE, by) = x
  BY <1>0 DEF Passed
<1>9. /\ Nested(x, by) = Ctx(s, a, v, p + by, d) /\ Nested(x, -by) = Ctx(s, a, v, p + (-by), d)
      /\ InDimension(x, by) = Ctx(s, a, InVector(v, d + by, by), p, d + by)
      /\ InDimension(x, -by) = Ctx(s, a, InVector(v, d + (-by), -by), p, d + (-by))
  BY NestedIs
<1>10. /\ [x EXCEPT !.string = FALSE] = Ctx(FALSE, a, v, p, d) /\ [x EXCEPT !.string = TRUE] = Ctx(TRUE, a, v, p, d)
  <2>1. Flagged(x, FALSE) = Ctx(FALSE, a, v, p, d) /\ Flagged(x, TRUE) = Ctx(TRUE, a, v, p, d)
    <3>1. PICK f \in BOOLEAN, t \in BOOLEAN : f = FALSE /\ t = TRUE
      OBVIOUS
    <3>2. Flagged(Ctx(s, a, v, p, d), f) = Ctx(f, a, v, p, d) /\ Flagged(Ctx(s, a, v, p, d), t) = Ctx(t, a, v, p, d)
      BY FlagIs
    <3> QED  BY <3>1, <3>2
  <2> QED  BY <2>1 DEF Flagged
<1>11. [x EXCEPT !.algebraic = ~@] = Ctx(s, ~a, v, p, d)
  <2>1. [x EXCEPT !.algebraic = ~@] = [x EXCEPT !.algebraic = ~x.algebraic]
    OBVIOUS
  <2>2. [Ctx(s, a, v, p, d) EXCEPT !.algebraic = ~a] = Ctx(s, ~a, v, p, d)
    BY DEF Ctx
  <2> QED  BY <1>0, <2>1, <2>2, Zenon
<1> QED  BY <1>1, <1>2, <1>3, <1>4, <1>5, <1>6, <1>7, <1>8, <1>9, <1>10, <1>11, Zenon DEF Outcome

LEMMA PassedIs ==
    ASSUME NEW x \in Contexts, NEW c \in Simple, NEW by \in {1, -1}
    PROVE  Passed(x, c, NONE, by) \in Contexts
<1>1. PICK s \in BOOLEAN, a \in BOOLEAN, v \in BOOLEAN, p \in Int, d \in Int : x = Ctx(s, a, v, p, d)
  BY ContextIs
<1>2. p + by \in Int /\ p + (-by) \in Int /\ d + by \in Int /\ d + (-by) \in Int
  OBVIOUS
<1>2a. InVector(v, d + by, by) \in BOOLEAN /\ InVector(v, d + (-by), -by) \in BOOLEAN
  BY Zenon DEF InVector
<1>3. /\ Ctx(FALSE, a, v, p, d) \in Contexts /\ Ctx(TRUE, a, v, p, d) \in Contexts
      /\ Ctx(s, a, v, p + by, d) \in Contexts /\ Ctx(s, a, v, p + (-by), d) \in Contexts
      /\ Ctx(s, ~a, v, p, d) \in Contexts
      /\ Ctx(s, a, InVector(v, d + by, by), p, d + by) \in Contexts
      /\ Ctx(s, a, InVector(v, d + (-by), -by), p, d + (-by)) \in Contexts
  BY <1>2, <1>2a, CtxType
<1> DEFINE y == Passed(x, c, NONE, by)
<1>a. Outcome(y, s, a, v, p, d, c, by)
  BY <1>1, PassedOf
<1>4. \/ y = x \/ y = Ctx(FALSE, a, v, p, d) \/ y = Ctx(TRUE, a, v, p, d)
      \/ y = Ctx(s, a, v, p + by, d) \/ y = Ctx(s, a, v, p + (-by), d) \/ y = Ctx(s, ~a, v, p, d)
      \/ y = Ctx(s, a, InVector(v, d + by, by), p, d + by)
      \/ y = Ctx(s, a, InVector(v, d + (-by), -by), p, d + (-by))
  <2> HIDE DEF y
  <2> QED  BY <1>1, <1>a DEF Outcome
<1> QED  BY <1>3, <1>4

\* The code looks back for a backslash, from behind a quotation mark that is typed and
\* from behind one the cursor moves over: it never finds another character there.
LEMMA NoPrior ==
    ASSUME NEW x, NEW c \in Simple, NEW p \in Simple \cup {NONE}, NEW by
    PROVE  Passed(x, c, p, by) = Passed(x, c, NONE, by)
<1>1. CASE c = "quote"
  <2>1. p # "\\" /\ NONE # "\\"
    BY InputAssumption DEF Simple
  <2> QED  BY <2>1 DEF Passed
<1>2. CASE c # "quote"
  BY <1>2 DEF Passed
<1> QED  BY <1>1, <1>2

Sound(x) == (x.string => Plain(x)) /\ (x.vector <=> x.dim > 0)

LEMMA SoundIs ==
    ASSUME NEW s, NEW a, NEW v, NEW p, NEW d
    PROVE  Sound(Ctx(s, a, v, p, d)) <=> (s => ~a /\ ~v) /\ (v <=> d > 0)
<1>1. /\ Ctx(s, a, v, p, d).string = s /\ Ctx(s, a, v, p, d).dim = d /\ Ctx(s, a, v, p, d).vector = v
      /\ Plain(Ctx(s, a, v, p, d)) <=> ~a /\ ~v
  BY CtxIs
<1> QED  BY <1>1, Zenon DEF Sound

\* Going back over a character undoes what going forward over it has done.
LEMMA Undone ==
    ASSUME NEW x \in Contexts, Sound(x), NEW c \in Simple
    PROVE  /\ Sound(UpdateForward(x, c, NONE))
           /\ UpdateBackward(UpdateForward(x, c, NONE), c, NONE) = x
<1>1. PICK s \in BOOLEAN, a \in BOOLEAN, v \in BOOLEAN, p \in Int, d \in Int : x = Ctx(s, a, v, p, d)
  BY ContextIs
<1>2. (s => ~a /\ ~v) /\ (v <=> d > 0)
  BY <1>1, SoundIs
<1> DEFINE Back(z) == Passed(z, c, NONE, -1)
           y == Passed(x, c, NONE, 1)
<1>3. SUFFICES Sound(y) /\ Back(y) = x
  BY DEF UpdateForward, UpdateBackward
<1>4. Outcome(y, s, a, v, p, d, c, 1)
  BY <1>1, PassedOf
<1>5. \A q, e : \A t \in BOOLEAN, b \in BOOLEAN, w \in BOOLEAN :
         Outcome(Back(Ctx(t, b, w, q, e)), t, b, w, q, e, c, -1)
  BY PassedOf
<1>6. -(-1) = 1 /\ p + 1 \in Int /\ p + (-1) \in Int /\ (p + 1) + (-1) = p /\ (p + (-1)) + 1 = p
      /\ d + 1 \in Int /\ d + (-1) \in Int /\ (d + 1) + (-1) = d /\ (d + (-1)) + 1 = d
  <2>1. -(-1) = 1
    <3>1. PICK i \in Int : i = 1
      OBVIOUS
    <3>2. -(-i) = i
      OBVIOUS
    <3> QED  BY <3>1, <3>2, Zenon
  <2>2. p + 1 \in Int /\ p + (-1) \in Int /\ (p + 1) + (-1) = p /\ (p + (-1)) + 1 = p
    OBVIOUS
  <2>3. d + 1 \in Int /\ d + (-1) \in Int /\ (d + 1) + (-1) = d /\ (d + (-1)) + 1 = d
    OBVIOUS
  <2> QED  BY <2>1, <2>2, <2>3
<1> HIDE DEF y, Back
<1>7. CASE s
  <2>1. CASE c = "quote"
    <3>1. y = Ctx(FALSE, a, v, p, d) /\ ~a /\ ~v
      BY <1>2, <1>4, <1>7, <2>1 DEF Outcome
    <3>2. Outcome(Back(y), FALSE, a, v, p, d, c, -1)
      BY <1>5, <3>1
    <3>3. Back(y) = Ctx(TRUE, a, v, p, d)
      BY <2>1, <3>1, <3>2 DEF Outcome
    <3>4. Sound(y)
      BY <1>2, <3>1, SoundIs
    <3> QED  BY <1>1, <1>7, <3>3, <3>4
  <2>2. CASE c # "quote"
    <3>1. y = x
      BY <1>1, <1>4, <1>7, <2>2 DEF Outcome
    <3>2. Outcome(Back(x), s, a, v, p, d, c, -1)
      BY <1>1, <1>5
    <3>3. Back(x) = x
      BY <1>1, <1>7, <2>2, <3>2 DEF Outcome
    <3> QED  BY <3>1, <3>3
  <2> QED  BY <2>1, <2>2
<1>8. CASE ~s
  <2>1. ASSUME Opens(c) \/ Closes(c), ~a, ~v PROVE Sound(y) /\ Back(y) = x
    <3>1. ASSUME NEW by \in {1, -1}, y = Ctx(s, a, v, p + by, d), Opens(c) \/ Closes(c),
                 Opens(c) => by = 1, Closes(c) => by = -1
          PROVE  Sound(y) /\ Back(y) = x
      <4>1. p + by \in Int /\ (p + by) + (-by) = p
        BY <3>1
      <4>2. Outcome(Back(y), s, a, v, p + by, d, c, -1)
        BY <1>5, <3>1, <4>1
      <4>3. Back(y) = Ctx(s, a, v, (p + by) + (-by), d)
        <5>1. CASE Opens(c)
          BY <1>8, <2>1, <3>1, <4>2, <5>1 DEF Outcome
        <5>2. CASE Closes(c)
          <6>1. by = -1 /\ -by = -(-1)
            BY <3>1, <5>2
          <6> QED  BY <1>8, <2>1, <3>1, <4>2, <5>2, <6>1 DEF Outcome
        <5> QED  BY <3>1, <5>1, <5>2
      <4>4. Sound(y)
        BY <1>2, <1>8, <2>1, <3>1, SoundIs
      <4> QED  BY <1>1, <4>1, <4>3, <4>4
    <3>2. CASE Opens(c)
      <4>1. y = Ctx(s, a, v, p + 1, d) /\ ~Closes(c)
        BY <1>4, <1>8, <2>1, <3>2 DEF Outcome, Opens, Closes
      <4> QED  BY <3>1, <3>2, <4>1
    <3>3. CASE Closes(c)
      <4>1. y = Ctx(s, a, v, p + (-1), d) /\ ~Opens(c)
        BY <1>4, <1>8, <2>1, <3>3 DEF Outcome, Opens, Closes
      <4> QED  BY <3>1, <3>3, <4>1
    <3> QED  BY <2>1, <3>2, <3>3
  <2>3. CASE c = "["
    <3> DEFINE w == InVector(v, d + 1, 1)
    <3>1. y = Ctx(s, a, w, p, d + 1)
      BY <1>4, <1>8, <2>3 DEF Outcome
    <3>2. w \in BOOLEAN /\ (w <=> d + 1 > 0) /\ InVector(w, d, -1) = v
      <4>1. CASE d = 0
        <5>1. d + 1 = 1 /\ d + 1 > 0 /\ v = FALSE
          BY <1>2, <4>1
        <5>2. w = TRUE
          BY <5>1, Zenon DEF InVector
        <5>3. -1 # 1
          OBVIOUS
        <5>4. InVector(w, d, -1) = FALSE
          BY <4>1, <5>3, Zenon DEF InVector
        <5> QED  BY <5>1, <5>2, <5>4
      <4>2. CASE d # 0
        <5>1. d + 1 # 1 /\ (d + 1 > 0 <=> d > 0)
          BY <4>2
        <5>2. w = v /\ InVector(w, d, -1) = w
          BY <4>2, <5>1 DEF InVector
        <5> QED  BY <1>2, <5>1, <5>2
      <4> QED  BY <4>1, <4>2
    <3> HIDE DEF w
    <3>3. Outcome(Back(y), s, a, w, p, d + 1, c, -1)
      BY <1>5, <3>1, <3>2
    <3>4. Back(y) = Ctx(s, a, InVector(w, (d + 1) + (-1), -1), p, (d + 1) + (-1))
      BY <1>8, <2>3, <3>3 DEF Outcome
    <3>5. Sound(y)
      BY <1>8, <3>1, <3>2, SoundIs
    <3> QED  BY <1>1, <1>6, <3>2, <3>4, <3>5
  <2>4. CASE c = "]"
    <3> DEFINE w == InVector(v, d + (-1), -1)
    <3>1. y = Ctx(s, a, w, p, d + (-1))
      BY <1>4, <1>8, <2>4 DEF Outcome
    <3>2. w \in BOOLEAN /\ (w <=> d + (-1) > 0) /\ InVector(w, d, 1) = v
      <4>1. CASE d = 1
        BY <1>2, <4>1 DEF InVector
      <4>2. CASE d # 1
        <5>1. d + (-1) # 0 /\ (d + (-1) > 0 <=> d > 0)
          BY <4>2
        <5>2. w = v /\ InVector(w, d, 1) = w
          BY <4>2, <5>1 DEF InVector
        <5> QED  BY <1>2, <5>1, <5>2
      <4> QED  BY <4>1, <4>2
    <3> HIDE DEF w
    <3>3. Outcome(Back(y), s, a, w, p, d + (-1), c, -1)
      BY <1>5, <3>1, <3>2
    <3>4. Back(y) = Ctx(s, a, InVector(w, (d + (-1)) + (-(-1)), -(-1)), p, (d + (-1)) + (-(-1)))
      BY <1>8, <2>4, <3>3 DEF Outcome
    <3>5. Sound(y)
      BY <1>8, <3>1, <3>2, SoundIs
    <3>6. Back(y) = Ctx(s, a, v, p, d)
      BY <1>6, <3>2, <3>4
    <3> QED  BY <1>1, <3>5, <3>6
  <2>5. CASE c = "'" /\ ~v
    <3>1. y = Ctx(s, ~a, v, p, d)
      BY <1>4, <1>8, <2>5 DEF Outcome
    <3>2. Outcome(Back(y), s, ~a, v, p, d, c, -1)
      BY <1>5, <3>1
    <3>3. Back(y) = Ctx(s, ~~a, v, p, d)
      BY <1>8, <2>5, <3>2 DEF Outcome
    <3>4. Sound(y)
      BY <1>2, <1>8, <3>1, SoundIs
    <3> QED  BY <1>1, <3>3, <3>4
  <2>6. CASE c = "quote" /\ ~a /\ ~v
    <3>1. y = Ctx(TRUE, a, v, p, d)
      BY <1>4, <1>8, <2>6 DEF Outcome
    <3>2. Outcome(Back(y), TRUE, a, v, p, d, c, -1)
      BY <1>5, <3>1
    <3>3. Back(y) = Ctx(FALSE, a, v, p, d)
      BY <2>6, <3>2 DEF Outcome
    <3>4. Sound(y)
      BY <1>2, <2>6, <3>1, SoundIs
    <3> QED  BY <1>1, <1>8, <3>3, <3>4
  <2>7. CASE ~((Opens(c) \/ Closes(c)) /\ ~a /\ ~v) /\ c # "[" /\ c # "]" /\ ~(c = "'" /\ ~v)
             /\ ~(c = "quote" /\ ~a /\ ~v)
    <3>1. y = x
      BY <1>1, <1>4, <1>8, <2>7 DEF Outcome
    <3>2. Outcome(Back(x), s, a, v, p, d, c, -1)
      BY <1>1, <1>5
    <3>3. Back(x) = x
      BY <1>1, <1>8, <2>7, <3>2 DEF Outcome
    <3> QED  BY <3>1, <3>3
  <2> QED  BY <2>1, <2>3, <2>4, <2>5, <2>6, <2>7
<1> QED  BY <1>7, <1>8

Passing == [p \in Contexts \X Simple |-> Passed(p[1], p[2], NONE, 1)]

LEMMA PassingIs ==
    /\ Passing \in [Contexts \X Simple -> Contexts]
    /\ \A x \in Contexts, c \in Simple : Passing[<<x, c>>] = Passed(x, c, NONE, 1)
<1>1. ASSUME NEW p \in Contexts \X Simple PROVE Passed(p[1], p[2], NONE, 1) \in Contexts
  <2>1. p[1] \in Contexts /\ p[2] \in Simple /\ 1 \in {1, -1}
    OBVIOUS
  <2> QED  BY <2>1, PassedIs
<1>2. ASSUME NEW x \in Contexts, NEW c \in Simple PROVE Passing[<<x, c>>] = Passed(x, c, NONE, 1)
  <2>1. <<x, c>> \in Contexts \X Simple /\ <<x, c>>[1] = x /\ <<x, c>>[2] = c
    OBVIOUS
  <2> QED  BY <2>1 DEF Passing
<1> QED  BY <1>1, <1>2 DEF Passing

LEMMA ScannedLeads ==
    ASSUME NEW x \in Contexts, NEW prior \in Simple \cup {NONE}, NEW s \in Seq(Simple)
    PROVE  \E f \in [0 .. Len(s) -> Contexts] :
              Leads(f, x, Passing, s) /\ Scanned(x, prior, s) = f[Len(s)]
<1> DEFINE Found(n) == IF n = 1 THEN prior ELSE s[n - 1]
           D == CHOOSE f : f = [n \in 0 .. Len(s) |->
                   IF n = 0 THEN x ELSE UpdateForward(f[n - 1], s[n], IF n = 1 THEN prior ELSE s[n - 1])]
<1>0. ASSUME NEW n \in 1 .. Len(s) PROVE Found(n) \in Simple \cup {NONE}
  <2>1. CASE n = 1
    BY <2>1
  <2>2. CASE n # 1
    <3>1. n - 1 \in 1 .. Len(s)
      BY <2>2
    <3> QED  BY <2>2, <3>1
  <2> QED  BY <2>1, <2>2
<1>1. PICK f \in [0 .. Len(s) -> Contexts] : Leads(f, x, Passing, s)
  BY PassingIs, LeadsExists
<1>2. ASSUME NEW n \in 0 .. Len(s)
      PROVE  f[n] = IF n = 0 THEN x
                    ELSE UpdateForward(f[n - 1], s[n], IF n = 1 THEN prior ELSE s[n - 1])
  <2>1. CASE n = 0
    BY <1>1, <2>1 DEF Leads
  <2>2. CASE n # 0
    <3>1. n - 1 \in 0 .. Len(s) /\ n \in 1 .. Len(s)
      BY <2>2
    <3>2. f[n - 1] \in Contexts /\ s[n] \in Simple
      BY <1>1, <3>1
    <3>3. f[n] = Passing[<<f[n - 1], s[n]>>]
      BY <1>1, <2>2 DEF Leads
    <3>4. Passed(f[n - 1], s[n], Found(n), 1) = Passed(f[n - 1], s[n], NONE, 1)
      <4>1. Found(n) \in Simple \cup {NONE}
        BY <1>0, <3>1
      <4> HIDE DEF Found
      <4> QED  BY <3>2, <4>1, NoPrior
    <3>5. f[n] = Passed(f[n - 1], s[n], Found(n), 1)
      BY <3>2, <3>3, <3>4, PassingIs
    <3> QED  BY <2>2, <3>5 DEF UpdateForward
  <2> QED  BY <2>1, <2>2
<1>3. f = [n \in 0 .. Len(s) |->
             IF n = 0 THEN x ELSE UpdateForward(f[n - 1], s[n], IF n = 1 THEN prior ELSE s[n - 1])]
  BY <1>1, <1>2
<1>4. D = [n \in 0 .. Len(s) |->
             IF n = 0 THEN x ELSE UpdateForward(D[n - 1], s[n], IF n = 1 THEN prior ELSE s[n - 1])]
  BY <1>3
<1>5. Scanned(x, prior, s) = D[Len(s)]
  BY DEF Scanned
<1> HIDE DEF D
<1> DEFINE S == {k \in 0 .. Len(s) : D[k] = f[k]}
<1>6. 0 \in S
  <2>1. 0 \in 0 .. Len(s)
    OBVIOUS
  <2> QED  BY <1>2, <1>4, <2>1
<1>7. ASSUME NEW k \in 0 .. Len(s) - 1, k \in S PROVE k + 1 \in S
  <2>1. k + 1 \in 0 .. Len(s) /\ k + 1 # 0 /\ (k + 1) - 1 = k
    OBVIOUS
  <2>2. D[k] = f[k]
    BY <1>7
  <2>3. f[k + 1] = UpdateForward(f[k], s[k + 1], IF k + 1 = 1 THEN prior ELSE s[k])
    BY <1>2, <2>1
  <2>4. D[k + 1] = UpdateForward(D[k], s[k + 1], IF k + 1 = 1 THEN prior ELSE s[k])
    BY <1>4, <2>1
  <2> QED  BY <2>1, <2>2, <2>3, <2>4
<1>8. 0 .. Len(s) \subseteq S
  <2>1. Len(s) \in Nat
    OBVIOUS
  <2> HIDE DEF S
  <2> QED  BY <1>6, <1>7, <2>1, StepByStep
<1>9. D[Len(s)] = f[Len(s)]
  BY <1>8
<1> QED  BY <1>1, <1>5, <1>9

LEMMA ScannedOn ==
    ASSUME NEW x \in Contexts, NEW prior \in Simple \cup {NONE}
    PROVE  /\ Scanned(x, prior, <<>>) = x
           /\ \A s \in Seq(Simple) : Scanned(x, prior, s) \in Contexts
           /\ \A s \in Seq(Simple), c \in Simple :
                 Scanned(x, prior, Append(s, c)) = UpdateForward(Scanned(x, prior, s), c, NONE)
<1>1. Scanned(x, prior, <<>>) = x
  <2>1. <<>> \in Seq(Simple) /\ Len(<<>>) = 0 /\ 0 \in 0 .. 0
    OBVIOUS
  <2>2. PICK f : Leads(f, x, Passing, <<>>) /\ Scanned(x, prior, <<>>) = f[Len(<<>>)]
    BY <2>1, ScannedLeads
  <2>3. f[0] = x
    BY <2>1, <2>2 DEF Leads
  <2> QED  BY <2>1, <2>2, <2>3
<1>2. ASSUME NEW s \in Seq(Simple) PROVE Scanned(x, prior, s) \in Contexts
  <2>1. Len(s) \in 0 .. Len(s)
    OBVIOUS
  <2>2. PICK f \in [0 .. Len(s) -> Contexts] : Leads(f, x, Passing, s) /\ Scanned(x, prior, s) = f[Len(s)]
    BY ScannedLeads
  <2> QED  BY <2>1, <2>2
<1>3. ASSUME NEW s \in Seq(Simple), NEW c \in Simple
      PROVE  Scanned(x, prior, Append(s, c)) = UpdateForward(Scanned(x, prior, s), c, NONE)
  <2>0. PICK t : t = Append(s, c)
    OBVIOUS
  <2>1. t \in Seq(Simple)
    BY <2>0
  <2>2. PICK f : Leads(f, x, Passing, s) /\ Scanned(x, prior, s) = f[Len(s)]
    BY ScannedLeads
  <2>3. PICK g : Leads(g, x, Passing, t) /\ Scanned(x, prior, t) = g[Len(t)]
    BY <2>1, ScannedLeads
  <2>4. PICK n : n = Len(s)
    OBVIOUS
  <2>5. n \in Nat /\ Len(t) = n + 1 /\ t[n + 1] = c /\ \A k \in 1 .. n : s[k] = t[k]
    BY <2>0, <2>4
  <2>6. g[n + 1] = Passing[<<f[n], t[n + 1]>>]
    BY <2>2, <2>3, <2>4, <2>5, LeadsOn
  <2>7. Scanned(x, prior, s) \in Contexts
    BY <1>2
  <2>8. Passing[<<f[n], c>>] = UpdateForward(f[n], c, NONE)
    BY <2>2, <2>4, <2>7, PassingIs DEF UpdateForward
  <2> QED  BY <2>0, <2>2, <2>3, <2>4, <2>5, <2>6, <2>8
<1> QED  BY <1>1, <1>2, <1>3

LEMMA ScannedJoined ==
    ASSUME NEW x \in Contexts, NEW p \in Simple \cup {NONE}, NEW q \in Simple \cup {NONE},
           NEW s \in Seq(Simple), NEW t \in Seq(Simple)
    PROVE  Scanned(x, p, s \o t) = Scanned(Scanned(x, p, s), q, t)
<1> DEFINE y == Scanned(x, p, s)
           T == {u \in Seq(Simple) : Scanned(x, p, s \o u) = Scanned(y, q, u)}
<1>0. y \in Contexts
  BY ScannedOn
<1>1. <<>> \in T
  <2>1. <<>> \in Seq(Simple) /\ s \o <<>> = s
    OBVIOUS
  <2>2. Scanned(y, q, <<>>) = y
    <3> HIDE DEF y
    <3> QED  BY <1>0, ScannedOn
  <2> QED  BY <2>1, <2>2
<1>2. ASSUME NEW u \in Seq(Simple), NEW c \in Simple, u \in T PROVE Append(u, c) \in T
  <2>1. s \o Append(u, c) = Append(s \o u, c) /\ s \o u \in Seq(Simple) /\ Append(u, c) \in Seq(Simple)
    BY AppendIs
  <2>2. Scanned(x, p, Append(s \o u, c)) = UpdateForward(Scanned(x, p, s \o u), c, NONE)
    BY <2>1, ScannedOn
  <2>3. Scanned(y, q, Append(u, c)) = UpdateForward(Scanned(y, q, u), c, NONE)
    <3> HIDE DEF y
    <3> QED  BY <1>0, ScannedOn
  <2>4. Scanned(x, p, s \o u) = Scanned(y, q, u)
    BY <1>2
  <2> HIDE DEF y
  <2>5. Scanned(x, p, s \o Append(u, c)) = Scanned(y, q, Append(u, c))
    BY <2>1, <2>2, <2>3, <2>4
  <2> QED  BY <2>1, <2>5
<1>3. Seq(Simple) \subseteq T
  <2> HIDE DEF T
  <2> QED  BY <1>1, <1>2, ItemByItem
<1> QED  BY <1>3

LEMMA NoContextIs == NoContext \in Contexts /\ Sound(NoContext)
BY DEF NoContext, Contexts, Sound, Plain

\* A text leaves the context such that going back over a character of it undoes it.
LEMMA ScannedSound ==
    ASSUME NEW s \in Seq(Simple)
    PROVE  Scanned(NoContext, NONE, s) \in Contexts /\ Sound(Scanned(NoContext, NONE, s))
<1> DEFINE T == {u \in Seq(Simple) : Sound(Scanned(NoContext, NONE, u))}
<1>0. NONE \in Simple \cup {NONE}
  OBVIOUS
<1>1. <<>> \in T
  <2>1. <<>> \in Seq(Simple)
    OBVIOUS
  <2>2. Scanned(NoContext, NONE, <<>>) = NoContext
    BY <1>0, NoContextIs, ScannedOn
  <2> QED  BY <2>1, <2>2, NoContextIs
<1>2. ASSUME NEW u \in Seq(Simple), NEW c \in Simple, u \in T PROVE Append(u, c) \in T
  <2>1. Append(u, c) \in Seq(Simple)
    OBVIOUS
  <2>2. /\ Scanned(NoContext, NONE, Append(u, c)) = UpdateForward(Scanned(NoContext, NONE, u), c, NONE)
        /\ Scanned(NoContext, NONE, u) \in Contexts
    BY <1>0, NoContextIs, ScannedOn
  <2>3. Sound(Scanned(NoContext, NONE, u))
    BY <1>2
  <2>4. Sound(UpdateForward(Scanned(NoContext, NONE, u), c, NONE))
    BY <2>2, <2>3, Undone
  <2> QED  BY <2>1, <2>2, <2>4
<1>3. Seq(Simple) \subseteq T
  <2> HIDE DEF T
  <2> QED  BY <1>1, <1>2, ItemByItem
<1> QED  BY <1>0, <1>3, NoContextIs, ScannedOn

-------------------------------------------------------------------------------
(* The gap, byte by byte. *)

Gap(c, b, n, l) == [chars |-> c, gapBuf |-> b, gapPos |-> n, gapLen |-> l]

LEMMA GapIs ==
    ASSUME NEW c, NEW b, NEW n, NEW l
    PROVE  /\ Gap(c, b, n, l).chars = c /\ Gap(c, b, n, l).gapBuf = b
           /\ Gap(c, b, n, l).gapPos = n /\ Gap(c, b, n, l).gapLen = l
BY DEF Gap

LEMMA RightByteIs ==
    ASSUME NEW c, NEW b \in Int, NEW n \in Int, NEW l \in Int, NEW to \in Int, to = b * BufferSize + InBuf(n)
    PROVE  RightByte(Gap(c, b, n, l))
             = Gap(Write(Write(c, to, c[to + l + 1]), to + l, NONE),
                   IF InBuf(n) = BufferSize - 1 THEN b + 1 ELSE b, n + 1, l)
<1>1. PICK g : g = Gap(c, b, n, l)
  OBVIOUS
<1>2. g.chars = c /\ g.gapBuf = b /\ g.gapPos = n /\ g.gapLen = l
  BY <1>1, GapIs
<1> DEFINE x == Write(Write(g.chars, g.gapBuf * BufferSize + InBuf(g.gapPos), NextByte(g)),
                      g.gapBuf * BufferSize + InBuf(g.gapPos) + g.gapLen, NONE)
           y == g.gapPos + 1
           z == IF InBuf(g.gapPos) = BufferSize - 1 THEN g.gapBuf + 1 ELSE g.gapBuf
<1>3. RightByte(g) = [[[g EXCEPT !.chars = x] EXCEPT !.gapPos = y] EXCEPT !.gapBuf = z]
  BY DEF RightByte
<1>4. /\ x = Write(Write(c, to, c[to + l + 1]), to + l, NONE) /\ y = n + 1
      /\ z = IF InBuf(n) = BufferSize - 1 THEN b + 1 ELSE b
  <2>0. InBuf(g.gapPos) = InBuf(n) /\ g.gapBuf * BufferSize + InBuf(g.gapPos) = to
    BY <1>2, Zenon
  <2>1. NextByte(g) = g.chars[(g.gapBuf * BufferSize + InBuf(g.gapPos)) + g.gapLen + 1]
    BY Zenon DEF NextByte
  <2>2. NextByte(g) = c[to + l + 1]
    BY <1>2, <2>0, <2>1, Zenon
  <2> QED  BY <1>2, <2>0, <2>2, Zenon
<1> HIDE DEF x, y, z
<1>5. /\ [Gap(c, b, n, l) EXCEPT !.chars = x] = Gap(x, b, n, l)
      /\ [Gap(x, b, n, l) EXCEPT !.gapPos = y] = Gap(x, b, y, l)
      /\ [Gap(x, b, y, l) EXCEPT !.gapBuf = z] = Gap(x, z, y, l)
  BY DEF Gap
<1>6. Gap(x, z, y, l) = [[[g EXCEPT !.chars = x] EXCEPT !.gapPos = y] EXCEPT !.gapBuf = z]
  BY <1>1, <1>5, Zenon
<1> QED  BY <1>1, <1>3, <1>4, <1>6

LEMMA LeftByteIs ==
    ASSUME NEW c, NEW b \in Int, NEW n \in Int, NEW l \in Int, NEW from \in Int, NEW d \in Int, d = (IF StartsBuf(n) THEN b - 1 ELSE b),
           from = d * BufferSize + InBuf(n - 1)
    PROVE  LeftByte(Gap(c, b, n, l)) = Gap(Write(Write(c, from + l, c[from + 1]), from, NONE), d, n - 1, l)
<1>1. PICK g : g = Gap(c, b, n, l)
  OBVIOUS
<1>2. g.chars = c /\ g.gapBuf = b /\ g.gapPos = n /\ g.gapLen = l
  BY <1>1, GapIs
<1> DEFINE x == Write(Write(g.chars, ByteBefore(g) + g.gapLen, g.chars[ByteBefore(g) + 1]), ByteBefore(g), NONE)
           y == g.gapPos - 1
           z == BufBefore(g)
<1>3. LeftByte(g) = [[[g EXCEPT !.chars = x] EXCEPT !.gapPos = y] EXCEPT !.gapBuf = z]
  BY DEF LeftByte
<1>4. x = Write(Write(c, from + l, c[from + 1]), from, NONE) /\ y = n - 1 /\ z = d
  <2>1. BufBefore(g) = d
    BY <1>2, Zenon DEF BufBefore
  <2>3. ByteBefore(g) = BufBefore(g) * BufferSize + InBuf(g.gapPos - 1)
    BY DEF ByteBefore
  <2>2. ByteBefore(g) = from
    BY <1>2, <2>1, <2>3, Zenon
  <2> QED  BY <1>2, <2>1, <2>2, Zenon
<1> HIDE DEF x, y, z
<1>5. /\ [Gap(c, b, n, l) EXCEPT !.chars = x] = Gap(x, b, n, l)
      /\ [Gap(x, b, n, l) EXCEPT !.gapPos = y] = Gap(x, b, y, l)
      /\ [Gap(x, b, y, l) EXCEPT !.gapBuf = z] = Gap(x, z, y, l)
  BY DEF Gap
<1>6. Gap(x, z, y, l) = [[[g EXCEPT !.chars = x] EXCEPT !.gapPos = y] EXCEPT !.gapBuf = z]
  BY <1>1, <1>5, Zenon
<1> QED  BY <1>1, <1>3, <1>4, <1>6

LEMMA EraseRightByteIs ==
    ASSUME NEW c, NEW b, NEW n, NEW l
    PROVE  EraseRightByte(Gap(c, b, n, l)) = Gap(Write(c, n + l, NONE), b, n, l + 1)
<1>1. PICK g : g = Gap(c, b, n, l)
  OBVIOUS
<1>2. g.chars = c /\ g.gapBuf = b /\ g.gapPos = n /\ g.gapLen = l
  BY <1>1, GapIs
<1> DEFINE x == Write(g.chars, g.gapPos + g.gapLen, NONE)
           y == g.gapLen + 1
<1>3. EraseRightByte(g) = [[g EXCEPT !.chars = x] EXCEPT !.gapLen = y]
  BY DEF EraseRightByte
<1>4. x = Write(c, n + l, NONE) /\ y = l + 1
  BY <1>2
<1> HIDE DEF x, y
<1>5. /\ [Gap(c, b, n, l) EXCEPT !.chars = x] = Gap(x, b, n, l)
      /\ [Gap(x, b, n, l) EXCEPT !.gapLen = y] = Gap(x, b, n, y)
  BY DEF Gap
<1> QED  BY <1>1, <1>3, <1>4, <1>5, Zenon

LEMMA EraseLeftByteIs ==
    ASSUME NEW c, NEW b \in Int, NEW n \in Int, NEW l \in Int, NEW from \in Int, NEW d \in Int, d = (IF StartsBuf(n) THEN b - 1 ELSE b),
           from = d * BufferSize + InBuf(n - 1)
    PROVE  EraseLeftByte(Gap(c, b, n, l)) = Gap(Write(c, from, NONE), d, n - 1, l + 1)
<1>1. PICK g : g = Gap(c, b, n, l)
  OBVIOUS
<1>2. g.chars = c /\ g.gapBuf = b /\ g.gapPos = n /\ g.gapLen = l
  BY <1>1, GapIs
<1> DEFINE x == Write(g.chars, ByteBefore(g), NONE)
           y == g.gapPos - 1
           w == g.gapLen + 1
           z == BufBefore(g)
<1>3. EraseLeftByte(g) = [[[[g EXCEPT !.chars = x] EXCEPT !.gapPos = y] EXCEPT !.gapLen = w] EXCEPT !.gapBuf = z]
  BY DEF EraseLeftByte
<1>4. x = Write(c, from, NONE) /\ y = n - 1 /\ z = d /\ w = l + 1
  <2>1. BufBefore(g) = d
    BY <1>2, Zenon DEF BufBefore
  <2>3. ByteBefore(g) = BufBefore(g) * BufferSize + InBuf(g.gapPos - 1)
    BY DEF ByteBefore
  <2>2. ByteBefore(g) = from
    BY <1>2, <2>1, <2>3, Zenon
  <2> QED  BY <1>2, <2>1, <2>2, Zenon
<1> HIDE DEF x, y, z, w
<1>5. /\ [Gap(c, b, n, l) EXCEPT !.chars = x] = Gap(x, b, n, l)
      /\ [Gap(x, b, n, l) EXCEPT !.gapPos = y] = Gap(x, b, y, l)
      /\ [Gap(x, b, y, l) EXCEPT !.gapLen = w] = Gap(x, b, y, w)
      /\ [Gap(x, b, y, w) EXCEPT !.gapBuf = z] = Gap(x, z, y, w)
  BY DEF Gap
<1>6. Gap(x, z, y, w) = [[[[g EXCEPT !.chars = x] EXCEPT !.gapPos = y] EXCEPT !.gapLen = w] EXCEPT !.gapBuf = z]
  BY <1>1, <1>5, Zenon
<1> QED  BY <1>1, <1>3, <1>4, <1>6

\* A position is that of a buffer and a place in it, in one way only.
LEMMA SplitAt ==
    ASSUME NEW n \in Int, NEW q \in Int, NEW r \in 0 .. BufferSize - 1, n = q * BufferSize + r
    PROVE  InBuf(n) = r /\ n \div BufferSize = q /\ (StartsBuf(n) <=> r = 0)
<1> DEFINE d == n \div BufferSize
           m == n % BufferSize
<1>1. BufferSize \in Nat /\ BufferSize > 0
  BY BufferAssumption
<1>2. d \in Int /\ m \in 0 .. BufferSize - 1 /\ n = BufferSize * d + m
  BY <1>1
<1> HIDE DEF d, m
<1>3. ASSUME d <= q - 1 PROVE FALSE
  <2>1. BufferSize * d <= BufferSize * (q - 1)
    BY <1>1, <1>2, <1>3
  <2>2. BufferSize * (q - 1) = q * BufferSize - BufferSize
    BY <1>1
  <2> QED  BY <1>1, <1>2, <2>1, <2>2
<1>4. ASSUME q <= d - 1 PROVE FALSE
  <2>1. BufferSize * q <= BufferSize * (d - 1)
    BY <1>1, <1>2, <1>4
  <2>2. BufferSize * (d - 1) = BufferSize * d - BufferSize
    BY <1>1, <1>2
  <2> QED  BY <1>1, <1>2, <2>1, <2>2
<1>5. d = q
  BY <1>2, <1>3, <1>4
<1>6. m = r
  BY <1>1, <1>2, <1>5
<1> QED  BY <1>5, <1>6 DEF d, m, InBuf, StartsBuf

Cell == Byte \cup {NONE}

LEMMA WriteIs ==
    ASSUME NEW c \in Seq(Cell), NEW p \in 0 .. Len(c) - 1, NEW x \in Cell
    PROVE  /\ Write(c, p, x) \in Seq(Cell) /\ Len(Write(c, p, x)) = Len(c)
           /\ \A k \in 1 .. Len(c) : Write(c, p, x)[k] = IF k = p + 1 THEN x ELSE c[k]
<1>1. p + 1 \in 1 .. Len(c)
  OBVIOUS
<1> QED  BY <1>1 DEF Write

LEMMA RestIs ==
    ASSUME NEW S, NEW s \in Seq(S), NEW m \in 0 .. Len(s)
    PROVE  /\ SubSeq(s, m + 1, Len(s)) \in Seq(S) /\ Len(SubSeq(s, m + 1, Len(s))) = Len(s) - m
           /\ \A k \in 1 .. Len(s) - m : SubSeq(s, m + 1, Len(s))[k] = s[m + k]
<1>1. SubSeq(s, m + 1, Len(s)) = [k \in 1 .. Len(s) - m |-> s[m + k]]
  <2>1. SubSeq(s, m + 1, Len(s)) = [k \in 1 .. ((1 + Len(s)) - (m + 1)) |-> s[(m + 1) + k - 1]]
    OBVIOUS
  <2>2. (1 + Len(s)) - (m + 1) = Len(s) - m /\ \A k \in Int : (m + 1) + k - 1 = m + k
    OBVIOUS
  <2> QED  BY <2>1, <2>2
<1>2. \A k \in 1 .. Len(s) - m : s[m + k] \in S
  OBVIOUS
<1>3. Len(s) - m \in Nat
  OBVIOUS
<1> QED  BY <1>1, <1>2, <1>3

LEMMA ByteIsCell == \A t \in Seq(Byte) : t \in Seq(Cell)
<1> SUFFICES ASSUME NEW t \in Seq(Byte) PROVE t \in Seq(Cell)
  OBVIOUS
<1>1. t \in [1 .. Len(t) -> Byte] /\ Len(t) \in Nat
  OBVIOUS
<1>2. t \in [1 .. Len(t) -> Cell]
  BY <1>1 DEF Cell
<1> QED  BY <1>1, <1>2

\* The bytes t in the cells c, but for a gap of l cells behind the first n of them.
Laid(c, l, t, n) ==
    /\ c \in Seq(Cell) /\ l \in Nat \ {0} /\ t \in Seq(Byte) /\ n \in 0 .. Len(t)
    /\ Len(c) = Len(t) + l
    /\ \A k \in 1 .. n : c[k] = t[k]
    /\ \A k \in n + 1 .. Len(t) : c[k + l] = t[k]

\* The gap starts in buffer b.
InPlace(b, n) == b \in Int /\ b * BufferSize + InBuf(n) = n

Holds(g, t, n) == \E c, b, l : g = Gap(c, b, n, l) /\ Laid(c, l, t, n) /\ InPlace(b, n)

LEMMA InBufIs ==
    ASSUME NEW n \in Int
    PROVE  InBuf(n) \in 0 .. BufferSize - 1 /\ BufferSize \in Nat \ {0}
BY BufferAssumption DEF InBuf

LEMMA PlaceAfter ==
    ASSUME NEW n \in Int, NEW b, InPlace(b, n)
    PROVE  InPlace(IF InBuf(n) = BufferSize - 1 THEN b + 1 ELSE b, n + 1)
<1> DEFINE r == InBuf(n)
<1>1. r \in 0 .. BufferSize - 1 /\ BufferSize \in Nat \ {0} /\ b \in Int /\ n = b * BufferSize + r
  BY InBufIs DEF InPlace
<1> HIDE DEF r
<1>2. CASE r = BufferSize - 1
  <2>1. n + 1 = (b + 1) * BufferSize + 0 /\ 0 \in 0 .. BufferSize - 1 /\ b + 1 \in Int
    BY <1>1, <1>2
  <2>2. InBuf(n + 1) = 0
    BY <2>1, SplitAt
  <2>3. InPlace(b + 1, n + 1)
    BY <2>1, <2>2 DEF InPlace
  <2> QED  BY <1>2, <2>3 DEF r
<1>3. CASE r # BufferSize - 1
  <2>1. n + 1 = b * BufferSize + (r + 1) /\ r + 1 \in 0 .. BufferSize - 1
    BY <1>1, <1>3
  <2>2. InBuf(n + 1) = r + 1
    BY <1>1, <2>1, SplitAt
  <2>3. InPlace(b, n + 1)
    BY <1>1, <2>1, <2>2 DEF InPlace
  <2> QED  BY <1>3, <2>3 DEF r
<1> QED  BY <1>2, <1>3

LEMMA PlaceBefore ==
    ASSUME NEW n \in Int, NEW b, InPlace(b, n)
    PROVE  InPlace(IF StartsBuf(n) THEN b - 1 ELSE b, n - 1)
           /\ (InBuf(n - 1) = BufferSize - 1 <=> StartsBuf(n))
<1> DEFINE r == InBuf(n)
<1>1. r \in 0 .. BufferSize - 1 /\ BufferSize \in Nat \ {0} /\ b \in Int /\ n = b * BufferSize + r
  BY InBufIs DEF InPlace
<1>0. StartsBuf(n) <=> r = 0
  BY DEF StartsBuf, InBuf
<1> HIDE DEF r
<1>2. CASE r = 0
  <2>1. n - 1 = (b - 1) * BufferSize + (BufferSize - 1) /\ BufferSize - 1 \in 0 .. BufferSize - 1 /\ b - 1 \in Int
    BY <1>1, <1>2
  <2>2. InBuf(n - 1) = BufferSize - 1
    BY <2>1, SplitAt
  <2>3. InPlace(b - 1, n - 1)
    BY <2>1, <2>2 DEF InPlace
  <2> QED  BY <1>0, <1>2, <2>2, <2>3
<1>3. CASE r # 0
  <2>1. n - 1 = b * BufferSize + (r - 1) /\ r - 1 \in 0 .. BufferSize - 1
    BY <1>1, <1>3
  <2>2. InBuf(n - 1) = r - 1
    BY <1>1, <2>1, SplitAt
  <2>3. InPlace(b, n - 1)
    BY <1>1, <2>1, <2>2 DEF InPlace
  <2> QED  BY <1>0, <1>1, <1>3, <2>2, <2>3
<1> QED  BY <1>2, <1>3

\* The text is what is left and right of the gap.
LEMMA ReadIs ==
    ASSUME NEW g, NEW t, NEW n, Holds(g, t, n)
    PROVE  /\ t \in Seq(Byte) /\ n \in 0 .. Len(t)
           /\ SubSeq(g.chars, 1, g.gapPos) = SubSeq(t, 1, n)
           /\ SubSeq(g.chars, g.gapPos + g.gapLen + 1, Len(g.chars)) = SubSeq(t, n + 1, Len(t))
           /\ AtEnd(g) <=> n = Len(t)
           /\ AtStart(g) <=> n = 0
<1>1. PICK c, b, l : g = Gap(c, b, n, l) /\ Laid(c, l, t, n) /\ InPlace(b, n)
  BY DEF Holds
<1>2. g.chars = c /\ g.gapBuf = b /\ g.gapPos = n /\ g.gapLen = l
  BY <1>1, GapIs
<1>3. /\ c \in Seq(Cell) /\ l \in Nat \ {0} /\ t \in Seq(Byte) /\ n \in 0 .. Len(t)
      /\ Len(c) = Len(t) + l
      /\ \A k \in 1 .. n : c[k] = t[k]
      /\ \A k \in n + 1 .. Len(t) : c[k + l] = t[k]
  BY <1>1 DEF Laid
<1>4. SubSeq(c, 1, n) = SubSeq(t, 1, n)
  <2>1. SubSeq(c, 1, n) = [k \in 1 .. n |-> c[k]] /\ SubSeq(t, 1, n) = [k \in 1 .. n |-> t[k]]
    BY <1>3
  <2> QED  BY <1>3, <2>1
<1>5. SubSeq(c, n + l + 1, Len(c)) = SubSeq(t, n + 1, Len(t))
  <2> DEFINE u == SubSeq(c, n + l + 1, Len(c))
             v == SubSeq(t, n + 1, Len(t))
  <2>1. /\ u \in Seq(Cell) /\ v \in Seq(Byte) /\ Len(u) = Len(t) - n /\ Len(v) = Len(t) - n
        /\ \A k \in 1 .. Len(t) - n : u[k] = c[n + l + k] /\ v[k] = t[n + k]
    <3>1. n + l \in 0 .. Len(c) /\ Len(c) - (n + l) = Len(t) - n
      BY <1>3
    <3>2. u \in Seq(Cell) /\ Len(u) = Len(c) - (n + l) /\ \A k \in 1 .. Len(c) - (n + l) : u[k] = c[(n + l) + k]
      BY <1>3, <3>1, RestIs
    <3>3. v \in Seq(Byte) /\ Len(v) = Len(t) - n /\ \A k \in 1 .. Len(t) - n : v[k] = t[n + k]
      BY <1>3, RestIs
    <3> QED  BY <3>1, <3>2, <3>3
  <2>2. ASSUME NEW k \in 1 .. Len(t) - n PROVE u[k] = v[k]
    <3>1. n + k \in n + 1 .. Len(t) /\ (n + k) + l = n + l + k
      BY <1>3
    <3> QED  BY <1>3, <2>1, <3>1
  <2>3. v \in Seq(Cell)
    BY <2>1, ByteIsCell
  <2> HIDE DEF u, v
  <2>4. u = v
    BY <2>1, <2>2, <2>3, SeqEqual
  <2> QED  BY <2>4 DEF u, v
<1>6. (AtEnd(g) <=> n = Len(t)) /\ (AtStart(g) <=> n = 0)
  BY <1>2, <1>3 DEF AtEnd, AtStart, GetLength
<1> QED  BY <1>2, <1>3, <1>4, <1>5, <1>6

LEMMA NextIs ==
    ASSUME NEW g, NEW t, NEW n, Holds(g, t, n), n < Len(t)
    PROVE  NextByte(g) = t[n + 1]
<1>1. PICK c, b, l : g = Gap(c, b, n, l) /\ Laid(c, l, t, n) /\ InPlace(b, n)
  BY DEF Holds
<1>2. g.chars = c /\ g.gapBuf = b /\ g.gapPos = n /\ g.gapLen = l
  BY <1>1, GapIs
<1>3. g.gapBuf * BufferSize + InBuf(g.gapPos) = n
  BY <1>1, <1>2, Zenon DEF InPlace
<1>4. NextByte(g) = g.chars[(g.gapBuf * BufferSize + InBuf(g.gapPos)) + g.gapLen + 1]
  BY Zenon DEF NextByte
<1>5. NextByte(g) = c[n + l + 1]
  BY <1>2, <1>3, <1>4, Zenon
<1>6. n + 1 \in n + 1 .. Len(t) /\ (n + 1) + l = n + l + 1
  BY <1>1 DEF Laid
<1> QED  BY <1>1, <1>5, <1>6 DEF Laid

LEMMA BeforeIs ==
    ASSUME NEW g, NEW t, NEW n, Holds(g, t, n), n > 0
    PROVE  ByteBefore(g) = n - 1 /\ g.chars[ByteBefore(g) + 1] = t[n]
<1>1. PICK c, b, l : g = Gap(c, b, n, l) /\ Laid(c, l, t, n) /\ InPlace(b, n)
  BY DEF Holds
<1>2. g.chars = c /\ g.gapBuf = b /\ g.gapPos = n /\ g.gapLen = l
  BY <1>1, GapIs
<1>3. n \in Int /\ n \in 1 .. n /\ n \in 1 .. Len(t) /\ (n - 1) + 1 = n
  BY <1>1 DEF Laid
<1>4. InPlace(IF StartsBuf(n) THEN b - 1 ELSE b, n - 1)
  BY <1>1, <1>3, PlaceBefore
<1>5. BufBefore(g) = IF StartsBuf(n) THEN b - 1 ELSE b
  BY <1>2, Zenon DEF BufBefore
<1>6. ByteBefore(g) = BufBefore(g) * BufferSize + InBuf(n - 1)
  BY <1>2, Zenon DEF ByteBefore
<1>7. ByteBefore(g) = n - 1
  BY <1>4, <1>5, <1>6, Zenon DEF InPlace
<1>8. c[n] = t[n]
  BY <1>1, <1>3 DEF Laid
<1> QED  BY <1>2, <1>3, <1>7, <1>8, Zenon

LEMMA RightByteHolds ==
    ASSUME NEW g, NEW t, NEW n, Holds(g, t, n), n < Len(t)
    PROVE  Holds(RightByte(g), t, n + 1)
<1>1. PICK c, b, l : g = Gap(c, b, n, l) /\ Laid(c, l, t, n) /\ InPlace(b, n)
  BY DEF Holds
<1>2. /\ c \in Seq(Cell) /\ l \in Nat \ {0} /\ t \in Seq(Byte) /\ n \in 0 .. Len(t)
      /\ Len(c) = Len(t) + l
      /\ \A k \in 1 .. n : c[k] = t[k]
      /\ \A k \in n + 1 .. Len(t) : c[k + l] = t[k]
      /\ b \in Int /\ n = b * BufferSize + InBuf(n) /\ n \in Int /\ l \in Int
  BY <1>1 DEF Laid, InPlace
<1> DEFINE x == c[n + l + 1]
           c1 == Write(c, n, x)
           c2 == Write(c1, n + l, NONE)
           d == IF InBuf(n) = BufferSize - 1 THEN b + 1 ELSE b
<1>3. RightByte(g) = Gap(c2, d, n + 1, l)
  BY <1>1, <1>2, RightByteIs
<1>4. x \in Cell /\ x = t[n + 1] /\ NONE \in Cell
  <2>1. n + l + 1 \in 1 .. Len(c) /\ n + 1 \in n + 1 .. Len(t) /\ (n + 1) + l = n + l + 1
    BY <1>2
  <2> QED  BY <1>2, <2>1 DEF Cell
<1>5. InPlace(d, n + 1)
  BY <1>1, <1>2, PlaceAfter
<1> HIDE DEF x, d
<1>6. c1 \in Seq(Cell) /\ Len(c1) = Len(c) /\ \A k \in 1 .. Len(c) : c1[k] = IF k = n + 1 THEN x ELSE c[k]
  <2>1. n \in 0 .. Len(c) - 1
    BY <1>2
  <2> QED  BY <1>2, <1>4, <2>1, WriteIs
<1> HIDE DEF c1
<1>7. c2 \in Seq(Cell) /\ Len(c2) = Len(c) /\ \A k \in 1 .. Len(c) : c2[k] = IF k = n + l + 1 THEN NONE ELSE c1[k]
  <2>1. n + l \in 0 .. Len(c1) - 1
    BY <1>2, <1>6
  <2>2. PICK p \in 0 .. Len(c1) - 1 : p = n + l
    BY <2>1
  <2>3. Write(c1, p, NONE) \in Seq(Cell) /\ Len(Write(c1, p, NONE)) = Len(c1) /\ \A k \in 1 .. Len(c1) : Write(c1, p, NONE)[k] = IF k = p + 1 THEN NONE ELSE c1[k]
    BY <1>4, <1>6, WriteIs
  <2>4. p + 1 = n + l + 1
    BY <2>2
  <2> QED  BY <1>6, <2>2, <2>3, <2>4
<1> HIDE DEF c2
<1>8. Laid(c2, l, t, n + 1)
  <2>1. ASSUME NEW k \in 1 .. n + 1 PROVE c2[k] = t[k]
    <3>1. k \in 1 .. Len(c) /\ k # n + l + 1 /\ (k # n + 1 => k \in 1 .. n)
      BY <1>2
    <3> QED  BY <1>2, <1>4, <1>6, <1>7, <3>1
  <2>2. ASSUME NEW k \in (n + 1) + 1 .. Len(t) PROVE c2[k + l] = t[k]
    <3>1. k + l \in 1 .. Len(c) /\ k + l # n + l + 1 /\ k + l # n + 1 /\ k \in n + 1 .. Len(t)
      BY <1>2
    <3> QED  BY <1>2, <1>6, <1>7, <3>1
  <2>3. n + 1 \in 0 .. Len(t)
    BY <1>2
  <2> QED  BY <1>2, <1>7, <2>1, <2>2, <2>3 DEF Laid
<1> QED  BY <1>3, <1>5, <1>8 DEF Holds

LEMMA LeftByteHolds ==
    ASSUME NEW g, NEW t, NEW n, Holds(g, t, n), n > 0
    PROVE  Holds(LeftByte(g), t, n - 1)
<1>1. PICK c, b, l : g = Gap(c, b, n, l) /\ Laid(c, l, t, n) /\ InPlace(b, n)
  BY DEF Holds
<1>2. /\ c \in Seq(Cell) /\ l \in Nat \ {0} /\ t \in Seq(Byte) /\ n \in 0 .. Len(t)
      /\ Len(c) = Len(t) + l
      /\ \A k \in 1 .. n : c[k] = t[k]
      /\ \A k \in n + 1 .. Len(t) : c[k + l] = t[k]
      /\ b \in Int /\ n \in Int /\ l \in Int /\ n - 1 \in Int
  BY <1>1 DEF Laid, InPlace
<1> DEFINE d == IF StartsBuf(n) THEN b - 1 ELSE b
<1>3. InPlace(d, n - 1)
  BY <1>1, <1>2, PlaceBefore
<1>4. d \in Int /\ n - 1 = d * BufferSize + InBuf(n - 1)
  BY <1>3 DEF InPlace
<1> DEFINE x == c[(n - 1) + 1]
           c1 == Write(c, (n - 1) + l, x)
           c2 == Write(c1, n - 1, NONE)
<1>5. LeftByte(g) = Gap(c2, d, n - 1, l)
  <2>1. d = IF StartsBuf(n) THEN b - 1 ELSE b
    OBVIOUS
  <2> HIDE DEF d
  <2> QED  BY <1>1, <1>2, <1>4, <2>1, LeftByteIs
<1>6. x \in Cell /\ x = t[n] /\ NONE \in Cell
  <2>1. n \in 1 .. n /\ n \in 1 .. Len(c) /\ (n - 1) + 1 = n
    BY <1>2
  <2> QED  BY <1>2, <2>1 DEF Cell
<1> HIDE DEF x, d
<1>7. c1 \in Seq(Cell) /\ Len(c1) = Len(c) /\ \A k \in 1 .. Len(c) : c1[k] = IF k = n + l THEN x ELSE c[k]
  <2>1. (n - 1) + l \in 0 .. Len(c) - 1 /\ ((n - 1) + l) + 1 = n + l
    BY <1>2
  <2>2. PICK p \in 0 .. Len(c) - 1 : p = (n - 1) + l
    BY <2>1
  <2>3. Write(c, p, x) \in Seq(Cell) /\ Len(Write(c, p, x)) = Len(c) /\ \A k \in 1 .. Len(c) : Write(c, p, x)[k] = IF k = p + 1 THEN x ELSE c[k]
    BY <1>2, <1>6, WriteIs
  <2>4. p + 1 = n + l
    BY <2>1, <2>2
  <2> QED  BY <2>2, <2>3, <2>4
<1> HIDE DEF c1
<1>8. c2 \in Seq(Cell) /\ Len(c2) = Len(c) /\ \A k \in 1 .. Len(c) : c2[k] = IF k = n THEN NONE ELSE c1[k]
  <2>1. n - 1 \in 0 .. Len(c1) - 1 /\ (n - 1) + 1 = n
    BY <1>2, <1>7
  <2>2. PICK p \in 0 .. Len(c1) - 1 : p = n - 1
    BY <2>1
  <2>3. Write(c1, p, NONE) \in Seq(Cell) /\ Len(Write(c1, p, NONE)) = Len(c1) /\ \A k \in 1 .. Len(c1) : Write(c1, p, NONE)[k] = IF k = p + 1 THEN NONE ELSE c1[k]
    BY <1>6, <1>7, WriteIs
  <2>4. p + 1 = n
    BY <2>1, <2>2
  <2> QED  BY <1>7, <2>2, <2>3, <2>4
<1> HIDE DEF c2
<1>9. Laid(c2, l, t, n - 1)
  <2>1. ASSUME NEW k \in 1 .. n - 1 PROVE c2[k] = t[k]
    <3>1. k \in 1 .. Len(c) /\ k # n /\ k # n + l /\ k \in 1 .. n
      BY <1>2
    <3> QED  BY <1>2, <1>7, <1>8, <3>1
  <2>2. ASSUME NEW k \in (n - 1) + 1 .. Len(t) PROVE c2[k + l] = t[k]
    <3>1. k + l \in 1 .. Len(c) /\ k + l # n /\ (k = n \/ (k + l # n + l /\ k \in n + 1 .. Len(t)))
      BY <1>2
    <3> QED  BY <1>2, <1>6, <1>7, <1>8, <3>1
  <2>3. n - 1 \in 0 .. Len(t)
    BY <1>2
  <2> QED  BY <1>2, <1>8, <2>1, <2>2, <2>3 DEF Laid
<1> QED  BY <1>3, <1>5, <1>9 DEF Holds

\* Without the k-th of the bytes.
Without(t, k) == [j \in 1 .. Len(t) - 1 |-> IF j < k THEN t[j] ELSE t[j + 1]]

LEMMA WithoutIs ==
    ASSUME NEW t \in Seq(Byte), NEW k \in 1 .. Len(t)
    PROVE  /\ Without(t, k) \in Seq(Byte) /\ Len(Without(t, k)) = Len(t) - 1
           /\ \A j \in 1 .. Len(t) - 1 : Without(t, k)[j] = IF j < k THEN t[j] ELSE t[j + 1]
<1>1. \A j \in 1 .. Len(t) - 1 : (IF j < k THEN t[j] ELSE t[j + 1]) \in Byte
  OBVIOUS
<1>2. Len(t) - 1 \in Nat
  OBVIOUS
<1> QED  BY <1>1, <1>2 DEF Without

LEMMA EraseRightByteHolds ==
    ASSUME NEW g, NEW t, NEW n, Holds(g, t, n), n < Len(t)
    PROVE  Holds(EraseRightByte(g), Without(t, n + 1), n)
<1>1. PICK c, b, l : g = Gap(c, b, n, l) /\ Laid(c, l, t, n) /\ InPlace(b, n)
  BY DEF Holds
<1>2. /\ c \in Seq(Cell) /\ l \in Nat \ {0} /\ t \in Seq(Byte) /\ n \in 0 .. Len(t)
      /\ Len(c) = Len(t) + l
      /\ \A k \in 1 .. n : c[k] = t[k]
      /\ \A k \in n + 1 .. Len(t) : c[k + l] = t[k]
  BY <1>1 DEF Laid
<1> DEFINE c1 == Write(c, n + l, NONE)
           u == Without(t, n + 1)
<1>3. EraseRightByte(g) = Gap(c1, b, n, l + 1)
  BY <1>1, EraseRightByteIs
<1>4. c1 \in Seq(Cell) /\ Len(c1) = Len(c) /\ \A k \in 1 .. Len(c) : c1[k] = IF k = n + l + 1 THEN NONE ELSE c[k]
  <2>1. n + l \in 0 .. Len(c) - 1 /\ NONE \in Cell
    BY <1>2 DEF Cell
  <2> QED  BY <1>2, <2>1, WriteIs
<1>5. u \in Seq(Byte) /\ Len(u) = Len(t) - 1 /\ \A j \in 1 .. Len(t) - 1 : u[j] = IF j < n + 1 THEN t[j] ELSE t[j + 1]
  <2>1. n + 1 \in 1 .. Len(t)
    BY <1>2
  <2> QED  BY <1>2, <2>1, WithoutIs
<1> HIDE DEF c1, u
<1>6. Laid(c1, l + 1, u, n)
  <2>1. ASSUME NEW k \in 1 .. n PROVE c1[k] = u[k]
    <3>1. k \in 1 .. Len(c) /\ k # n + l + 1 /\ k \in 1 .. Len(t) - 1 /\ k < n + 1
      BY <1>2
    <3> QED  BY <1>2, <1>4, <1>5, <3>1
  <2>2. ASSUME NEW k \in n + 1 .. Len(u) PROVE c1[k + (l + 1)] = u[k]
    <3>1. /\ k + (l + 1) \in 1 .. Len(c) /\ k + (l + 1) # n + l + 1 /\ k \in 1 .. Len(t) - 1 /\ ~(k < n + 1)
          /\ k + 1 \in n + 1 .. Len(t) /\ k + (l + 1) = (k + 1) + l
      <4>1. k \in Int /\ k >= n + 1 /\ k <= Len(t) - 1 /\ n \in Int /\ l \in Int /\ l > 0 /\ Len(t) \in Int
            /\ Len(c) = Len(t) + l /\ n >= 0
        BY <1>2, <1>5
      <4> QED  BY <4>1
    <3> QED  BY <1>2, <1>4, <1>5, <3>1
  <2>3. n \in 0 .. Len(u) /\ l + 1 \in Nat \ {0} /\ Len(c1) = Len(u) + (l + 1)
    BY <1>2, <1>4, <1>5
  <2> QED  BY <1>4, <1>5, <2>1, <2>2, <2>3 DEF Laid
<1> QED  BY <1>1, <1>3, <1>6 DEF Holds, u

LEMMA EraseLeftByteHolds ==
    ASSUME NEW g, NEW t, NEW n, Holds(g, t, n), n > 0
    PROVE  Holds(EraseLeftByte(g), Without(t, n), n - 1)
<1>1. PICK c, b, l : g = Gap(c, b, n, l) /\ Laid(c, l, t, n) /\ InPlace(b, n)
  BY DEF Holds
<1>2. /\ c \in Seq(Cell) /\ l \in Nat \ {0} /\ t \in Seq(Byte) /\ n \in 0 .. Len(t)
      /\ Len(c) = Len(t) + l
      /\ \A k \in 1 .. n : c[k] = t[k]
      /\ \A k \in n + 1 .. Len(t) : c[k + l] = t[k]
      /\ b \in Int /\ n \in Int /\ l \in Int /\ n - 1 \in Int
  BY <1>1 DEF Laid, InPlace
<1> DEFINE d == IF StartsBuf(n) THEN b - 1 ELSE b
           c1 == Write(c, n - 1, NONE)
           u == Without(t, n)
<1>3. InPlace(d, n - 1)
  BY <1>1, <1>2, PlaceBefore
<1>4. d \in Int /\ n - 1 = d * BufferSize + InBuf(n - 1)
  BY <1>3 DEF InPlace
<1>5. EraseLeftByte(g) = Gap(c1, d, n - 1, l + 1)
  <2>1. d = IF StartsBuf(n) THEN b - 1 ELSE b
    OBVIOUS
  <2> HIDE DEF d
  <2> QED  BY <1>1, <1>2, <1>4, <2>1, EraseLeftByteIs
<1> HIDE DEF d
<1>6. c1 \in Seq(Cell) /\ Len(c1) = Len(c) /\ \A k \in 1 .. Len(c) : c1[k] = IF k = n THEN NONE ELSE c[k]
  <2>1. n - 1 \in 0 .. Len(c) - 1 /\ NONE \in Cell /\ (n - 1) + 1 = n
    BY <1>2 DEF Cell
  <2>2. PICK p \in 0 .. Len(c) - 1 : p = n - 1
    BY <2>1
  <2>3. Write(c, p, NONE) \in Seq(Cell) /\ Len(Write(c, p, NONE)) = Len(c) /\ \A k \in 1 .. Len(c) : Write(c, p, NONE)[k] = IF k = p + 1 THEN NONE ELSE c[k]
    BY <1>2, <2>1, WriteIs
  <2>4. p + 1 = n
    BY <2>1, <2>2
  <2> QED  BY <2>2, <2>3, <2>4
<1>7. u \in Seq(Byte) /\ Len(u) = Len(t) - 1 /\ \A j \in 1 .. Len(t) - 1 : u[j] = IF j < n THEN t[j] ELSE t[j + 1]
  <2>1. n \in 1 .. Len(t)
    BY <1>2
  <2> QED  BY <1>2, <2>1, WithoutIs
<1> HIDE DEF c1, u
<1>8. Laid(c1, l + 1, u, n - 1)
  <2>1. ASSUME NEW k \in 1 .. n - 1 PROVE c1[k] = u[k]
    <3>1. k \in 1 .. Len(c) /\ k # n /\ k \in 1 .. Len(t) - 1 /\ k < n /\ k \in 1 .. n
      BY <1>2
    <3> QED  BY <1>2, <1>6, <1>7, <3>1
  <2>2. ASSUME NEW k \in (n - 1) + 1 .. Len(u) PROVE c1[k + (l + 1)] = u[k]
    <3>1. /\ k + (l + 1) \in 1 .. Len(c) /\ k + (l + 1) # n /\ k \in 1 .. Len(t) - 1 /\ ~(k < n)
          /\ k + 1 \in n + 1 .. Len(t) /\ k + (l + 1) = (k + 1) + l
      BY <1>2, <1>7
    <3> QED  BY <1>2, <1>6, <1>7, <3>1
  <2>3. n - 1 \in 0 .. Len(u) /\ l + 1 \in Nat \ {0} /\ Len(c1) = Len(u) + (l + 1)
    BY <1>2, <1>6, <1>7
  <2> QED  BY <1>6, <1>7, <2>1, <2>2, <2>3 DEF Laid
<1> QED  BY <1>3, <1>5, <1>8 DEF Holds, u

LEMMA JoinedIs ==
    ASSUME NEW s \in Seq(Cell), NEW t \in Seq(Cell)
    PROVE  /\ s \o t \in Seq(Cell) /\ Len(s \o t) = Len(s) + Len(t)
           /\ \A k \in 1 .. Len(s) : (s \o t)[k] = s[k]
           /\ \A k \in 1 .. Len(t) : (s \o t)[Len(s) + k] = t[k]
<1>1. s \o t \in Seq(Cell) /\ Len(s \o t) = Len(s) + Len(t) /\ Len(s) \in Nat /\ Len(t) \in Nat
  OBVIOUS
<1>2. ASSUME NEW k \in 1 .. Len(s) PROVE (s \o t)[k] = s[k]
  OBVIOUS
<1>3. ASSUME NEW k \in 1 .. Len(t) PROVE (s \o t)[Len(s) + k] = t[k]
  <2>1. Len(s) + k \in 1 .. Len(s) + Len(t) /\ ~(Len(s) + k <= Len(s)) /\ (Len(s) + k) - Len(s) = k
    BY <1>1
  <2> QED  BY <1>1, <2>1
<1> QED  BY <1>1, <1>2, <1>3

LEMMA FirstIs ==
    ASSUME NEW s \in Seq(Cell), NEW m \in 0 .. Len(s)
    PROVE  /\ SubSeq(s, 1, m) \in Seq(Cell) /\ Len(SubSeq(s, 1, m)) = m
           /\ \A k \in 1 .. m : SubSeq(s, 1, m)[k] = s[k]
<1>1. SubSeq(s, 1, m) = [k \in 1 .. m |-> s[k]]
  OBVIOUS
<1>2. m \in Nat /\ \A k \in 1 .. m : s[k] \in Cell
  OBVIOUS
<1> QED  BY <1>1, <1>2

\* The first n items of c, those of x, and those of d from behind the m-th.
Three(c, n, x, d, m) == SubSeq(c, 1, n) \o x \o SubSeq(d, m + 1, Len(d))

Threefold(r, c, n, x, d, m) ==
    /\ r \in Seq(Cell) /\ Len(r) = n + Len(x) + (Len(d) - m)
    /\ \A k \in 1 .. n : r[k] = c[k]
    /\ \A k \in 1 .. Len(x) : r[n + k] = x[k]
    /\ \A k \in 1 .. Len(d) - m : r[n + Len(x) + k] = d[m + k]

LEMMA ThreeIs ==
    ASSUME NEW c \in Seq(Cell), NEW x \in Seq(Cell), NEW d \in Seq(Cell),
           NEW n \in 0 .. Len(c), NEW m \in 0 .. Len(d)
    PROVE  Threefold(Three(c, n, x, d, m), c, n, x, d, m)
<1> DEFINE r == Three(c, n, x, d, m)
<1> DEFINE a == SubSeq(c, 1, n)
           b == SubSeq(d, m + 1, Len(d))
           ax == a \o x
<1>1. a \in Seq(Cell) /\ Len(a) = n /\ \A k \in 1 .. n : a[k] = c[k]
  BY FirstIs
<1>2. b \in Seq(Cell) /\ Len(b) = Len(d) - m /\ \A k \in 1 .. Len(d) - m : b[k] = d[m + k]
  BY RestIs
<1>0. r = ax \o b
  BY DEF Three
<1> HIDE DEF a, b, r
<1>3. /\ ax \in Seq(Cell) /\ Len(ax) = n + Len(x)
      /\ \A k \in 1 .. n : ax[k] = a[k]
      /\ \A k \in 1 .. Len(x) : ax[n + k] = x[k]
  <2>1. /\ a \o x \in Seq(Cell) /\ Len(a \o x) = Len(a) + Len(x)
        /\ \A k \in 1 .. Len(a) : (a \o x)[k] = a[k]
        /\ \A k \in 1 .. Len(x) : (a \o x)[Len(a) + k] = x[k]
    BY <1>1, JoinedIs
  <2> QED  BY <1>1, <2>1
<1> HIDE DEF ax
<1>4. /\ r \in Seq(Cell) /\ Len(r) = n + Len(x) + (Len(d) - m)
      /\ \A k \in 1 .. n + Len(x) : r[k] = ax[k]
      /\ \A k \in 1 .. Len(d) - m : r[n + Len(x) + k] = b[k]
  <2>1. /\ ax \o b \in Seq(Cell) /\ Len(ax \o b) = Len(ax) + Len(b)
        /\ \A k \in 1 .. Len(ax) : (ax \o b)[k] = ax[k]
        /\ \A k \in 1 .. Len(b) : (ax \o b)[Len(ax) + k] = b[k]
    BY <1>2, <1>3, JoinedIs
  <2> QED  BY <1>0, <1>2, <1>3, <2>1
<1>5. ASSUME NEW k \in 1 .. n PROVE r[k] = c[k]
  <2>1. k \in 1 .. n + Len(x)
    OBVIOUS
  <2> QED  BY <1>1, <1>3, <1>4, <2>1
<1>6. ASSUME NEW k \in 1 .. Len(x) PROVE r[n + k] = x[k]
  <2>1. n + k \in 1 .. n + Len(x)
    OBVIOUS
  <2> QED  BY <1>3, <1>4, <2>1
<1>7. ASSUME NEW k \in 1 .. Len(d) - m PROVE r[n + Len(x) + k] = d[m + k]
  BY <1>2, <1>4
<1>8. Threefold(r, c, n, x, d, m)
  BY <1>4, <1>5, <1>6, <1>7 DEF Threefold
<1> QED  BY <1>8 DEF r

LEMMA DivIs ==
    ASSUME NEW e \in Nat
    PROVE  \E q \in Nat, r \in 0 .. BufferSize - 1 : q = e \div BufferSize /\ e = BufferSize * q + r
<1> DEFINE d == e \div BufferSize
           m == e % BufferSize
<1>1. BufferSize \in Nat /\ BufferSize > 0
  BY BufferAssumption
<1>2. d \in Int /\ m \in 0 .. BufferSize - 1 /\ e = BufferSize * d + m
  BY <1>1
<1> HIDE DEF d, m
<1>3. ASSUME d <= -1 PROVE FALSE
  <2>1. BufferSize * d <= BufferSize * (-1)
    BY <1>1, <1>2, <1>3
  <2>2. BufferSize * (-1) = -BufferSize
    BY <1>1
  <2> QED  BY <1>1, <1>2, <2>1, <2>2
<1>4. d \in Nat
  BY <1>2, <1>3
<1>5. d = e \div BufferSize
  BY DEF d
<1> QED  BY <1>2, <1>4, <1>5

LEMMA JunkIs ==
    ASSUME NEW n \in Nat
    PROVE  Junk(n) \in Seq(Cell) /\ Len(Junk(n)) = n
BY DEF Junk, Cell

Roomy(h, b, n, t, m) == \E d, w : h = Gap(d, b, n, w) /\ Laid(d, w, t, n) /\ w > m

\* Buffers are added so that the gap has room for m bytes and is not empty then.
LEMMA EnlargedIs ==
    ASSUME NEW c, NEW b, NEW n, NEW l, NEW t, NEW m \in Nat, Laid(c, l, t, n)
    PROVE  Roomy(Enlarged(Gap(c, b, n, l), m), b, n, t, m)
<1>1. /\ c \in Seq(Cell) /\ l \in Nat \ {0} /\ t \in Seq(Byte) /\ n \in 0 .. Len(t)
      /\ Len(c) = Len(t) + l
      /\ \A k \in 1 .. n : c[k] = t[k]
      /\ \A k \in n + 1 .. Len(t) : c[k + l] = t[k]
  BY DEF Laid
<1>2. PICK g : g = Gap(c, b, n, l)
  OBVIOUS
<1>3. g.chars = c /\ g.gapBuf = b /\ g.gapPos = n /\ g.gapLen = l
  BY <1>2, GapIs
<1> DEFINE more == Missing(g, m) * BufferSize
           w == g.gapLen + more
           d == SubSeq(g.chars, 1, g.gapPos) \o Junk(g.gapLen + more)
                \o SubSeq(g.chars, g.gapPos + g.gapLen + 1, Len(g.chars))
<1>4. more \in Nat /\ w \in Nat /\ w > m /\ w = l + more
  <2>1. BufferSize \in Nat /\ BufferSize > 0
    BY BufferAssumption
  <2>2. CASE m < l
    <3>1. Missing(g, m) = 0
      BY <1>3, <2>2 DEF Missing
    <3> QED  BY <1>1, <1>3, <2>1, <2>2, <3>1
  <2>3. CASE ~(m < l)
    <3>1. Missing(g, m) = (m - l) \div BufferSize + 1
      BY <1>3, <2>3 DEF Missing
    <3> DEFINE q == (m - l) \div BufferSize
    <3>2. q \in Nat /\ m - l < (q + 1) * BufferSize
      <4>1. PICK e \in Nat : e = m - l
        BY <1>1, <2>3
      <4>5. PICK k \in Nat, r \in 0 .. BufferSize - 1 : k = e \div BufferSize /\ e = BufferSize * k + r
        BY DivIs
      <4>6. e < (k + 1) * BufferSize
        BY <2>1, <4>5
      <4> QED  BY <4>1, <4>5, <4>6
    <3> HIDE DEF q
    <3>3. PICK f \in Nat : f = (q + 1) * BufferSize
      BY <2>1, <3>2
    <3>4. more = f /\ m - l < f
      BY <3>1, <3>2, <3>3 DEF q
    <3> HIDE DEF more
    <3> QED  BY <1>1, <1>3, <3>4
  <2> QED  BY <2>2, <2>3
<1>5. Enlarged(g, m) = [[g EXCEPT !.chars = d] EXCEPT !.gapLen = w]
  BY DEF Enlarged
<1> HIDE DEF more
<1>6. d = SubSeq(c, 1, n) \o Junk(w) \o SubSeq(c, (n + l) + 1, Len(c))
  BY <1>3
<1> HIDE DEF d, w
<1>7. Enlarged(Gap(c, b, n, l), m) = Gap(d, b, n, w)
  <2>1. /\ [Gap(c, b, n, l) EXCEPT !.chars = d] = Gap(d, b, n, l)
        /\ [Gap(d, b, n, l) EXCEPT !.gapLen = w] = Gap(d, b, n, w)
    BY DEF Gap
  <2>2. Gap(d, b, n, w) = [[g EXCEPT !.chars = d] EXCEPT !.gapLen = w]
    BY <1>2, <2>1, Zenon
  <2> QED  BY <1>2, <1>5, <2>2
<1>8. Laid(d, w, t, n)
  <2>1. n \in 0 .. Len(c) /\ n + l \in 0 .. Len(c) /\ Len(c) - (n + l) = Len(t) - n
    BY <1>1
  <2>2. Junk(w) \in Seq(Cell) /\ Len(Junk(w)) = w
    BY <1>4, JunkIs
  <2>3. /\ d \in Seq(Cell) /\ Len(d) = n + w + (Len(c) - (n + l))
        /\ \A k \in 1 .. n : d[k] = c[k]
        /\ \A k \in 1 .. Len(c) - (n + l) : d[n + w + k] = c[(n + l) + k]
    <3>1. PICK j : j = Junk(w)
      OBVIOUS
    <3>2. PICK m2 \in 0 .. Len(c) : m2 = n + l
      BY <2>1
    <3>3. d = Three(c, n, j, c, m2) /\ j \in Seq(Cell)
      BY <1>6, <2>2, <3>1, <3>2 DEF Three
    <3>4. /\ d \in Seq(Cell) /\ Len(d) = n + Len(j) + (Len(c) - m2)
          /\ \A k \in 1 .. n : d[k] = c[k]
          /\ \A k \in 1 .. Len(c) - m2 : d[n + Len(j) + k] = c[m2 + k]
      <4>1. c \in Seq(Cell) /\ n \in 0 .. Len(c)
        BY <1>1, <2>1
      <4>2. Threefold(d, c, n, j, c, m2)
        BY <3>3, <4>1, ThreeIs
      <4> QED  BY <4>2 DEF Threefold
    <3> QED  BY <2>2, <3>1, <3>2, <3>4
  <2>4. ASSUME NEW k \in n + 1 .. Len(t) PROVE d[k + w] = t[k]
    <3>1. PICK j \in 1 .. Len(t) - n : k = n + j
      <4>1. k - n \in 1 .. Len(t) - n /\ k = n + (k - n)
        BY <1>1
      <4> QED  BY <4>1
    <3>2. k + w = n + w + j /\ k + l = (n + l) + j
      BY <1>1, <1>4, <3>1
    <3> QED  BY <1>1, <2>1, <2>3, <3>1, <3>2
  <2>5. w \in Nat \ {0} /\ Len(d) = Len(t) + w
    BY <1>1, <1>4, <2>1, <2>3
  <2> QED  BY <1>1, <2>3, <2>4, <2>5 DEF Laid
<1> QED  BY <1>4, <1>7, <1>8 DEF Roomy

LEMMA PlaceFar ==
    ASSUME NEW n \in Nat, NEW b, InPlace(b, n), NEW m \in Nat
    PROVE  InPlace(b + (InBuf(n) + m) \div BufferSize, n + m)
<1>1. BufferSize \in Nat /\ BufferSize > 0 /\ b \in Int
  BY BufferAssumption DEF InPlace
<1>2. PICK r \in 0 .. BufferSize - 1 : r = InBuf(n) /\ n = b * BufferSize + r
  BY <1>1, InBufIs DEF InPlace
<1>3. PICK e \in Nat : e = r + m
  BY <1>1
<1>5. PICK q \in Nat, p \in 0 .. BufferSize - 1 : q = e \div BufferSize /\ e = BufferSize * q + p
  BY DivIs
<1>7. n + m = (b + q) * BufferSize + p
  <2>1. e = BufferSize * q + p
    BY <1>5
  <2>2. (b + q) * BufferSize = b * BufferSize + BufferSize * q
    BY <1>1
  <2> QED  BY <1>1, <1>2, <1>3, <2>1, <2>2
<1>8. b + q \in Int /\ n + m \in Int
  BY <1>1
<1>9. InBuf(n + m) = p
  BY <1>7, <1>8, SplitAt
<1>10. InPlace(b + q, n + m)
  BY <1>7, <1>8, <1>9 DEF InPlace
<1>11. b + (InBuf(n) + m) \div BufferSize = b + q
  BY <1>2, <1>3, <1>5
<1> QED  BY <1>10, <1>11

LEMMA Behind ==
    ASSUME NEW z \in Nat, NEW n \in 0 .. z, NEW m \in Nat, NEW k \in (n + m) + 1 .. n + m + (z - n)
    PROVE  \E j \in 1 .. z - n : k = n + m + j
<1>1. k - (n + m) \in 1 .. z - n /\ k = n + m + (k - (n + m))
  OBVIOUS
<1> QED  BY <1>1

LEMMA InsertBytesHolds ==
    ASSUME NEW g, NEW t, NEW n, Holds(g, t, n), NEW x \in Seq(Byte),
           NEW u, u = SubSeq(t, 1, n) \o x \o SubSeq(t, n + 1, Len(t))
    PROVE  Holds(InsertBytes(g, x), u, n + Len(x))
<1>1. PICK c, b, l : g = Gap(c, b, n, l) /\ Laid(c, l, t, n) /\ InPlace(b, n)
  BY DEF Holds
<1>2. PICK m \in Nat : m = Len(x)
  OBVIOUS
<1>3. g.chars = c /\ g.gapBuf = b /\ g.gapPos = n /\ g.gapLen = l
  BY <1>1, GapIs
<1>4. PICK d, w : Enlarged(g, m) = Gap(d, b, n, w) /\ Laid(d, w, t, n) /\ w > m
  <2>1. Roomy(Enlarged(Gap(c, b, n, l), m), b, n, t, m)
    <3>1. Laid(c, l, t, n)
      BY <1>1
    <3> QED  BY <3>1, EnlargedIs
  <2> QED  BY <1>1, <2>1 DEF Roomy
<1>5. Enlarged(g, m).chars = d /\ Enlarged(g, m).gapLen = w
  BY <1>4, GapIs
<1> DEFINE e == SubSeq(d, 1, n) \o x \o SubSeq(d, (n + m) + 1, Len(d))
           q == b + (InBuf(n) + m) \div BufferSize
<1>6. InsertBytes(g, x) = Gap(e, q, n + m, w - m)
  BY <1>2, <1>3, <1>5 DEF InsertBytes, Gap
<1>7. /\ d \in Seq(Cell) /\ w \in Nat \ {0} /\ t \in Seq(Byte) /\ n \in 0 .. Len(t)
      /\ Len(d) = Len(t) + w
      /\ \A k \in 1 .. n : d[k] = t[k]
      /\ \A k \in n + 1 .. Len(t) : d[k + w] = t[k]
  BY <1>4 DEF Laid
<1>8. InPlace(q, n + m)
  BY <1>1, <1>7, PlaceFar
<1>9. /\ u \in Seq(Byte) /\ Len(u) = n + m + (Len(t) - n)
      /\ \A k \in 1 .. n : u[k] = t[k]
      /\ \A k \in 1 .. m : u[n + k] = x[k]
      /\ \A k \in 1 .. Len(t) - n : u[n + m + k] = t[n + k]
  <2>1. /\ Len(u) = n + Len(x) + (Len(t) - n)
        /\ \A k \in 1 .. n : u[k] = t[k]
        /\ \A k \in 1 .. Len(x) : u[n + k] = x[k]
        /\ \A k \in 1 .. Len(t) - n : u[n + Len(x) + k] = t[n + k]
    <3>1. u = Three(t, n, x, t, n) /\ t \in Seq(Cell) /\ x \in Seq(Cell)
      BY <1>7, ByteIsCell DEF Three
    <3>2. n \in 0 .. Len(t)
      BY <1>7
    <3>3. Threefold(u, t, n, x, t, n)
      BY <3>1, <3>2, ThreeIs
    <3> QED  BY <3>3 DEF Threefold
  <2>2. u \in Seq(Byte)
    <3>1. SubSeq(t, 1, n) \in Seq(Byte) /\ SubSeq(t, n + 1, Len(t)) \in Seq(Byte)
      BY <1>7, RestIs
    <3> QED  BY <3>1
  <2> QED  BY <1>2, <2>1, <2>2
<1>10. /\ e \in Seq(Cell) /\ Len(e) = n + m + (Len(d) - (n + m))
       /\ \A k \in 1 .. n : e[k] = d[k]
       /\ \A k \in 1 .. m : e[n + k] = x[k]
       /\ \A k \in 1 .. Len(d) - (n + m) : e[n + m + k] = d[(n + m) + k]
  <2>1. x \in Seq(Cell) /\ n \in 0 .. Len(d) /\ n + m \in 0 .. Len(d)
    BY <1>2, <1>4, <1>7, ByteIsCell
  <2>2. PICK p \in 0 .. Len(d) : p = n + m
    BY <2>1
  <2>3. e = Three(d, n, x, d, p)
    BY <2>2 DEF Three
  <2> HIDE DEF e
  <2>4. /\ e \in Seq(Cell) /\ Len(e) = n + Len(x) + (Len(d) - p)
        /\ \A k \in 1 .. n : e[k] = d[k]
        /\ \A k \in 1 .. Len(x) : e[n + k] = x[k]
        /\ \A k \in 1 .. Len(d) - p : e[n + Len(x) + k] = d[p + k]
    <3>1. d \in Seq(Cell) /\ x \in Seq(Cell) /\ n \in 0 .. Len(d)
      BY <1>7, <2>1
    <3>2. Threefold(e, d, n, x, d, p)
      BY <2>3, <3>1, ThreeIs
    <3> QED  BY <3>2 DEF Threefold
  <2> QED  BY <1>2, <2>2, <2>4
<1> HIDE DEF e, q
<1>11. Laid(e, w - m, u, n + m)
  <2>1. ASSUME NEW k \in 1 .. n + m PROVE e[k] = u[k]
    <3>1. CASE k <= n
      <4>1. k \in 1 .. n
        BY <3>1
      <4> QED  BY <1>7, <1>9, <1>10, <4>1
    <3>2. CASE k > n
      <4>1. PICK j \in 1 .. m : k = n + j
        <5>1. k - n \in 1 .. m /\ k = n + (k - n)
          BY <1>7, <3>2
        <5> QED  BY <5>1
      <4> QED  BY <1>9, <1>10, <4>1
    <3>3. k <= n \/ k > n
      BY <1>7
    <3> QED  BY <3>1, <3>2, <3>3
  <2>2. ASSUME NEW k \in (n + m) + 1 .. Len(u) PROVE e[k + (w - m)] = u[k]
    <3>1. PICK j \in 1 .. Len(t) - n : k = n + m + j
      <4>1. Len(t) \in Nat /\ n \in 0 .. Len(t)
        BY <1>7
      <4>2. Len(u) = n + m + (Len(t) - n)
        BY <1>9, Zenon
      <4>3. k \in (n + m) + 1 .. n + m + (Len(t) - n)
        BY <4>2, Zenon
      <4> QED  BY <4>1, <4>3, Behind, Zenon
    <3>2. u[k] = t[n + j]
      BY <1>9, <3>1
    <3>5. n + j \in n + 1 .. Len(t)
      BY <1>7
    <3>3. PICK i \in 1 .. Len(d) - (n + m) : i = (w - m) + j
      <4>1. (w - m) + j \in 1 .. Len(d) - (n + m)
        BY <1>4, <1>7, <3>1
      <4> QED  BY <4>1
    <3>4. k + (w - m) = n + m + i /\ (n + m) + i = (n + j) + w
      BY <1>7, <3>1, <3>3
    <3>6. e[n + m + i] = d[(n + m) + i]
      BY <1>10, <3>3
    <3>7. d[(n + j) + w] = t[n + j]
      BY <1>7, <3>5
    <3> QED  BY <3>2, <3>4, <3>6, <3>7
  <2>3. w - m \in Nat \ {0} /\ Len(e) = Len(u) + (w - m) /\ n + m \in 0 .. Len(u)
    <3>1. PICK a \in Nat : a = Len(t)
      BY <1>7
    <3>2. n \in 0 .. a /\ w \in Nat /\ w > m /\ Len(d) = a + w
      BY <1>4, <1>7, <3>1
    <3>3. Len(u) = n + m + (a - n)
      BY <1>9, <3>1
    <3>4. Len(e) = n + m + ((a + w) - (n + m))
      BY <1>10, <3>2
    <3>5. n + m + (a - n) = a + m /\ n + m + ((a + w) - (n + m)) = (a + m) + (w - m)
      BY <3>2
    <3>6. w - m \in Nat \ {0} /\ n + m \in 0 .. a + m
      BY <3>2
    <3> QED  BY <3>3, <3>4, <3>5, <3>6
  <2> QED  BY <1>9, <1>10, <2>1, <2>2, <2>3 DEF Laid
<1> QED  BY <1>2, <1>6, <1>8, <1>11 DEF Holds

LEMMA Halves ==
    ASSUME NEW a \in Seq(Cell), NEW b \in Seq(Cell)
    PROVE  SubSeq(a \o b, 1, Len(a)) = a /\ SubSeq(a \o b, Len(a) + 1, Len(a \o b)) = b
<1>1. /\ a \o b \in Seq(Cell) /\ Len(a \o b) = Len(a) + Len(b)
      /\ \A k \in 1 .. Len(a) : (a \o b)[k] = a[k]
      /\ \A k \in 1 .. Len(b) : (a \o b)[Len(a) + k] = b[k]
  BY JoinedIs
<1> PICK t \in Seq(Cell) : t = a \o b
  BY <1>1
<1>2. Len(a) \in 0 .. Len(t) /\ Len(t) - Len(a) = Len(b)
  BY <1>1
<1>3. SubSeq(t, 1, Len(a)) = a
  <2> PICK u : u = SubSeq(t, 1, Len(a))
    OBVIOUS
  <2>1. u \in Seq(Cell) /\ Len(u) = Len(a) /\ \A k \in 1 .. Len(a) : u[k] = t[k]
    BY <1>2, FirstIs
  <2>2. \A k \in 1 .. Len(u) : u[k] = a[k]
    BY <1>1, <2>1
  <2>3. u = a
    BY <2>1, <2>2, SeqEqual
  <2> QED  BY <2>3
<1>4. SubSeq(t, Len(a) + 1, Len(t)) = b
  <2> PICK u : u = SubSeq(t, Len(a) + 1, Len(t))
    OBVIOUS
  <2>1. u \in Seq(Cell) /\ Len(u) = Len(b) /\ \A k \in 1 .. Len(b) : u[k] = t[Len(a) + k]
    BY <1>2, RestIs
  <2>2. \A k \in 1 .. Len(u) : u[k] = b[k]
    BY <1>1, <2>1
  <2>3. u = b
    BY <2>1, <2>2, SeqEqual
  <2> QED  BY <2>3
<1> QED  BY <1>3, <1>4

LEMMA WithoutOne ==
    ASSUME NEW a \in Seq(Byte), NEW b \in Seq(Byte), NEW x \in Byte
    PROVE  Without(a \o (<<x>> \o b), Len(a) + 1) = a \o b
<1>1. a \in Seq(Cell) /\ b \in Seq(Cell) /\ x \in Cell
  BY ByteIsCell DEF Cell
<1> PICK y \in Seq(Cell) : y = <<x>>
  <2>1. <<x>> \in Seq(Cell)
    BY <1>1
  <2> QED  BY <2>1
<1>2. Len(y) = 1 /\ y[1] = x
  OBVIOUS
<1> PICK e \in Seq(Cell) : e = y \o b
  <2>1. y \o b \in Seq(Cell)
    BY <1>1
  <2> QED  BY <2>1
<1>3. Len(e) = 1 + Len(b) /\ \A k \in 1 .. Len(b) : e[1 + k] = b[k]
  BY <1>1, <1>2, JoinedIs
<1>4. a \o e \in Seq(Byte)
  OBVIOUS
<1> PICK t \in Seq(Byte) : t = a \o e
  BY <1>4
<1>5. /\ Len(t) = Len(a) + Len(e)
      /\ \A k \in 1 .. Len(a) : t[k] = a[k]
      /\ \A k \in 1 .. Len(e) : t[Len(a) + k] = e[k]
  BY <1>1, JoinedIs
<1>6. Len(a) + 1 \in 1 .. Len(t) /\ Len(t) - 1 = Len(a) + Len(b)
  BY <1>3, <1>5
<1> PICK u : u = Without(t, Len(a) + 1)
  OBVIOUS
<1>7. /\ u \in Seq(Byte) /\ Len(u) = Len(a) + Len(b)
      /\ \A j \in 1 .. Len(a) + Len(b) : u[j] = IF j < Len(a) + 1 THEN t[j] ELSE t[j + 1]
  <2>1. /\ Without(t, Len(a) + 1) \in Seq(Byte) /\ Len(Without(t, Len(a) + 1)) = Len(t) - 1
        /\ \A j \in 1 .. Len(t) - 1 :
              Without(t, Len(a) + 1)[j] = IF j < Len(a) + 1 THEN t[j] ELSE t[j + 1]
    BY <1>6, WithoutIs
  <2> QED  BY <1>6, <2>1
<1>8. /\ a \o b \in Seq(Cell) /\ Len(a \o b) = Len(a) + Len(b)
      /\ \A k \in 1 .. Len(a) : (a \o b)[k] = a[k]
      /\ \A k \in 1 .. Len(b) : (a \o b)[Len(a) + k] = b[k]
  BY <1>1, JoinedIs
<1> PICK v \in Seq(Cell) : v = a \o b
  BY <1>8
<1>9. ASSUME NEW j \in 1 .. Len(a) + Len(b) PROVE u[j] = v[j]
  <2>1. CASE j < Len(a) + 1
    <3>1. j \in 1 .. Len(a)
      BY <2>1
    <3> QED  BY <1>5, <1>7, <1>8, <2>1, <3>1
  <2>2. CASE ~(j < Len(a) + 1)
    <3>1. PICK k \in 1 .. Len(b) : j = Len(a) + k
      <4>1. j - Len(a) \in 1 .. Len(b) /\ j = Len(a) + (j - Len(a))
        BY <2>2
      <4> QED  BY <4>1
    <3>4. u[j] = t[j + 1]
      BY <1>7, <2>2
    <3>2. u[j] = t[j + 1] /\ j + 1 = Len(a) + (1 + k)
      BY <3>1, <3>4
    <3>3. 1 + k \in 1 .. Len(e)
      BY <1>3
    <3> QED  BY <1>3, <1>5, <1>8, <3>1, <3>2, <3>3
  <2> QED  BY <2>1, <2>2
<1>10. u \in Seq(Cell) /\ Len(u) = Len(v)
  BY <1>7, <1>8, ByteIsCell
<1>11. \A j \in 1 .. Len(u) : u[j] = v[j]
  BY <1>7, <1>9
<1>12. u = v
  BY <1>10, <1>11, SeqEqual
<1> QED  BY <1>12

-------------------------------------------------------------------------------
(* The gap, character by character. *)

\* The text, and where the cursor is in it.
Coded(g, s, t) == Holds(g, EncodedText(s) \o EncodedText(t), Len(EncodedText(s)))

LEMMA LastIs ==
    ASSUME NEW s \in Seq(Simple)
    PROVE  s = <<>> \/ \E u \in Seq(Simple), c \in Simple : s = Append(u, c)
<1> DEFINE T == {r \in Seq(Simple) : r = <<>> \/ \E u \in Seq(Simple), c \in Simple : r = Append(u, c)}
<1>1. <<>> \in T
  OBVIOUS
<1>2. ASSUME NEW t \in Seq(Simple), NEW c \in Simple, t \in T PROVE Append(t, c) \in T
  <2> PICK r : r = Append(t, c)
    OBVIOUS
  <2>1. r \in Seq(Simple)
    OBVIOUS
  <2>2. r \in T
    BY <2>1
  <2> QED  BY <2>2
<1>3. Seq(Simple) \subseteq T
  <2> HIDE DEF T
  <2> QED  BY <1>1, <1>2, ItemByItem
<1> QED  BY <1>3

LEMMA HeadIs ==
    ASSUME NEW s \in Seq(Simple)
    PROVE  s = <<>> \/ \E u \in Seq(Simple), c \in Simple : s = <<c>> \o u
<1> DEFINE T == {r \in Seq(Simple) : r = <<>> \/ \E u \in Seq(Simple), c \in Simple : r = <<c>> \o u}
<1>1. <<>> \in T
  OBVIOUS
<1>2. ASSUME NEW t \in Seq(Simple), NEW d \in Simple, t \in T PROVE Append(t, d) \in T
  <2>1. CASE t = <<>>
    <3>1. Append(t, d) = <<d>> \o <<>> /\ <<>> \in Seq(Simple) /\ Append(t, d) \in Seq(Simple)
      BY <2>1
    <3> QED  BY <3>1
  <2>2. CASE t # <<>>
    <3>1. PICK u \in Seq(Simple), c \in Simple : t = <<c>> \o u
      BY <1>2, <2>2
    <3>2. <<c>> \in Seq(Simple)
      OBVIOUS
    <3>3. <<c>> \o Append(u, d) = Append(<<c>> \o u, d) /\ Append(u, d) \in Seq(Simple)
      BY <3>2, AppendIs
    <3>4. Append(t, d) = <<c>> \o Append(u, d) /\ Append(t, d) \in Seq(Simple)
      BY <3>1, <3>3
    <3> QED  BY <3>3, <3>4
  <2> QED  BY <2>1, <2>2
<1>3. Seq(Simple) \subseteq T
  <2> HIDE DEF T
  <2> QED  BY <1>1, <1>2, ItemByItem
<1> QED  BY <1>3

LEMMA OneOrTwo ==
    ASSUME NEW c \in Simple
    PROVE  \/ Bytes[c] = 1 /\ Encoded(c) = << <<c, 1>> >>
           \/ Bytes[c] = 2 /\ Encoded(c) = << <<c, 1>> >> \o << <<c, 2>> >>
<1>1. /\ Encoded(c) \in Seq(Byte) /\ Len(Encoded(c)) = Bytes[c]
      /\ \A k \in 1 .. Bytes[c] : Encoded(c)[k] = <<c, k>>
      /\ Bytes[c] = 1 \/ Bytes[c] = 2
  BY OneEncoded
<1> PICK e \in Seq(Byte) : e = Encoded(c)
  BY <1>1
<1>2. CASE Bytes[c] = 1
  <2>1. Len(e) = 1 /\ e[1] = <<c, 1>>
    BY <1>1, <1>2
  <2>2. e = << <<c, 1>> >>
    <3> PICK f : f = << <<c, 1>> >>
      OBVIOUS
    <3>1. f \in Seq(Byte) /\ Len(f) = 1 /\ f[1] = <<c, 1>>
      <4>1. PICK x \in Byte : x = <<c, 1>>
        BY DEF Byte
      <4>2. <<x>> \in Seq(Byte) /\ Len(<<x>>) = 1 /\ <<x>>[1] = x
        OBVIOUS
      <4> QED  BY <4>1, <4>2
    <3>2. \A k \in 1 .. Len(e) : e[k] = f[k]
      BY <2>1, <3>1
    <3>3. e = f
      BY <2>1, <3>1, <3>2, SeqEqual
    <3> QED  BY <3>3
  <2> QED  BY <1>2, <2>2
<1>3. CASE Bytes[c] = 2
  <2>1. Len(e) = 2 /\ e[1] = <<c, 1>> /\ e[2] = <<c, 2>>
    BY <1>1, <1>3
  <2>2. e = << <<c, 1>> >> \o << <<c, 2>> >>
    <3>5. <<c, 1>> \in Byte /\ <<c, 2>> \in Byte
      <4>1. 1 \in 1 .. 2 /\ 2 \in 1 .. 2
        OBVIOUS
      <4> QED  BY <4>1, Zenon DEF Byte
    <3> PICK x \in Byte, y \in Byte : x = <<c, 1>> /\ y = <<c, 2>>
      BY <3>5, Zenon
    <3> PICK f : f = <<x>> \o <<y>>
      OBVIOUS
    <3>1. f \in Seq(Byte) /\ Len(f) = 2 /\ f[1] = x /\ f[2] = y
      OBVIOUS
    <3>4. e[1] = f[1] /\ e[2] = f[2]
      BY <2>1, <3>1
    <3>2. \A k \in 1 .. Len(e) : e[k] = f[k]
      <4> SUFFICES ASSUME NEW k \in 1 .. 2 PROVE e[k] = f[k]
        BY <2>1
      <4>1. k = 1 \/ k = 2
        OBVIOUS
      <4> QED  BY <3>4, <4>1
    <3>3. e = f
      BY <2>1, <3>1, <3>2, SeqEqual
    <3> QED  BY <3>3
  <2> QED  BY <1>3, <2>2
<1> QED  BY <1>1, <1>2, <1>3

\* The code of a text, with a character of it singled out.
LEMMA Around ==
    ASSUME NEW s \in Seq(Simple), NEW c \in Simple, NEW t \in Seq(Simple)
    PROVE  /\ EncodedText(s) \in Seq(Byte) /\ EncodedText(t) \in Seq(Byte) /\ Encoded(c) \in Seq(Byte)
           /\ EncodedText(s) \o EncodedText(<<c>> \o t) = EncodedText(s) \o (Encoded(c) \o EncodedText(t))
           /\ EncodedText(Append(s, c)) \o EncodedText(t) = EncodedText(s) \o (Encoded(c) \o EncodedText(t))
           /\ Len(EncodedText(Append(s, c))) = Len(EncodedText(s)) + Bytes[c]
           /\ <<c>> \o t \in Seq(Simple) /\ Append(s, c) \in Seq(Simple)
<1>1. EncodedText(s) \in Seq(Byte) /\ EncodedText(t) \in Seq(Byte)
      /\ Encoded(c) \in Seq(Byte) /\ Len(Encoded(c)) = Bytes[c]
  BY EncodedOn, OneEncoded
<1>2. EncodedText(<<c>> \o t) = Encoded(c) \o EncodedText(t)
  BY EncodedFirst
<1>3. EncodedText(Append(s, c)) = EncodedText(s) \o Encoded(c)
  BY EncodedOn
<1>4. (EncodedText(s) \o Encoded(c)) \o EncodedText(t) = EncodedText(s) \o (Encoded(c) \o EncodedText(t))
  <2> PICK x \in Seq(Byte), y \in Seq(Byte), z \in Seq(Byte) :
            x = EncodedText(s) /\ y = Encoded(c) /\ z = EncodedText(t)
    BY <1>1
  <2>1. (x \o y) \o z = x \o (y \o z)
    BY ConcatAssociative
  <2> QED  BY <2>1, Zenon
<1>5. Len(EncodedText(s) \o Encoded(c)) = Len(EncodedText(s)) + Bytes[c]
  <2> PICK x \in Seq(Byte), y \in Seq(Byte) : x = EncodedText(s) /\ y = Encoded(c)
    BY <1>1
  <2>1. Len(x \o y) = Len(x) + Len(y)
    OBVIOUS
  <2> QED  BY <1>1, <2>1
<1>6. <<c>> \o t \in Seq(Simple) /\ Append(s, c) \in Seq(Simple)
  OBVIOUS
<1> QED  BY <1>1, <1>2, <1>3, <1>4, <1>5, <1>6, Zenon

LEMMA NoBytes ==
    ASSUME NEW s \in Seq(Simple)
    PROVE  Len(EncodedText(s)) \in Nat /\ (Len(EncodedText(s)) = 0 <=> s = <<>>)
<1>1. EncodedText(s) \in Seq(Byte) /\ EncodedText(<<>>) = <<>>
  BY EncodedOn
<1>2. CASE s = <<>>
  BY <1>1, <1>2
<1>3. CASE s # <<>>
  <2>1. PICK u \in Seq(Simple), c \in Simple : s = Append(u, c)
    BY <1>3, LastIs
  <2>2. <<>> \in Seq(Simple)
    OBVIOUS
  <2>3. Len(EncodedText(s)) = Len(EncodedText(u)) + Bytes[c] /\ EncodedText(u) \in Seq(Byte) /\ Bytes[c] \in 1 .. 2
    BY <2>1, <2>2, Around, OneEncoded
  <2>4. PICK m \in Nat : m = Len(EncodedText(u))
    BY <2>3
  <2> QED  BY <1>1, <1>3, <2>3, <2>4
<1> QED  BY <1>2, <1>3

\* What is before the cursor, and behind it.
LEMMA CodedIs ==
    ASSUME NEW s \in Seq(Simple), NEW t \in Seq(Simple), NEW g, Coded(g, s, t)
    PROVE  /\ Characters(SubSeq(g.chars, 1, g.gapPos)) = s
           /\ Characters(SubSeq(g.chars, g.gapPos + g.gapLen + 1, Len(g.chars))) = t
           /\ AtStart(g) <=> s = <<>>
           /\ AtEnd(g) <=> t = <<>>
<1> PICK a \in Seq(Byte), b \in Seq(Byte) : a = EncodedText(s) /\ b = EncodedText(t)
  BY EncodedOn
<1>1. Holds(g, a \o b, Len(a))
  BY DEF Coded
<1>2. SubSeq(a \o b, 1, Len(a)) = a /\ SubSeq(a \o b, Len(a) + 1, Len(a \o b)) = b
      /\ Len(a \o b) = Len(a) + Len(b) /\ Len(a) \in Nat /\ Len(b) \in Nat
  BY ByteIsCell, Halves, JoinedIs
<1>3. /\ SubSeq(g.chars, 1, g.gapPos) = a
      /\ SubSeq(g.chars, g.gapPos + g.gapLen + 1, Len(g.chars)) = b
      /\ AtEnd(g) <=> Len(a) = Len(a \o b)
      /\ AtStart(g) <=> Len(a) = 0
  <2> PICK u, m : u = a \o b /\ m = Len(a)
    OBVIOUS
  <2>1. Holds(g, u, m)
    BY <1>1
  <2>2. /\ SubSeq(g.chars, 1, g.gapPos) = SubSeq(u, 1, m)
        /\ SubSeq(g.chars, g.gapPos + g.gapLen + 1, Len(g.chars)) = SubSeq(u, m + 1, Len(u))
        /\ AtEnd(g) <=> m = Len(u)
        /\ AtStart(g) <=> m = 0
    BY <2>1, ReadIs
  <2> QED  BY <1>2, <2>2, Zenon
<1>4. Characters(a) = s /\ Characters(b) = t
  BY Decoded
<1>5. (Len(a) = 0 <=> s = <<>>) /\ (Len(b) = 0 <=> t = <<>>)
  BY NoBytes
<1>6. Len(a) = Len(a \o b) <=> Len(b) = 0
  <2> PICK m \in Nat, k \in Nat : m = Len(a) /\ k = Len(b)
    BY <1>2
  <2>1. Len(a \o b) = m + k
    BY <1>2
  <2>2. m = m + k <=> k = 0
    OBVIOUS
  <2> QED  BY <2>1, <2>2
<1> QED  BY <1>3, <1>4, <1>5, <1>6, Zenon

LEMMA Within3 ==
    ASSUME NEW a \in Seq(Byte), NEW e \in Seq(Byte), NEW b \in Seq(Byte)
    PROVE  /\ a \o (e \o b) \in Seq(Byte) /\ Len(a \o (e \o b)) = Len(a) + Len(e) + Len(b)
           /\ \A k \in 1 .. Len(e) : (a \o (e \o b))[Len(a) + k] = e[k]
<1>1. a \in Seq(Cell) /\ e \in Seq(Cell) /\ b \in Seq(Cell)
  BY ByteIsCell
<1>2. e \o b \in Seq(Byte) /\ a \o (e \o b) \in Seq(Byte)
  <2>1. e \o b \in Seq(Byte)
    OBVIOUS
  <2> QED  BY <2>1
<1> PICK u \in Seq(Byte) : u = e \o b
  BY <1>2
<1>3. u \in Seq(Cell) /\ Len(u) = Len(e) + Len(b) /\ \A k \in 1 .. Len(e) : u[k] = e[k]
  BY <1>1, JoinedIs
<1> PICK v : v = a \o u
  OBVIOUS
<1>4. Len(v) = Len(a) + Len(u) /\ \A k \in 1 .. Len(u) : v[Len(a) + k] = u[k]
  BY <1>1, <1>3, JoinedIs
<1>5. v \in Seq(Byte)
  BY <1>2
<1> PICK i \in Nat, j \in Nat, m \in Nat : i = Len(a) /\ j = Len(e) /\ m = Len(b)
  OBVIOUS
<1>6. Len(v) = i + j + m
  BY <1>3, <1>4
<1>7. ASSUME NEW k \in 1 .. j PROVE v[i + k] = e[k]
  <2>1. k \in 1 .. j + m
    OBVIOUS
  <2> QED  BY <1>3, <1>4, <2>1
<1> QED  BY <1>5, <1>6, <1>7

\* The first byte behind the cursor, or the last one before it, tells the character.
LEMMA CharAfterIs ==
    ASSUME NEW s \in Seq(Simple), NEW c \in Simple, NEW t \in Seq(Simple), NEW g, Coded(g, s, <<c>> \o t)
    PROVE  ~AtEnd(g) /\ CharAfter(g) = c
<1> PICK a \in Seq(Byte), e \in Seq(Byte), b \in Seq(Byte) :
          a = EncodedText(s) /\ e = Encoded(c) /\ b = EncodedText(t)
  BY Around
<1> PICK u : u = a \o (e \o b)
  OBVIOUS
<1> PICK n \in Nat : n = Len(a)
  OBVIOUS
<1>1. Holds(g, u, n)
  BY Around DEF Coded
<1> PICK j \in 1 .. 2 : j = Bytes[c]
  BY OneEncoded
<1>2. Len(e) = j /\ \A k \in 1 .. j : e[k] = <<c, k>>
  BY OneEncoded
<1>3. e[1] = <<c, 1>>
  <2>1. 1 \in 1 .. j
    OBVIOUS
  <2> QED  BY <1>2, <2>1
<1>4. n < Len(u) /\ u[n + 1] = e[1]
  <2>1. Len(u) = n + Len(e) + Len(b) /\ \A k \in 1 .. Len(e) : u[n + k] = e[k]
    BY Within3
  <2>2. PICK m \in Nat : m = Len(b)
    OBVIOUS
  <2>3. Len(u) = n + j + m /\ 1 \in 1 .. j /\ n < n + j + m
    BY <1>2, <2>1, <2>2
  <2>4. 1 \in 1 .. Len(e)
    BY <1>2, <2>3
  <2> QED  BY <2>1, <2>3, <2>4
<1>5. NextByte(g) = <<c, 1>>
  <2>1. NextByte(g) = u[n + 1]
    BY <1>1, <1>4, NextIs
  <2> QED  BY <1>3, <1>4, <2>1
<1>6. ~AtEnd(g)
  <2>1. AtEnd(g) <=> n = Len(u)
    BY <1>1, ReadIs
  <2> QED  BY <1>4, <2>1
<1> QED  BY <1>5, <1>6 DEF CharAfter

LEMMA CharBeforeIs ==
    ASSUME NEW s \in Seq(Simple), NEW c \in Simple, NEW t \in Seq(Simple), NEW g, Coded(g, Append(s, c), t)
    PROVE  ~AtStart(g) /\ CharBefore(g) = c
<1>0. \A u, p : Holds(g, u, p) /\ p > 0 => g.chars[ByteBefore(g) + 1] = u[p]
  BY BeforeIs
<1> PICK a \in Seq(Byte), e \in Seq(Byte), b \in Seq(Byte) :
          a = EncodedText(s) /\ e = Encoded(c) /\ b = EncodedText(t)
  BY Around
<1> PICK u : u = a \o (e \o b)
  OBVIOUS
<1> PICK n \in Nat : n = Len(a)
  OBVIOUS
<1> PICK j \in 1 .. 2 : j = Bytes[c]
  BY OneEncoded
<1>2. Len(e) = j /\ \A k \in 1 .. j : e[k] = <<c, k>>
  BY OneEncoded
<1> PICK p \in Nat : p = n + j
  OBVIOUS
<1>1. Holds(g, u, p)
  BY Around DEF Coded
<1>3. e[j] = <<c, j>>
  <2>1. j \in 1 .. j
    OBVIOUS
  <2> QED  BY <1>2, <2>1
<1>4. p > 0 /\ u[p] = e[j]
  <2>1. \A k \in 1 .. Len(e) : u[n + k] = e[k]
    BY Within3
  <2>2. j \in 1 .. j /\ n + j > 0
    OBVIOUS
  <2>3. u[n + j] = e[j]
    BY <1>2, <2>1, <2>2
  <2> QED  BY <2>2, <2>3
<1>5. g.chars[ByteBefore(g) + 1] = <<c, j>>
  <2>0. p > 0
    BY <1>4
  <2>1. g.chars[ByteBefore(g) + 1] = u[p]
    BY <1>0, <1>1, <2>0
  <2> QED  BY <1>3, <1>4, <2>1
<1>6. ~AtStart(g)
  <2>1. AtStart(g) <=> p = 0
    BY <1>1, ReadIs
  <2> QED  BY <1>4, <2>1
<1> QED  BY <1>5, <1>6 DEF CharBefore

LEMMA MoveRightIs ==
    ASSUME NEW s \in Seq(Simple), NEW c \in Simple, NEW t \in Seq(Simple), NEW g, Coded(g, s, <<c>> \o t)
    PROVE  Coded(MoveRight(g), Append(s, c), t)
<1> PICK a \in Seq(Byte), e \in Seq(Byte), b \in Seq(Byte) :
          a = EncodedText(s) /\ e = Encoded(c) /\ b = EncodedText(t)
  BY Around
<1> PICK u : u = a \o (e \o b)
  OBVIOUS
<1> PICK n \in Nat : n = Len(a)
  OBVIOUS
<1>1. Holds(g, u, n)
  BY Around DEF Coded
<1>2. Len(e) = Bytes[c] /\ Bytes[c] \in 1 .. 2
  BY OneEncoded
<1>3. Len(u) \in Nat /\ n + Bytes[c] <= Len(u)
  <2>1. u \in Seq(Byte) /\ Len(u) = n + Len(e) + Len(b)
    BY Within3
  <2>2. PICK j \in Nat, m \in Nat : j = Len(e) /\ m = Len(b)
    OBVIOUS
  <2>3. Len(u) = n + j + m /\ Bytes[c] = j
    BY <1>2, <2>1, <2>2, Zenon
  <2>4. n + j + m \in Nat /\ n + j <= n + j + m
    OBVIOUS
  <2> QED  BY <2>3, <2>4, Zenon
<1>4. Holds(MoveRight(g), u, n + Bytes[c])
  <2>1. MoveRight(g) = Times(RightByte, g, Bytes[c])
    BY CharAfterIs DEF MoveRight
  <2>2. Holds(RightByte(g), u, n + 1)
    <3>1. n < Len(u)
      BY <1>2, <1>3
    <3> QED  BY <1>1, <3>1, RightByteHolds
  <2>3. CASE Bytes[c] = 1
    BY <2>1, <2>2, <2>3 DEF Times
  <2>4. CASE Bytes[c] = 2
    <3>1. PICK m \in Nat : m = n + 1
      OBVIOUS
    <3>2. m < Len(u) /\ m + 1 = n + 2
      BY <1>3, <2>4, <3>1
    <3>3. Holds(RightByte(RightByte(g)), u, m + 1)
      BY <2>2, <3>1, <3>2, RightByteHolds
    <3>4. MoveRight(g) = RightByte(RightByte(g))
      BY <2>1, <2>4 DEF Times
    <3> QED  BY <2>4, <3>2, <3>3, <3>4
  <2> QED  BY <1>2, <2>3, <2>4
<1> QED  BY <1>4, Around DEF Coded

LEMMA MoveLeftIs ==
    ASSUME NEW s \in Seq(Simple), NEW c \in Simple, NEW t \in Seq(Simple), NEW g, Coded(g, Append(s, c), t)
    PROVE  Coded(MoveLeft(g), s, <<c>> \o t)
<1> PICK a \in Seq(Byte), e \in Seq(Byte), b \in Seq(Byte) :
          a = EncodedText(s) /\ e = Encoded(c) /\ b = EncodedText(t)
  BY Around
<1> PICK u : u = a \o (e \o b)
  OBVIOUS
<1> PICK n \in Nat : n = Len(a)
  OBVIOUS
<1>2. Bytes[c] \in 1 .. 2
  BY OneEncoded
<1>1. Holds(g, u, n + Bytes[c])
  BY Around DEF Coded
<1>4. Holds(MoveLeft(g), u, n)
  <2>1. MoveLeft(g) = Times(LeftByte, g, Bytes[c])
    BY CharBeforeIs DEF MoveLeft
  <2>3. CASE Bytes[c] = 1
    <3>1. PICK m \in Nat : m = n + 1
      OBVIOUS
    <3>2. m > 0 /\ m - 1 = n
      BY <3>1
    <3>3. Holds(LeftByte(g), u, m - 1)
      BY <1>1, <2>3, <3>1, <3>2, LeftByteHolds
    <3>4. MoveLeft(g) = LeftByte(g)
      BY <2>1, <2>3 DEF Times
    <3> QED  BY <3>2, <3>3, <3>4
  <2>4. CASE Bytes[c] = 2
    <3>1. PICK m \in Nat, k \in Nat : m = n + 2 /\ k = n + 1
      OBVIOUS
    <3>2. m > 0 /\ m - 1 = k /\ k > 0 /\ k - 1 = n
      BY <3>1
    <3>3. Holds(LeftByte(g), u, m - 1)
      BY <1>1, <2>4, <3>1, <3>2, LeftByteHolds
    <3>4. Holds(LeftByte(LeftByte(g)), u, k - 1)
      BY <3>2, <3>3, LeftByteHolds
    <3>5. MoveLeft(g) = LeftByte(LeftByte(g))
      BY <2>1, <2>4 DEF Times
    <3> QED  BY <3>2, <3>4, <3>5
  <2> QED  BY <1>2, <2>3, <2>4
<1> QED  BY <1>4, Around DEF Coded

\* The text without the character whose code is e.
LEMMA WithoutTwo ==
    ASSUME NEW a \in Seq(Byte), NEW b \in Seq(Byte), NEW x \in Byte, NEW y \in Byte
    PROVE  /\ Without(a \o ((<<x>> \o <<y>>) \o b), Len(a) + 1) = a \o (<<y>> \o b)
           /\ Without(a \o ((<<x>> \o <<y>>) \o b), Len(a) + 2) = a \o (<<x>> \o b)
<1> PICK p \in Seq(Byte), q \in Seq(Byte) : p = <<x>> /\ q = <<y>>
  <2>1. <<x>> \in Seq(Byte) /\ <<y>> \in Seq(Byte)
    OBVIOUS
  <2> QED  BY <2>1, Zenon
<1>1. (p \o q) \o b = p \o (q \o b)
  BY ConcatAssociative
<1>2. q \o b \in Seq(Byte) /\ a \o p \in Seq(Byte) /\ Len(a \o p) = Len(a) + 1
  <2>1. Len(p) = 1
    OBVIOUS
  <2> QED  BY <2>1
<1>3. Without(a \o (p \o (q \o b)), Len(a) + 1) = a \o (q \o b)
  BY <1>2, WithoutOne
<1>4. a \o (p \o (q \o b)) = (a \o p) \o (q \o b)
  BY <1>2, ConcatAssociative
<1>5. Without((a \o p) \o (q \o b), Len(a \o p) + 1) = (a \o p) \o b
  BY <1>2, WithoutOne
<1>6. (a \o p) \o b = a \o (p \o b) /\ Len(a \o p) + 1 = Len(a) + 2
  BY <1>2, ConcatAssociative
<1> QED  BY <1>1, <1>3, <1>4, <1>5, <1>6, Zenon

LEMMA EraseRightIs ==
    ASSUME NEW s \in Seq(Simple), NEW c \in Simple, NEW t \in Seq(Simple), NEW g, Coded(g, s, <<c>> \o t)
    PROVE  Coded(EraseRight(g), s, t)
<1>0. \A r, u, n : Holds(r, u, n) /\ n < Len(u) => Holds(EraseRightByte(r), Without(u, n + 1), n)
  BY EraseRightByteHolds
<1>a. EraseRight(g) = Times(EraseRightByte, g, Bytes[c])
  BY CharAfterIs DEF EraseRight
<1>c. \A a, b \in Seq(Byte), x, y \in Byte :
           Without(a \o ((<<x>> \o <<y>>) \o b), Len(a) + 1) = a \o (<<y>> \o b)
  BY WithoutTwo
<1> PICK a \in Seq(Byte), b \in Seq(Byte) : a = EncodedText(s) /\ b = EncodedText(t)
  BY Around
<1> PICK n \in Nat : n = Len(a)
  OBVIOUS
<1>1. Holds(g, a \o (Encoded(c) \o b), n)
  BY Around DEF Coded
<1>2. PICK x \in Byte, y \in Byte : x = <<c, 1>> /\ y = <<c, 2>>
  <2>1. 1 \in 1 .. 2 /\ 2 \in 1 .. 2
    OBVIOUS
  <2> QED  BY <2>1, Zenon DEF Byte
<1>3. CASE Bytes[c] = 1 /\ Encoded(c) = <<x>>
  <2>1. PICK u : u = a \o (<<x>> \o b)
    OBVIOUS
  <2>2. n < Len(u)
    <3>1. <<x>> \in Seq(Byte) /\ Len(<<x>>) = 1
      OBVIOUS
    <3>2. Len(u) = n + 1 + Len(b) /\ Len(b) \in Nat
      BY <2>1, <3>1, Within3
    <3> QED  BY <3>2
  <2>3. Holds(EraseRightByte(g), Without(u, n + 1), n)
    BY <1>0, <1>1, <1>3, <2>1, <2>2
  <2>4. Without(u, n + 1) = a \o b
    BY <2>1, WithoutOne
  <2>5. EraseRight(g) = EraseRightByte(g)
    BY <1>a, <1>3 DEF Times
  <2> QED  BY <2>3, <2>4, <2>5 DEF Coded
<1>4. CASE Bytes[c] = 2 /\ Encoded(c) = <<x>> \o <<y>>
  <2>1. PICK u, v : u = a \o ((<<x>> \o <<y>>) \o b) /\ v = a \o (<<y>> \o b)
    OBVIOUS
  <2>2. n < Len(u) /\ n < Len(v)
    <3>1. <<y>> \in Seq(Byte) /\ Len(<<y>>) = 1 /\ <<x>> \o <<y>> \in Seq(Byte) /\ Len(<<x>> \o <<y>>) = 2
      OBVIOUS
    <3>2. Len(v) = n + 1 + Len(b) /\ Len(u) = n + 2 + Len(b) /\ Len(b) \in Nat
      BY <2>1, <3>1, Within3
    <3> QED  BY <3>2
  <2>3. Holds(EraseRightByte(g), Without(u, n + 1), n)
    BY <1>0, <1>1, <1>4, <2>1, <2>2
  <2>4. Without(u, n + 1) = v
    <3>1. Without(a \o ((<<x>> \o <<y>>) \o b), Len(a) + 1) = a \o (<<y>> \o b)
      BY <1>c, Zenon
    <3> QED  BY <2>1, <3>1, Zenon
  <2>5. Holds(EraseRightByte(EraseRightByte(g)), Without(v, n + 1), n)
    BY <1>0, <2>2, <2>3, <2>4
  <2>6. Without(v, n + 1) = a \o b
    BY <2>1, WithoutOne
  <2>7. EraseRight(g) = EraseRightByte(EraseRightByte(g))
    BY <1>a, <1>4 DEF Times
  <2> QED  BY <2>5, <2>6, <2>7 DEF Coded
<1> QED  BY <1>2, <1>3, <1>4, OneOrTwo

LEMMA EraseLeftIs ==
    ASSUME NEW s \in Seq(Simple), NEW c \in Simple, NEW t \in Seq(Simple), NEW g, Coded(g, Append(s, c), t)
    PROVE  Coded(EraseLeft(g), s, t)
<1>0. \A r, u, n : Holds(r, u, n) /\ n > 0 => Holds(EraseLeftByte(r), Without(u, n), n - 1)
  BY EraseLeftByteHolds
<1>a. EraseLeft(g) = Times(EraseLeftByte, g, Bytes[c])
  BY CharBeforeIs DEF EraseLeft
<1>c. \A a, b \in Seq(Byte), x, y \in Byte :
           Without(a \o ((<<x>> \o <<y>>) \o b), Len(a) + 2) = a \o (<<x>> \o b)
  BY WithoutTwo
<1> PICK a \in Seq(Byte), b \in Seq(Byte) : a = EncodedText(s) /\ b = EncodedText(t)
  BY Around
<1> PICK n \in Nat : n = Len(a)
  OBVIOUS
<1>1. Holds(g, a \o (Encoded(c) \o b), n + Bytes[c])
  BY Around DEF Coded
<1>2. PICK x \in Byte, y \in Byte : x = <<c, 1>> /\ y = <<c, 2>>
  <2>1. 1 \in 1 .. 2 /\ 2 \in 1 .. 2
    OBVIOUS
  <2> QED  BY <2>1, Zenon DEF Byte
<1>b. /\ n + 1 > 0 /\ (n + 1) - 1 = n
      /\ n + 2 > 0 /\ (n + 2) - 1 = n + 1
  OBVIOUS
<1>3. CASE Bytes[c] = 1 /\ Encoded(c) = <<x>>
  <2>1. PICK u : u = a \o (<<x>> \o b)
    OBVIOUS
  <2>3. Holds(EraseLeftByte(g), Without(u, n + 1), (n + 1) - 1)
    BY <1>0, <1>1, <1>3, <1>b, <2>1
  <2>4. Without(u, n + 1) = a \o b
    BY <2>1, WithoutOne
  <2>5. EraseLeft(g) = EraseLeftByte(g)
    BY <1>a, <1>3 DEF Times
  <2> QED  BY <1>b, <2>3, <2>4, <2>5 DEF Coded
<1>4. CASE Bytes[c] = 2 /\ Encoded(c) = <<x>> \o <<y>>
  <2>1. PICK u, v : u = a \o ((<<x>> \o <<y>>) \o b) /\ v = a \o (<<x>> \o b)
    OBVIOUS
  <2>3. Holds(EraseLeftByte(g), Without(u, n + 2), (n + 2) - 1)
    BY <1>0, <1>1, <1>4, <1>b, <2>1
  <2>4. Without(u, n + 2) = v
    <3>1. Without(a \o ((<<x>> \o <<y>>) \o b), Len(a) + 2) = a \o (<<x>> \o b)
      BY <1>c, Zenon
    <3> QED  BY <2>1, <3>1, Zenon
  <2>5. Holds(EraseLeftByte(EraseLeftByte(g)), Without(v, n + 1), (n + 1) - 1)
    BY <1>0, <1>b, <2>3, <2>4
  <2>6. Without(v, n + 1) = a \o b
    BY <2>1, WithoutOne
  <2>7. EraseLeft(g) = EraseLeftByte(EraseLeftByte(g))
    BY <1>a, <1>4 DEF Times
  <2> QED  BY <1>b, <2>5, <2>6, <2>7 DEF Coded
<1> QED  BY <1>2, <1>3, <1>4, OneOrTwo

LEMMA InsertedIs ==
    ASSUME NEW s \in Seq(Simple), NEW r \in Seq(Simple), NEW t \in Seq(Simple), NEW g, Coded(g, s, t)
    PROVE  Coded(InsertBytes(g, EncodedText(r)), s \o r, t) /\ s \o r \in Seq(Simple)
<1>0. ASSUME NEW u, NEW n, Holds(g, u, n), NEW x \in Seq(Byte)
      PROVE  Holds(InsertBytes(g, x), SubSeq(u, 1, n) \o x \o SubSeq(u, n + 1, Len(u)), n + Len(x))
  BY <1>0, InsertBytesHolds
<1> PICK a \in Seq(Byte), e \in Seq(Byte), b \in Seq(Byte) :
          a = EncodedText(s) /\ e = EncodedText(r) /\ b = EncodedText(t)
  BY EncodedOn
<1>1. Holds(g, a \o b, Len(a))
  BY DEF Coded
<1>2. Holds(InsertBytes(g, e), SubSeq(a \o b, 1, Len(a)) \o e \o SubSeq(a \o b, Len(a) + 1, Len(a \o b)),
            Len(a) + Len(e))
  BY <1>0, <1>1
<1>3. SubSeq(a \o b, 1, Len(a)) = a /\ SubSeq(a \o b, Len(a) + 1, Len(a \o b)) = b
  BY ByteIsCell, Halves
<1>4. Holds(InsertBytes(g, e), (a \o e) \o b, Len(a) + Len(e))
  BY <1>2, <1>3
<1>5. EncodedText(s \o r) = a \o e
  BY EncodedJoined
<1>6. Len(a \o e) = Len(a) + Len(e) /\ s \o r \in Seq(Simple)
  OBVIOUS
<1> QED  BY <1>4, <1>5, <1>6 DEF Coded

LEMMA FreshIs == Coded(Fresh, <<>>, <<>>)
<1> PICK j : j = Junk(BufferSize)
  OBVIOUS
<1>1. j \in Seq(Cell) /\ Len(j) = BufferSize
  BY BufferAssumption, JunkIs
<1>2. Fresh = Gap(j, 0, 0, BufferSize)
  BY DEF Fresh, Gap
<1> PICK t \in Seq(Byte) : t = <<>>
  <2>1. <<>> \in Seq(Byte)
    OBVIOUS
  <2> QED  BY <2>1, Zenon
<1>3. Len(t) = 0
  OBVIOUS
<1>4. Laid(j, BufferSize, t, 0)
  BY <1>1, <1>3, BufferAssumption DEF Laid
<1>5. InPlace(0, 0)
  BY BufferAssumption DEF InPlace, InBuf
<1>6. Holds(Fresh, t, 0)
  BY <1>2, <1>4, <1>5 DEF Holds
<1>7. EncodedText(<<>>) = t /\ t \o t = t
  BY EncodedOn
<1> QED  BY <1>3, <1>6, <1>7 DEF Coded

-------------------------------------------------------------------------------
(* The line: its text, and the context of the cursor. *)

Line(g, w, x, c) == [g |-> g, stringWidth |-> w, cursorX |-> x, context |-> c]

ContextAt(s) == Scanned(NoContext, NONE, s)

LineIs(l, s, t) == \E g, w, x : l = Line(g, w, x, ContextAt(s)) /\ Coded(g, s, t)

LEMMA FieldsOf ==
    ASSUME NEW g, NEW w, NEW x, NEW c
    PROVE  /\ Line(g, w, x, c).g = g /\ Line(g, w, x, c).stringWidth = w
           /\ Line(g, w, x, c).cursorX = x /\ Line(g, w, x, c).context = c
BY DEF Line

\* What the cursor stands behind, and in front of.
LEMMA PriorIs ==
    ASSUME NEW s \in Seq(Simple), NEW t \in Seq(Simple), NEW g, Coded(g, s, t)
    PROVE  /\ CharBefore(g) = IF s = <<>> THEN NONE ELSE Last(s)
           /\ CharBefore(g) \in Simple \cup {NONE}
           /\ CharAfter(g) = IF t = <<>> THEN NONE ELSE Head(t)
           /\ CharAfter(g) \in Simple \cup {NONE}
<1>1. /\ CharBefore(g) = IF s = <<>> THEN NONE ELSE Last(s)
      /\ CharBefore(g) \in Simple \cup {NONE}
  <2>1. CASE s = <<>>
    <3>1. AtStart(g)
      BY <2>1, CodedIs
    <3> QED  BY <2>1, <3>1 DEF CharBefore
  <2>2. CASE s # <<>>
    <3>1. PICK u \in Seq(Simple), c \in Simple : s = Append(u, c)
      BY <2>2, LastIs
    <3>2. CharBefore(g) = c
      BY <3>1, CharBeforeIs
    <3>3. Last(Append(u, c)) = c
      BY DEF Last
    <3> QED  BY <2>2, <3>1, <3>2, <3>3
  <2> QED  BY <2>1, <2>2
<1>2. /\ CharAfter(g) = IF t = <<>> THEN NONE ELSE Head(t)
      /\ CharAfter(g) \in Simple \cup {NONE}
  <2>1. CASE t = <<>>
    <3>1. AtEnd(g)
      BY <2>1, CodedIs
    <3> QED  BY <2>1, <3>1 DEF CharAfter
  <2>2. CASE t # <<>>
    <3>1. PICK u \in Seq(Simple), c \in Simple : t = <<c>> \o u
      BY <2>2, HeadIs
    <3>2. CharAfter(g) = c
      BY <3>1, CharAfterIs
    <3>3. Head(<<c>> \o u) = c
      OBVIOUS
    <3> QED  BY <2>2, <3>1, <3>2, <3>3
  <2> QED  BY <2>1, <2>2
<1> QED  BY <1>1, <1>2

LEMMA ContextOn ==
    ASSUME NEW s \in Seq(Simple)
    PROVE  /\ ContextAt(<<>>) = NoContext
           /\ ContextAt(s) \in Contexts /\ Sound(ContextAt(s))
           /\ \A c \in Simple : ContextAt(Append(s, c)) = UpdateForward(ContextAt(s), c, NONE)
<1>1. NoContext \in Contexts /\ NONE \in Simple \cup {NONE}
  BY NoContextIs
<1>2. /\ Scanned(NoContext, NONE, <<>>) = NoContext
      /\ \A c \in Simple :
            Scanned(NoContext, NONE, Append(s, c)) = UpdateForward(Scanned(NoContext, NONE, s), c, NONE)
  BY <1>1, ScannedOn
<1>3. Scanned(NoContext, NONE, s) \in Contexts /\ Sound(Scanned(NoContext, NONE, s))
  BY ScannedSound
<1> QED  BY <1>2, <1>3 DEF ContextAt

\* insertText.
LEMMA InsertTextIs ==
    ASSUME NEW s \in Seq(Simple), NEW t \in Seq(Simple), NEW l, LineIs(l, s, t), NEW r \in Seq(Simple)
    PROVE  LineIs(InsertText(l, r), s \o r, t) /\ s \o r \in Seq(Simple)
<1>1. PICK g, w, x : l = Line(g, w, x, ContextAt(s)) /\ Coded(g, s, t)
  BY DEF LineIs
<1>2. l.g = g /\ l.context = ContextAt(s)
  BY <1>1, FieldsOf
<1>3. Coded(InsertBytes(g, EncodedText(r)), s \o r, t) /\ s \o r \in Seq(Simple)
  BY <1>1, InsertedIs
<1>4. ContextAt(s \o r) = Scanned(ContextAt(s), CharBefore(g), r)
  <2>1. NoContext \in Contexts /\ NONE \in Simple \cup {NONE} /\ CharBefore(g) \in Simple \cup {NONE}
    BY <1>1, NoContextIs, PriorIs
  <2> QED  BY <2>1, ScannedJoined DEF ContextAt
<1>5. InsertText(l, r) = Line(InsertBytes(g, EncodedText(r)), l.stringWidth + Total(r), l.cursorX + Total(r),
                              ContextAt(s \o r))
  BY <1>2, <1>4 DEF InsertText, Line
<1> QED  BY <1>3, <1>5 DEF LineIs

LEMMA InsertOneIs ==
    ASSUME NEW s \in Seq(Simple), NEW t \in Seq(Simple), NEW l, LineIs(l, s, t), NEW c \in Simple
    PROVE  LineIs(InsertOne(l, c), Append(s, c), t) /\ Append(s, c) \in Seq(Simple)
<1>1. PICK g, w, x : l = Line(g, w, x, ContextAt(s)) /\ Coded(g, s, t)
  BY DEF LineIs
<1>2. l.g = g /\ l.context = ContextAt(s)
  BY <1>1, FieldsOf
<1> PICK h : h = InsertChar(g, c)
  OBVIOUS
<1>3. Coded(h, Append(s, c), t) /\ Append(s, c) \in Seq(Simple)
  <2>1. <<c>> \in Seq(Simple) /\ s \o <<c>> = Append(s, c)
    OBVIOUS
  <2>2. <<>> \in Seq(Simple)
    OBVIOUS
  <2>3. EncodedText(<<c>>) = Encoded(c)
    BY <2>2, EncodedFirst
  <2>4. Coded(InsertBytes(g, EncodedText(<<c>>)), s \o <<c>>, t)
    BY <1>1, <2>1, InsertedIs
  <2>5. h = InsertBytes(g, EncodedText(<<c>>))
    BY <2>3, Zenon DEF InsertChar
  <2>6. Append(s, c) \in Seq(Simple)
    OBVIOUS
  <2> QED  BY <2>1, <2>4, <2>5, <2>6, Zenon
<1>4. ContextAt(Append(s, c)) = UpdateForward(ContextAt(s), c, CharBefore(h))
  <2>1. CharBefore(h) \in Simple \cup {NONE}
    BY <1>3, PriorIs
  <2>2. UpdateForward(ContextAt(s), c, CharBefore(h)) = UpdateForward(ContextAt(s), c, NONE)
    BY <2>1, NoPrior DEF UpdateForward
  <2> QED  BY <2>2, ContextOn
<1>5. InsertOne(l, c) = Line(h, l.stringWidth + Width[c], l.cursorX + Width[c], ContextAt(Append(s, c)))
  BY <1>2, <1>4 DEF InsertOne, Line
<1> QED  BY <1>3, <1>5 DEF LineIs

LEMMA ClearedIs ==
    ASSUME NEW l
    PROVE  LineIs(Cleared(l), <<>>, <<>>)
<1>1. ContextAt(<<>>) = NoContext
  <2>1. <<>> \in Seq(Simple)
    OBVIOUS
  <2> QED  BY <2>1, ContextOn
<1>2. Cleared(l) = Line(Fresh, 0, 0, ContextAt(<<>>))
  BY <1>1 DEF Cleared, Line
<1> QED  BY <1>2, FreshIs DEF LineIs

Moved(l, g, x, c) == [[[l EXCEPT !.g = g] EXCEPT !.cursorX = x] EXCEPT !.context = c]
Shortened(l, g, w) == [[l EXCEPT !.g = g] EXCEPT !.stringWidth = w]

LEMMA MovedIs ==
    ASSUME NEW g, NEW w, NEW x, NEW c, NEW a, NEW b, NEW d
    PROVE  Moved(Line(g, w, x, c), a, b, d) = Line(a, w, b, d)
<1>1. /\ [Line(g, w, x, c) EXCEPT !.g = a] = Line(a, w, x, c)
      /\ [Line(a, w, x, c) EXCEPT !.cursorX = b] = Line(a, w, b, c)
      /\ [Line(a, w, b, c) EXCEPT !.context = d] = Line(a, w, b, d)
  BY DEF Line
<1> QED  BY <1>1, Zenon DEF Moved

LEMMA ShortenedIs ==
    ASSUME NEW g, NEW w, NEW x, NEW c, NEW a, NEW b
    PROVE  Shortened(Line(g, w, x, c), a, b) = Line(a, b, x, c)
<1>1. /\ [Line(g, w, x, c) EXCEPT !.g = a] = Line(a, w, x, c)
      /\ [Line(a, w, x, c) EXCEPT !.stringWidth = b] = Line(a, b, x, c)
  BY DEF Line
<1> QED  BY <1>1, Zenon DEF Shortened

\* With nothing before the cursor, or behind it, there is no character.
LEMMA NothingThere ==
    ASSUME NEW s \in Seq(Simple), NEW g
    PROVE  /\ Coded(g, s, <<>>) => CharAfter(g) = NONE
           /\ Coded(g, <<>>, s) => CharBefore(g) = NONE
<1> PICK z \in Seq(Simple) : z = <<>>
  <2>1. <<>> \in Seq(Simple)
    OBVIOUS
  <2> QED  BY <2>1, Zenon
<1>1. Coded(g, s, z) => CharAfter(g) = NONE
  BY PriorIs
<1>2. Coded(g, z, s) => CharBefore(g) = NONE
  BY PriorIs
<1> QED  BY <1>1, <1>2

\* LEFT and RIGHT, with a character to go over and without.
LEMMA MoveForwardIs ==
    ASSUME NEW s \in Seq(Simple), NEW t \in Seq(Simple), NEW l
    PROVE  /\ LineIs(l, s, <<>>) => MoveForward(l) = l
           /\ \A c \in Simple : LineIs(l, s, <<c>> \o t) => LineIs(MoveForward(l), Append(s, c), t)
<1>1. ASSUME LineIs(l, s, <<>>) PROVE MoveForward(l) = l
  <2>1. PICK g, w, x : l = Line(g, w, x, ContextAt(s)) /\ Coded(g, s, <<>>)
    BY <1>1 DEF LineIs
  <2>2. CharAfter(g) = NONE /\ l.g = g
    BY <2>1, NothingThere, FieldsOf
  <2> QED  BY <2>2 DEF MoveForward
<1>2. ASSUME NEW c \in Simple, LineIs(l, s, <<c>> \o t) PROVE LineIs(MoveForward(l), Append(s, c), t)
  <2>1. PICK g, w, x : l = Line(g, w, x, ContextAt(s)) /\ Coded(g, s, <<c>> \o t)
    BY <1>2 DEF LineIs
  <2>2. l.g = g /\ l.context = ContextAt(s) /\ CharAfter(g) = c /\ c # NONE
    <3>1. c # NONE
      BY SimpleIs
    <3> QED  BY <2>1, <3>1, FieldsOf, CharAfterIs
  <2>3. Coded(MoveRight(g), Append(s, c), t) /\ Append(s, c) \in Seq(Simple)
    BY <2>1, MoveRightIs, Around
  <2>4. UpdateForward(ContextAt(s), c, CharBefore(MoveRight(g))) = ContextAt(Append(s, c))
    <3>1. CharBefore(MoveRight(g)) \in Simple \cup {NONE}
      BY <2>3, PriorIs
    <3>2. UpdateForward(ContextAt(s), c, CharBefore(MoveRight(g))) = UpdateForward(ContextAt(s), c, NONE)
      BY <3>1, NoPrior DEF UpdateForward
    <3> QED  BY <3>2, ContextOn
  <2> DEFINE b == l.cursorX + Width[c]
             d == UpdateForward(l.context, c, CharBefore(MoveRight(g)))
  <2>5. MoveForward(l) = Moved(l, MoveRight(g), b, d)
    BY <2>2 DEF MoveForward, Moved
  <2>6. d = ContextAt(Append(s, c))
    BY <2>2, <2>4, Zenon
  <2> HIDE DEF b, d
  <2>7. MoveForward(l) = Line(MoveRight(g), w, b, ContextAt(Append(s, c)))
    BY <2>1, <2>5, <2>6, MovedIs
  <2> QED  BY <2>3, <2>7 DEF LineIs
<1> QED  BY <1>1, <1>2

\* Going back, the context is the one before the character.
LEMMA BackIs ==
    ASSUME NEW s \in Seq(Simple), NEW t \in Seq(Simple), NEW c \in Simple, NEW h, Coded(h, s, t)
    PROVE  UpdateBackward(ContextAt(Append(s, c)), c, CharBefore(h)) = ContextAt(s)
<1>1. CharBefore(h) \in Simple \cup {NONE}
  BY PriorIs
<1>2. UpdateBackward(ContextAt(Append(s, c)), c, CharBefore(h)) = UpdateBackward(ContextAt(Append(s, c)), c, NONE)
  BY <1>1, NoPrior DEF UpdateBackward
<1>3. ContextAt(Append(s, c)) = UpdateForward(ContextAt(s), c, NONE) /\ ContextAt(s) \in Contexts /\ Sound(ContextAt(s))
  BY ContextOn
<1>4. UpdateBackward(UpdateForward(ContextAt(s), c, NONE), c, NONE) = ContextAt(s)
  BY <1>3, Undone
<1> QED  BY <1>2, <1>3, <1>4

LEMMA MoveBackwardIs ==
    ASSUME NEW s \in Seq(Simple), NEW t \in Seq(Simple), NEW l
    PROVE  /\ LineIs(l, <<>>, t) => MoveBackward(l) = l
           /\ \A c \in Simple : LineIs(l, Append(s, c), t) => LineIs(MoveBackward(l), s, <<c>> \o t)
<1>1. ASSUME LineIs(l, <<>>, t) PROVE MoveBackward(l) = l
  <2>1. PICK g, w, x : l = Line(g, w, x, ContextAt(<<>>)) /\ Coded(g, <<>>, t)
    BY <1>1 DEF LineIs
  <2>2. CharBefore(g) = NONE /\ l.g = g
    BY <2>1, NothingThere, FieldsOf
  <2> QED  BY <2>2 DEF MoveBackward
<1>2. ASSUME NEW c \in Simple, LineIs(l, Append(s, c), t) PROVE LineIs(MoveBackward(l), s, <<c>> \o t)
  <2>1. PICK g, w, x : l = Line(g, w, x, ContextAt(Append(s, c))) /\ Coded(g, Append(s, c), t)
    BY <1>2 DEF LineIs
  <2>2. l.g = g /\ l.context = ContextAt(Append(s, c)) /\ CharBefore(g) = c /\ c # NONE
    <3>1. c # NONE
      BY SimpleIs
    <3> QED  BY <2>1, <3>1, FieldsOf, CharBeforeIs
  <2>3. Coded(MoveLeft(g), s, <<c>> \o t) /\ <<c>> \o t \in Seq(Simple)
    BY <2>1, MoveLeftIs, Around
  <2>4. UpdateBackward(ContextAt(Append(s, c)), c, CharBefore(MoveLeft(g))) = ContextAt(s)
    BY <2>3, BackIs
  <2> DEFINE b == l.cursorX - Width[c]
             d == UpdateBackward(l.context, c, CharBefore(MoveLeft(g)))
  <2>5. MoveBackward(l) = Moved(l, MoveLeft(g), b, d)
    BY <2>2 DEF MoveBackward, Moved
  <2>6. d = ContextAt(s)
    BY <2>2, <2>4, Zenon
  <2> HIDE DEF b, d
  <2>7. MoveBackward(l) = Line(MoveLeft(g), w, b, ContextAt(s))
    BY <2>1, <2>5, <2>6, MovedIs
  <2> QED  BY <2>3, <2>7 DEF LineIs
<1> QED  BY <1>1, <1>2

\* BS and DEL.
LEMMA EraseBackwardIs ==
    ASSUME NEW s \in Seq(Simple), NEW t \in Seq(Simple), NEW l
    PROVE  /\ LineIs(l, <<>>, t) => EraseBackward(l) = l
           /\ \A c \in Simple : LineIs(l, Append(s, c), t) => LineIs(EraseBackward(l), s, t)
<1>1. ASSUME LineIs(l, <<>>, t) PROVE EraseBackward(l) = l
  <2>1. PICK g, w, x : l = Line(g, w, x, ContextAt(<<>>)) /\ Coded(g, <<>>, t)
    BY <1>1 DEF LineIs
  <2>2. CharBefore(g) = NONE /\ l.g = g
    BY <2>1, NothingThere, FieldsOf
  <2> QED  BY <2>2 DEF EraseBackward
<1>2. ASSUME NEW c \in Simple, LineIs(l, Append(s, c), t) PROVE LineIs(EraseBackward(l), s, t)
  <2>1. PICK g, w, x : l = Line(g, w, x, ContextAt(Append(s, c))) /\ Coded(g, Append(s, c), t)
    BY <1>2 DEF LineIs
  <2>2. l.g = g /\ l.context = ContextAt(Append(s, c)) /\ CharBefore(g) = c /\ c # NONE
    <3>1. c # NONE
      BY SimpleIs
    <3> QED  BY <2>1, <3>1, FieldsOf, CharBeforeIs
  <2>3. Coded(EraseLeft(g), s, t)
    BY <2>1, EraseLeftIs
  <2>4. UpdateBackward(ContextAt(Append(s, c)), c, CharBefore(EraseLeft(g))) = ContextAt(s)
    BY <2>3, BackIs
  <2>5. EraseBackward(l) = Line(EraseLeft(g), l.stringWidth - Width[c], l.cursorX - Width[c], ContextAt(s))
    BY <2>2, <2>4 DEF EraseBackward, Line
  <2> QED  BY <2>3, <2>5 DEF LineIs
<1> QED  BY <1>1, <1>2

LEMMA EraseForwardIs ==
    ASSUME NEW s \in Seq(Simple), NEW t \in Seq(Simple), NEW l
    PROVE  /\ LineIs(l, s, <<>>) => EraseForward(l) = l
           /\ \A c \in Simple : LineIs(l, s, <<c>> \o t) => LineIs(EraseForward(l), s, t)
<1>1. ASSUME LineIs(l, s, <<>>) PROVE EraseForward(l) = l
  <2>1. PICK g, w, x : l = Line(g, w, x, ContextAt(s)) /\ Coded(g, s, <<>>)
    BY <1>1 DEF LineIs
  <2>2. CharAfter(g) = NONE /\ l.g = g
    BY <2>1, NothingThere, FieldsOf
  <2> QED  BY <2>2 DEF EraseForward
<1>2. ASSUME NEW c \in Simple, LineIs(l, s, <<c>> \o t) PROVE LineIs(EraseForward(l), s, t)
  <2>1. PICK g, w, x : l = Line(g, w, x, ContextAt(s)) /\ Coded(g, s, <<c>> \o t)
    BY <1>2 DEF LineIs
  <2>2. l.g = g /\ CharAfter(g) = c /\ c # NONE
    <3>1. c # NONE
      BY SimpleIs
    <3> QED  BY <2>1, <3>1, FieldsOf, CharAfterIs
  <2>3. Coded(EraseRight(g), s, t)
    BY <2>1, EraseRightIs
  <2> DEFINE b == l.stringWidth - Width[c]
  <2>5. EraseForward(l) = Shortened(l, EraseRight(g), b)
    BY <2>2 DEF EraseForward, Shortened
  <2> HIDE DEF b
  <2>7. EraseForward(l) = Line(EraseRight(g), b, x, ContextAt(s))
    BY <2>1, <2>5, ShortenedIs
  <2> QED  BY <2>3, <2>7 DEF LineIs
<1> QED  BY <1>1, <1>2

\* Some text, the cursor in it, and the context there.
TextIs(l) == \E s, t \in Seq(Simple) : LineIs(l, s, t)

LEMMA TextStays ==
    ASSUME NEW l, TextIs(l)
    PROVE  /\ \A r \in Seq(Simple) : TextIs(InsertText(l, r))
           /\ \A c \in Simple : TextIs(InsertOne(l, c))
           /\ TextIs(MoveForward(l)) /\ TextIs(MoveBackward(l))
           /\ TextIs(EraseBackward(l)) /\ TextIs(EraseForward(l)) /\ TextIs(Cleared(l))
<1>1. PICK s \in Seq(Simple), t \in Seq(Simple) : LineIs(l, s, t)
  BY DEF TextIs
<1>2. ASSUME NEW r \in Seq(Simple) PROVE TextIs(InsertText(l, r))
  BY <1>1, InsertTextIs DEF TextIs
<1>3. ASSUME NEW c \in Simple PROVE TextIs(InsertOne(l, c))
  BY <1>1, InsertOneIs DEF TextIs
<1>4. TextIs(MoveForward(l)) /\ TextIs(EraseForward(l))
  <2>1. CASE t = <<>>
    <3>1. MoveForward(l) = l /\ EraseForward(l) = l
      BY <1>1, <2>1, MoveForwardIs, EraseForwardIs
    <3> QED  BY <3>1
  <2>2. CASE t # <<>>
    <3>1. PICK u \in Seq(Simple), c \in Simple : t = <<c>> \o u
      BY <2>2, HeadIs
    <3>2. LineIs(l, s, <<c>> \o u)
      BY <1>1, <3>1
    <3>3. LineIs(MoveForward(l), Append(s, c), u) /\ LineIs(EraseForward(l), s, u)
      BY <3>2, MoveForwardIs, EraseForwardIs
    <3>4. Append(s, c) \in Seq(Simple)
      OBVIOUS
    <3> QED  BY <3>3, <3>4 DEF TextIs
  <2> QED  BY <2>1, <2>2
<1>5. TextIs(MoveBackward(l)) /\ TextIs(EraseBackward(l))
  <2>1. CASE s = <<>>
    <3>1. MoveBackward(l) = l /\ EraseBackward(l) = l
      BY <1>1, <2>1, MoveBackwardIs, EraseBackwardIs
    <3> QED  BY <3>1
  <2>2. CASE s # <<>>
    <3>1. PICK u \in Seq(Simple), c \in Simple : s = Append(u, c)
      BY <2>2, LastIs
    <3>2. LineIs(l, Append(u, c), t)
      BY <1>1, <3>1
    <3>3. LineIs(MoveBackward(l), u, <<c>> \o t) /\ LineIs(EraseBackward(l), u, t)
      BY <3>2, MoveBackwardIs, EraseBackwardIs
    <3>4. <<c>> \o t \in Seq(Simple)
      OBVIOUS
    <3> QED  BY <3>3, <3>4 DEF TextIs
  <2> QED  BY <2>1, <2>2
<1>6. TextIs(Cleared(l))
  <2>1. LineIs(Cleared(l), <<>>, <<>>) /\ <<>> \in Seq(Simple)
    BY ClearedIs
  <2> QED  BY <2>1 DEF TextIs
<1> QED  BY <1>2, <1>3, <1>4, <1>5, <1>6

TapIs == tap.string \in Seq(Simple) /\ tap.index \in 0 .. Len(tap.string)
ModeIs == kbdMode \in SUBSET {"SHIFT", "ALPHA", "META"}

\* Until a backslash is written the text is coded in the chain, with the gap at the cursor
\* and where gapBuf says; the context is the one there, and the last tap is one of its
\* key's characters.
LineInv == ("\\" \notin astray => TextIs(line) /\ TapIs) /\ ModeIs

\* A key that writes no backslash.
Clean(a) ==
    /\ Spells(a)
    /\ a.type \in {"command", "input", "braces", "multitap"} => Spelled[a.name] \in Seq(Simple)
    /\ a.type = "inputchar" => a.name \in Simple

LEMMA CleanIs ==
    ASSUME NEW a, Spells(a), "\\" \notin LeadsAstray(a)
    PROVE  Clean(a)
<1>1. "\\" \notin ToSet(TextOf(a))
  BY DEF LeadsAstray
<1>2. ASSUME a.type \in {"command", "input", "braces", "multitap"} PROVE Spelled[a.name] \in Seq(Simple)
  <2> PICK s : s = Spelled[a.name]
    OBVIOUS
  <2>1. TextOf(a) = s /\ s \in Seq(Chars)
    BY <1>2 DEF TextOf, Spells
  <2>2. ASSUME NEW i \in 1 .. Len(s) PROVE s[i] \in Simple
    <3>1. s[i] \in Chars
      BY <2>1
    <3>2. i \in DOMAIN s
      BY <2>1
    <3>3. s[i] \in ToSet(s)
      BY <3>2 DEF ToSet
    <3> QED  BY <1>1, <2>1, <3>1, <3>3 DEF Simple
  <2> QED  BY <2>1, <2>2
<1>3. ASSUME a.type = "inputchar" PROVE a.name \in Simple
  <2>1. TextOf(a) = <<a.name>> /\ a.name \in Chars
    BY <1>3 DEF TextOf, Spells
  <2>2. 1 \in DOMAIN <<a.name>> /\ <<a.name>>[1] = a.name
    OBVIOUS
  <2>3. a.name \in ToSet(<<a.name>>)
    BY <2>2 DEF ToSet
  <2> QED  BY <1>1, <2>1, <2>3 DEF Simple
<1> QED  BY <1>2, <1>3 DEF Clean

LEMMA ContextFollows == TextIs(line) => line.context = Here
<1> SUFFICES ASSUME TextIs(line) PROVE line.context = Here
  OBVIOUS
<1>1. PICK s \in Seq(Simple), t \in Seq(Simple) : LineIs(line, s, t)
  BY DEF TextIs
<1>2. PICK g, w, x : line = Line(g, w, x, ContextAt(s)) /\ Coded(g, s, t)
  BY <1>1 DEF LineIs
<1>3. line.g = g /\ line.context = ContextAt(s)
  BY <1>2, FieldsOf
<1>4. Before = s
  BY <1>2, <1>3, CodedIs DEF Before
<1> QED  BY <1>3, <1>4 DEF Here, ContextAt

\* The characters of a multi-tap key come round.
LEMMA NextTapIs ==
    ASSUME TapIs, NEW s \in Seq(Simple), s # <<>>
    PROVE  NextTap(s) \in 1 .. Len(s) /\ s[NextTap(s)] \in Simple
<1>1. Len(s) \in Nat /\ Len(s) > 0
  OBVIOUS
<1>2. NextTap(s) \in 1 .. Len(s)
  <2>1. CASE Repeats(s)
    BY <1>1, <2>1 DEF NextTap, Repeats, TapIs
  <2>2. CASE ~Repeats(s)
    BY <1>1, <2>2 DEF NextTap
  <2> QED  BY <2>1, <2>2
<1> QED  BY <1>2

LEMMA LineInitInv == LineInit => LineInv
<1> SUFFICES ASSUME LineInit PROVE LineInv
  OBVIOUS
<1>1. line = Cleared(line)
  BY DEF LineInit, Cleared
<1>2. LineIs(line, <<>>, <<>>) /\ <<>> \in Seq(Simple)
  BY <1>1, ClearedIs
<1>3. TapIs
  BY DEF LineInit, NoTap, TapIs
<1>4. ModeIs
  BY DEF LineInit, ModeIs
<1> QED  BY <1>2, <1>3, <1>4 DEF LineInv, TextIs

LEMMA WithinStays ==
    ASSUME TextIs(line), NEW s \in Seq(Simple)
    PROVE  TextIs(Within(s))
<1>1. <<" ">> \in Seq(Simple)
  <2>1. PICK c \in Simple : c = " "
    BY SimpleIs
  <2>2. <<c>> \in Seq(Simple)
    OBVIOUS
  <2> QED  BY <2>1, <2>2
<1>2. ASSUME NEW l, TextIs(l), NEW c PROVE TextIs(Spaced(l, c))
  BY <1>1, <1>2, TextStays DEF Spaced
<1>3. ASSUME ~line.context.algebraic PROVE TextIs(Within(s))
  <2> PICK b : b = GetBackward(line.g, Cursor(line.g)).char
    OBVIOUS
  <2> PICK l : l = InsertText(Spaced(line, b), s)
    OBVIOUS
  <2>1. TextIs(l)
    BY <1>2, TextStays
  <2> PICK c : c = GetForward(l.g, Cursor(l.g)).char
    OBVIOUS
  <2>2. TextIs(MoveForward(l)) /\ TextIs(Spaced(l, c))
    BY <1>2, <2>1, TextStays
  <2>3. Within(s) = IF Blank(c) THEN MoveForward(l) ELSE Spaced(l, c)
    BY <1>3 DEF Within
  <2> QED  BY <2>2, <2>3
<1>4. ASSUME line.context.algebraic PROVE TextIs(Within(s))
  BY <1>4, TextStays DEF Within
<1> QED  BY <1>3, <1>4

\* What a key does to the field, whichever it is.
LEMMA PressStays ==
    ASSUME TextIs(line), TapIs, NEW a, Clean(a), onKeyPress(a)
    PROVE  TextIs(line') /\ TapIs'
<1>1. TextIs(line) /\ TapIs
  OBVIOUS
<1>2. TapIs' \/ tap' # tap
  BY <1>1 DEF TapIs
<1>3. ASSUME Other PROVE TapIs'
  BY <1>3 DEF Other, NoTap, TapIs
<1>4. ASSUME UNCHANGED field PROVE TextIs(line') /\ TapIs'
  BY <1>1, <1>2, <1>4 DEF field
<1>5. CASE a.type \in {"void", "menu"}
  BY <1>4, <1>5 DEF onKeyPress
<1>6. ASSUME EnterInput PROVE TextIs(line') /\ TapIs'
  BY <1>1, <1>2, <1>6, TextStays DEF EnterInput
<1>7. CASE a.type = "command"
  <2>1. KeyCommand(Spelled[a.name]) /\ Spelled[a.name] \in Seq(Simple)
    BY <1>7 DEF onKeyPress, Clean, Spells
  <2>2. ASSUME visible, Written PROVE TextIs(line') /\ TapIs'
    <3>1. line' = Within(Spelled[a.name]) /\ tap' = tap
      BY <2>1, <2>2 DEF KeyCommand, Shown
    <3> QED  BY <1>1, <1>2, <2>1, <3>1, WithinStays
  <2>3. ASSUME ~visible PROVE UNCHANGED field
    BY <2>1, <2>3 DEF KeyCommand
  <2>4. ASSUME visible, ~Written PROVE EnterInput
    BY <2>1, <2>4 DEF KeyCommand
  <2> QED  BY <1>4, <1>6, <2>2, <2>3, <2>4
<1>8. CASE a.type = "special"
  <2>1. KeySpecial(a.name)
    BY <1>8 DEF onKeyPress
  <2>2. ASSUME NEW l, TextIs(l), Edited(l) PROVE TextIs(line') /\ TapIs'
    BY <1>3, <2>2 DEF Edited
  <2>3. ASSUME KeyABORT PROVE TextIs(line') /\ TapIs'
    BY <1>1, <1>2, <2>3, TextStays DEF KeyABORT
  <2>4. /\ TextIs(EraseBackward(line)) /\ TextIs(EraseForward(line))
        /\ TextIs(MoveBackward(line)) /\ TextIs(MoveForward(line))
    BY <1>1, TextStays
  <2>5. \/ UNCHANGED field \/ KeyABORT \/ EnterInput
        \/ Edited(EraseBackward(line)) \/ Edited(EraseForward(line))
        \/ Edited(MoveBackward(line)) \/ Edited(MoveForward(line)) \/ Edited(line)
    BY <2>1, Zenon DEF KeySpecial
  <2> QED  BY <1>1, <1>4, <1>6, <2>2, <2>3, <2>4, <2>5
<1>9. CASE a.type = "input"
  <2>1. KeyInput(Spelled[a.name]) /\ Spelled[a.name] \in Seq(Simple)
    BY <1>9 DEF onKeyPress, Clean, Spells
  <2> QED  BY <1>1, <1>3, <2>1, TextStays DEF KeyInput, Shown
<1>10. CASE a.type = "inputchar"
  <2>1. KeyInputChar(a.name) /\ a.name \in Simple
    BY <1>10 DEF onKeyPress, Clean, Spells
  <2> QED  BY <1>1, <1>3, <2>1, TextStays DEF KeyInputChar, Shown
<1>11. CASE a.type = "braces"
  <2> PICK s : s = Spelled[a.name]
    OBVIOUS
  <2>1. KeyBraces(s) /\ s \in Seq(Simple)
    BY <1>11 DEF onKeyPress, Clean, Spells
  <2> PICK l : l = MoveBackward(InsertText(line, s))
    OBVIOUS
  <2>2. TextIs(l) /\ TextIs(MoveBackward(l))
    BY <1>1, <2>1, TextStays
  <2>3. Other /\ line' = IF Inner(s) = 2 THEN MoveBackward(l) ELSE l
    BY <2>1 DEF KeyBraces, Shown
  <2> QED  BY <1>3, <2>2, <2>3
<1>12. CASE a.type = "multitap"
  <2> PICK s : s = Spelled[a.name]
    OBVIOUS
  <2>1. KeyMultiTap(s) /\ s \in Seq(Simple) /\ s # <<>>
    BY <1>12 DEF onKeyPress, Clean, Spells
  <2>2. NextTap(s) \in 1 .. Len(s) /\ s[NextTap(s)] \in Simple
    BY <1>1, <2>1, NextTapIs
  <2> PICK l : l = IF Repeats(s) THEN EraseBackward(line) ELSE line
    OBVIOUS
  <2>3. TextIs(l)
    BY <1>1, TextStays
  <2>4. line' = InsertOne(l, s[NextTap(s)]) /\ tap' = [string |-> s, index |-> NextTap(s)]
    BY <2>1 DEF KeyMultiTap, Shown
  <2>5. TapIs'
    BY <2>1, <2>2, <2>4 DEF TapIs
  <2> QED  BY <2>2, <2>3, <2>4, <2>5, TextStays
<1> QED  BY <1>5, <1>7, <1>8, <1>9, <1>10, <1>11, <1>12 DEF Clean, Spells

LEMMA LineStep ==
    ASSUME LineInv, [LineNext]_lineVars
    PROVE  LineInv'
<1>1. ("\\" \notin astray => TextIs(line) /\ TapIs) /\ ModeIs
  BY DEF LineInv
<1>2. ASSUME UNCHANGED field, astray' = astray PROVE "\\" \notin astray' => TextIs(line') /\ TapIs'
  BY <1>1, <1>2 DEF field, TapIs
<1>3. ASSUME UNCHANGED keys PROVE ModeIs'
  BY <1>1, <1>3 DEF keys, ModeIs
<1>4. ASSUME UNCHANGED lineVars PROVE LineInv'
  BY <1>2, <1>3, <1>4 DEF LineInv, lineVars
<1>a. ASSUME NEW a, Spells(a), onKeyPress(a), astray' = astray \cup LeadsAstray(a)
      PROVE  "\\" \notin astray' => TextIs(line') /\ TapIs'
  <2>1. SUFFICES ASSUME "\\" \notin astray' PROVE TextIs(line') /\ TapIs'
    OBVIOUS
  <2>2. "\\" \notin astray /\ "\\" \notin LeadsAstray(a)
    BY <1>a, <2>1
  <2>3. Clean(a) /\ TextIs(line) /\ TapIs
    BY <1>1, <1>a, <2>2, CleanIs
  <2> QED  BY <1>a, <2>3, PressStays
<1>5. ASSUME NEW k \in KeyCodes, onKeyDown(k) PROVE LineInv'
  <2> PICK a : a = getKeyAction(k, kbdMode)
    OBVIOUS
  <2>1. Spells(a)
    BY <1>1, KeyAssumption DEF ModeIs
  <2>2. onKeyPress(a) /\ kbdMode' = kbdMode \cup Modifier(a) /\ astray' = astray \cup LeadsAstray(a)
    BY <1>5, Zenon DEF onKeyDown
  <2>3. "\\" \notin astray' => TextIs(line') /\ TapIs'
    BY <1>a, <2>1, <2>2
  <2>4. Modifier(a) \subseteq {"SHIFT", "ALPHA", "META"}
    BY DEF Modifier
  <2>5. ModeIs'
    BY <1>1, <2>2, <2>4 DEF ModeIs
  <2> QED  BY <2>3, <2>5 DEF LineInv
<1>6. ASSUME NEW k \in KeyCodes, onKeyUp(k) PROVE LineInv'
  <2>1. UNCHANGED field /\ astray' = astray /\ kbdMode' \subseteq kbdMode
    BY <1>6 DEF onKeyUp
  <2>2. ModeIs'
    BY <1>1, <2>1 DEF ModeIs
  <2> QED  BY <1>2, <2>1, <2>2 DEF LineInv
<1>7. ASSUME NEW a \in AuxKeys, KeyPressEvent(a) PROVE LineInv'
  <2>1. onKeyPress(a) /\ UNCHANGED keys /\ Spells(a) /\ astray' = astray \cup LeadsAstray(a)
    BY <1>7, KeyAssumption DEF KeyPressEvent
  <2>2. "\\" \notin astray' => TextIs(line') /\ TapIs'
    BY <1>a, <2>1
  <2> QED  BY <1>3, <2>1, <2>2 DEF LineInv
<1>8. ASSUME CursorBlink PROVE LineInv'
  <2>1. tap' = NoTap /\ line' = line /\ astray' = astray /\ UNCHANGED keys
    BY <1>8 DEF CursorBlink
  <2>2. TapIs'
    BY <2>1 DEF NoTap, TapIs
  <2> QED  BY <1>1, <1>3, <2>1, <2>2 DEF LineInv
<1> QED  BY <1>4, <1>5, <1>6, <1>7, <1>8 DEF LineNext

\* After any keys, pressed, held and released in any order, until one of them writes a
\* backslash, the bytes in the chain of buffers are the code of some text with the gap at the cursor, between two characters and
\* where gapBuf says, and the context is the one a scan up to the cursor gives.
THEOREM LineInvariance == LineSpec => []LineInv
<1>1. LineInit => LineInv
  BY LineInitInv
<1>2. LineInv /\ [LineNext]_lineVars => LineInv'
  BY LineStep
<1> QED  BY <1>1, <1>2, PTL DEF LineSpec

\* The context of the cursor, which is updated character by character, forward and back, is
\* not off until a backslash is written, whichever the keys: a command key is written out within an expression or a program, and executed
\* elsewhere.
THEOREM ContextIsHere == LineSpec => []ContextOfTheCursor
<1>1. LineInv => ContextOfTheCursor
  BY ContextFollows DEF LineInv, ContextOfTheCursor
<1> QED  BY <1>1, LineInvariance, PTL

-------------------------------------------------------------------------------
(* The iterators, one step from the cursor. *)

LEMMA BackwardIs ==
    ASSUME NEW g, NEW t, NEW n, Holds(g, t, n)
    PROVE  BackwardByte(g, Cursor(g)).byte = IF n = 0 THEN NONE ELSE t[n]
<1>1. PICK c, b, l : g = Gap(c, b, n, l) /\ Laid(c, l, t, n) /\ InPlace(b, n)
  BY DEF Holds
<1>2. g.chars = c /\ g.gapBuf = b /\ g.gapPos = n /\ g.gapLen = l
  BY <1>1, GapIs
<1>3. n \in Nat /\ l \in Nat /\ l > 0
  BY <1>1 DEF Laid
<1> PICK it : it = Iterator(b, n)
  OBVIOUS
<1>4. Cursor(g) = it /\ it.buf = b /\ it.pos = n
  BY <1>2 DEF Cursor, Iterator
<1>5. n # END /\ n # n + l
  BY <1>3 DEF END
<1>6. ASSUME n = 0 PROVE BackwardByte(g, it).byte = NONE
  BY <1>4, <1>6 DEF BackwardByte
<1>7. ASSUME n # 0 PROVE BackwardByte(g, it).byte = t[n]
  <2> PICK d : d = IF InBuf(n - 1) = BufferSize - 1 THEN b - 1 ELSE b
    OBVIOUS
  <2>1. BackwardByte(g, it).byte = c[d * BufferSize + InBuf(n - 1) + 1]
    BY <1>2, <1>4, <1>5, <1>7 DEF BackwardByte
  <2>2. InBuf(n - 1) = BufferSize - 1 <=> StartsBuf(n)
    BY <1>1, <1>3, PlaceBefore
  <2>3. ByteBefore(g) = d * BufferSize + InBuf(n - 1)
    BY <1>2, <2>2 DEF ByteBefore, BufBefore
  <2>4. g.chars[ByteBefore(g) + 1] = t[n]
    <3>1. n > 0
      BY <1>3, <1>7
    <3> QED  BY <3>1, BeforeIs
  <2> QED  BY <1>2, <2>1, <2>3, <2>4
<1> QED  BY <1>4, <1>6, <1>7

LEMMA ForwardIs ==
    ASSUME NEW g, NEW t, NEW n, Holds(g, t, n)
    PROVE  ForwardByte(g, Cursor(g)).byte = IF n = Len(t) THEN NONE ELSE t[n + 1]
<1>1. PICK c, b, l : g = Gap(c, b, n, l) /\ Laid(c, l, t, n) /\ InPlace(b, n)
  BY DEF Holds
<1>2. g.chars = c /\ g.gapBuf = b /\ g.gapPos = n /\ g.gapLen = l
  BY <1>1, GapIs
<1>3. /\ n \in Nat /\ l \in Nat /\ l > 0 /\ Len(t) \in Nat /\ n <= Len(t) /\ Len(c) = Len(t) + l
      /\ \A k \in n + 1 .. Len(t) : c[k + l] = t[k]
  BY <1>1 DEF Laid
<1> PICK it : it = Iterator(b, n)
  OBVIOUS
<1>4. Cursor(g) = it /\ it.buf = b /\ it.pos = n
  BY <1>2 DEF Cursor, Iterator
<1>5. n # END /\ n + l - n = l
  BY <1>3 DEF END
<1> PICK m \in Nat : m = n + l
  BY <1>3
<1> PICK q : q = b + (InBuf(n) + l) \div BufferSize
  OBVIOUS
<1>6. q * BufferSize + InBuf(m) = m
  <2>1. InPlace(q, m)
    BY <1>1, <1>3, PlaceFar
  <2> QED  BY <2>1 DEF InPlace
<1>7. ForwardByte(g, it).byte = IF m >= Len(c) THEN NONE ELSE c[m + 1]
  <2>1. ForwardByte(g, it).byte
          = IF q * BufferSize + InBuf(m) >= Len(c) THEN NONE ELSE c[q * BufferSize + InBuf(m) + 1]
    <3> PICK r : r = InBuf(n) + l
      OBVIOUS
    <3>1. InBuf(n) + m - n = r
      <4>1. InBuf(n) \in Nat
        BY <1>3, InBufIs
      <4> QED  BY <1>3, <4>1
    <3>2. it.pos = g.gapPos /\ it.pos # END
      BY <1>2, <1>4, <1>5
    <3> QED  BY <1>2, <1>4, <3>1, <3>2 DEF ForwardByte
  <2> QED  BY <1>6, <2>1
<1>8. m >= Len(c) <=> n = Len(t)
  BY <1>3
<1>9. ASSUME n # Len(t) PROVE c[m + 1] = t[n + 1]
  <2>1. n + 1 \in n + 1 .. Len(t) /\ (n + 1) + l = m + 1
    BY <1>3, <1>9
  <2> QED  BY <1>3, <2>1
<1> QED  BY <1>4, <1>7, <1>8, <1>9

LEMMA LookBackIs ==
    ASSUME NEW s \in Seq(Simple), NEW t \in Seq(Simple), NEW g, Coded(g, s, t)
    PROVE  GetBackward(g, Cursor(g)).char = IF s = <<>> THEN NONE ELSE Last(s)
<1> PICK a \in Seq(Byte), b \in Seq(Byte) : a = EncodedText(s) /\ b = EncodedText(t)
  BY EncodedOn
<1> PICK n \in Nat : n = Len(a)
  OBVIOUS
<1> PICK u : u = a \o b
  OBVIOUS
<1> PICK x : x = BackwardByte(g, Cursor(g)).byte
  OBVIOUS
<1>1. x = IF n = 0 THEN NONE ELSE u[n]
  <2>1. Holds(g, u, n)
    BY DEF Coded
  <2> QED  BY <2>1, BackwardIs
<1>2. GetBackward(g, Cursor(g)).char = IF x = NONE THEN NONE ELSE x[1]
  BY DEF GetBackward
<1>3. n = 0 <=> s = <<>>
  BY NoBytes
<1>4. CASE s = <<>>
  BY <1>1, <1>2, <1>3, <1>4
<1>5. CASE s # <<>>
  <2>1. PICK r \in Seq(Simple), c \in Simple : s = Append(r, c)
    BY <1>5, LastIs
  <2>2. PICK j \in 1 .. 2 : j = Bytes[c]
    BY OneEncoded
  <2>3. u[n] = <<c, j>>
    <3> PICK p \in Seq(Byte), e \in Seq(Byte) : p = EncodedText(r) /\ e = Encoded(c)
      BY Around
    <3>1. u = p \o (e \o b) /\ n = Len(p) + j
      BY <2>1, <2>2, Around
    <3>2. Len(e) = j /\ \A k \in 1 .. j : e[k] = <<c, k>>
      BY <2>2, OneEncoded
    <3>3. \A k \in 1 .. Len(e) : (p \o (e \o b))[Len(p) + k] = e[k]
      BY Within3
    <3>4. j \in 1 .. j
      OBVIOUS
    <3> QED  BY <3>1, <3>2, <3>3, <3>4
  <2>4. <<c, j>> # NONE
    <3>1. <<c, j>> \in Simple \X (1 .. 2)
      OBVIOUS
    <3> QED  BY <3>1, BytesAssumption DEF Chars, Simple
  <2>5. x = <<c, j>>
    BY <1>1, <1>3, <1>5, <2>3
  <2>6. Last(s) = c
    BY <2>1 DEF Last
  <2> QED  BY <1>2, <1>5, <2>4, <2>5, <2>6
<1> QED  BY <1>4, <1>5

LEMMA LookAheadIs ==
    ASSUME NEW s \in Seq(Simple), NEW t \in Seq(Simple), NEW g, Coded(g, s, t)
    PROVE  GetForward(g, Cursor(g)).char = IF t = <<>> THEN NONE ELSE Head(t)
<1> PICK a \in Seq(Byte), b \in Seq(Byte) : a = EncodedText(s) /\ b = EncodedText(t)
  BY EncodedOn
<1> PICK n \in Nat : n = Len(a)
  OBVIOUS
<1> PICK u : u = a \o b
  OBVIOUS
<1> PICK x : x = ForwardByte(g, Cursor(g)).byte
  OBVIOUS
<1>0. Holds(g, u, n)
  BY DEF Coded
<1>1. x = IF n = Len(u) THEN NONE ELSE u[n + 1]
  BY <1>0, ForwardIs
<1>2. GetForward(g, Cursor(g)).char = IF x = NONE THEN NONE ELSE x[1]
  BY DEF GetForward
<1>3. n = Len(u) <=> t = <<>>
  <2>1. AtEnd(g) <=> n = Len(u)
    BY <1>0, ReadIs
  <2>2. AtEnd(g) <=> t = <<>>
    BY CodedIs
  <2> QED  BY <2>1, <2>2
<1>4. CASE t = <<>>
  BY <1>1, <1>2, <1>3, <1>4
<1>5. CASE t # <<>>
  <2>1. PICK r \in Seq(Simple), c \in Simple : t = <<c>> \o r
    BY <1>5, HeadIs
  <2>3. u[n + 1] = <<c, 1>>
    <3> PICK p \in Seq(Byte), e \in Seq(Byte) : p = EncodedText(r) /\ e = Encoded(c)
      BY Around
    <3>1. u = a \o (e \o p)
      BY <2>1, Around
    <3>2. PICK j \in 1 .. 2 : j = Bytes[c]
      BY OneEncoded
    <3>3. Len(e) = j /\ \A k \in 1 .. j : e[k] = <<c, k>>
      BY <3>2, OneEncoded
    <3>4. \A k \in 1 .. Len(e) : (a \o (e \o p))[Len(a) + k] = e[k]
      BY Within3
    <3>5. 1 \in 1 .. j
      OBVIOUS
    <3> QED  BY <3>1, <3>3, <3>4, <3>5
  <2>4. <<c, 1>> # NONE
    <3>1. 1 \in 1 .. 2
      OBVIOUS
    <3>2. <<c, 1>> \in Simple \X (1 .. 2)
      BY <3>1, Zenon
    <3> QED  BY <3>2, BytesAssumption DEF Chars, Simple
  <2>5. x = <<c, 1>>
    BY <1>1, <1>3, <1>5, <2>3
  <2>6. Head(t) = c
    BY <2>1
  <2> QED  BY <1>2, <1>5, <2>4, <2>5, <2>6
<1> QED  BY <1>4, <1>5

-------------------------------------------------------------------------------
(* The field is a line editor. *)

LEMMA Pieces ==
    ASSUME NEW u \in Seq(Simple), NEW c \in Simple
    PROVE  /\ Append(u, c) # <<>> /\ Front(Append(u, c)) = u /\ Last(Append(u, c)) = c
           /\ <<c>> \o u # <<>> /\ Head(<<c>> \o u) = c /\ Tail(<<c>> \o u) = u
<1>1. Append(u, c) # <<>> /\ Last(Append(u, c)) = c
  BY DEF Last
<1>2. Front(Append(u, c)) = u
  <2> PICK v \in Seq(Simple) : v = Append(u, c)
    <3>1. Append(u, c) \in Seq(Simple)
      OBVIOUS
    <3> QED  BY <3>1, Zenon
  <2>1. Len(v) - 1 = Len(u) /\ Len(u) <= Len(v) /\ \A k \in 1 .. Len(u) : v[k] = u[k]
    <3> PICK n \in Nat : n = Len(u)
      OBVIOUS
    <3>1. Len(v) = n + 1
      OBVIOUS
    <3>2. ASSUME NEW k \in 1 .. n PROVE v[k] = u[k]
      OBVIOUS
    <3> QED  BY <3>1, <3>2
  <2>2. Front(v) = SubSeq(v, 1, Len(u))
    BY <2>1 DEF Front
  <2>3. SubSeq(v, 1, Len(u)) = [k \in 1 .. Len(u) |-> v[k]]
    BY <2>1
  <2>4. SubSeq(v, 1, Len(u)) = u
    BY <2>1, <2>3
  <2> QED  BY <2>2, <2>4
<1>3. <<c>> \o u # <<>> /\ Head(<<c>> \o u) = c
  OBVIOUS
<1>4. Tail(<<c>> \o u) = u
  <2> PICK v \in Seq(Simple) : v = <<c>> \o u
    <3>1. <<c>> \o u \in Seq(Simple)
      OBVIOUS
    <3> QED  BY <3>1, Zenon
  <2>1. Len(v) = Len(u) + 1 /\ \A k \in 1 .. Len(u) : v[k + 1] = u[k]
    <3> PICK n \in Nat : n = Len(u)
      OBVIOUS
    <3> PICK w \in Seq(Simple) : w = <<c>>
      <4>1. <<c>> \in Seq(Simple)
        OBVIOUS
      <4> QED  BY <4>1
    <3>1. Len(w) = 1 /\ Len(v) = 1 + n
      OBVIOUS
    <3>2. ASSUME NEW k \in 1 .. n PROVE v[k + 1] = u[k]
      <4>1. k + 1 \in 1 .. 1 + n /\ ~(k + 1 <= 1) /\ (k + 1) - 1 = k
        OBVIOUS
      <4>2. v = w \o u
        OBVIOUS
      <4> QED  BY <3>1, <4>1, <4>2
    <3> QED  BY <3>1, <3>2
  <2>2. Tail(v) = [k \in 1 .. Len(u) |-> v[k + 1]]
    BY <2>1
  <2>3. Tail(v) = u
    BY <2>1, <2>2
  <2> QED  BY <2>3
<1> QED  BY <1>1, <1>2, <1>3, <1>4

LEMMA SeenIs ==
    ASSUME NEW s \in Seq(Simple), NEW t \in Seq(Simple)
    PROVE  /\ LineIs(line, s, t) => Before = s /\ After = t
           /\ LineIs(line', s, t) => Before' = s /\ After' = t
<1>1. ASSUME NEW l, LineIs(l, s, t)
      PROVE  /\ Characters(SubSeq(l.g.chars, 1, l.g.gapPos)) = s
             /\ Characters(SubSeq(l.g.chars, l.g.gapPos + l.g.gapLen + 1, Len(l.g.chars))) = t
  <2>1. PICK g, w, x : l = Line(g, w, x, ContextAt(s)) /\ Coded(g, s, t)
    BY <1>1 DEF LineIs
  <2>2. l.g = g
    BY <2>1, FieldsOf
  <2>3. /\ Characters(SubSeq(g.chars, 1, g.gapPos)) = s
        /\ Characters(SubSeq(g.chars, g.gapPos + g.gapLen + 1, Len(g.chars))) = t
    BY <2>1, CodedIs
  <2> QED  BY <2>2, <2>3
<1>2. LineIs(line, s, t) => Before = s /\ After = t
  BY <1>1 DEF Before, After
<1>3. LineIs(line', s, t) => Before' = s /\ After' = t
  BY <1>1 DEF Before, After
<1> QED  BY <1>2, <1>3

\* What a line does, in terms of the text before its cursor and behind it.
LEMMA MovesAndErases ==
    ASSUME NEW s \in Seq(Simple), NEW t \in Seq(Simple), NEW l, LineIs(l, s, t)
    PROVE  /\ IF s = <<>> THEN LineIs(MoveBackward(l), s, t)
              ELSE LineIs(MoveBackward(l), Front(s), <<Last(s)>> \o t)
           /\ IF t = <<>> THEN LineIs(MoveForward(l), s, t)
              ELSE LineIs(MoveForward(l), Append(s, Head(t)), Tail(t))
           /\ LineIs(EraseBackward(l), IF s = <<>> THEN <<>> ELSE Front(s), t)
           /\ LineIs(EraseForward(l), s, IF t = <<>> THEN <<>> ELSE Tail(t))
<1>1. ASSUME s = <<>> PROVE LineIs(MoveBackward(l), s, t) /\ LineIs(EraseBackward(l), <<>>, t)
  <2>1. MoveBackward(l) = l /\ EraseBackward(l) = l
    BY <1>1, MoveBackwardIs, EraseBackwardIs
  <2> QED  BY <1>1, <2>1
<1>2. ASSUME s # <<>>
      PROVE  LineIs(MoveBackward(l), Front(s), <<Last(s)>> \o t) /\ LineIs(EraseBackward(l), Front(s), t)
  <2>1. PICK u \in Seq(Simple), c \in Simple : s = Append(u, c)
    BY <1>2, LastIs
  <2>2. LineIs(l, Append(u, c), t)
    BY <2>1
  <2>3. LineIs(MoveBackward(l), u, <<c>> \o t) /\ LineIs(EraseBackward(l), u, t)
    BY <2>2, MoveBackwardIs, EraseBackwardIs
  <2>4. Front(s) = u /\ Last(s) = c
    BY <2>1, Pieces
  <2> QED  BY <2>3, <2>4
<1>3. ASSUME t = <<>> PROVE LineIs(MoveForward(l), s, t) /\ LineIs(EraseForward(l), s, <<>>)
  <2>1. MoveForward(l) = l /\ EraseForward(l) = l
    BY <1>3, MoveForwardIs, EraseForwardIs
  <2> QED  BY <1>3, <2>1
<1>4. ASSUME t # <<>>
      PROVE  LineIs(MoveForward(l), Append(s, Head(t)), Tail(t)) /\ LineIs(EraseForward(l), s, Tail(t))
  <2>1. PICK u \in Seq(Simple), c \in Simple : t = <<c>> \o u
    BY <1>4, HeadIs
  <2>2. LineIs(l, s, <<c>> \o u)
    BY <2>1
  <2>3. LineIs(MoveForward(l), Append(s, c), u) /\ LineIs(EraseForward(l), s, u)
    BY <2>2, MoveForwardIs, EraseForwardIs
  <2>4. Head(t) = c /\ Tail(t) = u
    BY <2>1, Pieces
  <2> QED  BY <2>3, <2>4
<1> QED  BY <1>1, <1>2, <1>3, <1>4

\* The end of a text that braces leave behind the cursor.
LEMMA OneItem ==
    ASSUME NEW s \in Seq(Simple), NEW n \in 1 .. Len(s)
    PROVE  SubSeq(s, n, n) = <<s[n]>>
<1>1. n - n + 1 = 1
  OBVIOUS
<1>2. SubSeq(s, n, n) = [k \in 1 .. 1 |-> s[n + k - 1]]
  BY <1>1
<1>3. \A k \in 1 .. 1 : k = 1 /\ n + k - 1 = n
  OBVIOUS
<1>4. SubSeq(s, n, n) = [k \in 1 .. 1 |-> s[n]]
  BY <1>2, <1>3
<1>5. <<s[n]>> = [k \in 1 .. 1 |-> s[n]]
  OBVIOUS
<1> QED  BY <1>4, <1>5

Ending(s, n, u, v) == SubSeq(s, 1, Len(s) - n) = u /\ SubSeq(s, Len(s) - n + 1, Len(s)) = v

LEMMA InnerIs ==
    ASSUME NEW s \in Seq(Simple), s # <<>>
    PROVE  /\ Inner(s) = 1 \/ Inner(s) = 2
           /\ Inner(s) = 1 => \E u \in Seq(Simple), c \in Simple : Ending(s, 1, u, <<c>>) /\ s = Append(u, c)
           /\ Inner(s) = 2 => \E u \in Seq(Simple), d, c \in Simple :
                                 Ending(s, 2, u, <<d>> \o <<c>>) /\ s = Append(Append(u, d), c)
<1>1. PICK u \in Seq(Simple), c \in Simple : s = Append(u, c)
  BY LastIs
<1>2. CASE ~(Len(EncodedText(s)) > 2)
  <2>1. Inner(s) = 1
    BY <1>2 DEF Inner
  <2>2. SubSeq(s, 1, Len(s) - 1) = u
    BY <1>1, Pieces DEF Front
  <2>3. SubSeq(s, Len(s) - 1 + 1, Len(s)) = <<c>>
    <3> PICK n \in Nat : n = Len(u)
      OBVIOUS
    <3>1. Len(s) = n + 1 /\ s[n + 1] = c
      BY <1>1
    <3>2. n + 1 - 1 + 1 = n + 1
      OBVIOUS
    <3>3. SubSeq(s, n + 1, n + 1) = <<c>>
      <4>1. n + 1 \in 1 .. Len(s)
        BY <3>1
      <4> QED  BY <3>1, <4>1, OneItem
    <3> QED  BY <3>1, <3>2, <3>3
  <2> QED  BY <1>1, <2>1, <2>2, <2>3 DEF Ending
<1>3. CASE Len(EncodedText(s)) > 2
  <2>1. Inner(s) = 2
    BY <1>3 DEF Inner
  <2>2. u # <<>>
    <3> SUFFICES ASSUME u = <<>> PROVE FALSE
      OBVIOUS
    <3>1. Len(EncodedText(s)) = Len(EncodedText(u)) + Bytes[c]
      BY <1>1, Around
    <3>2. Len(EncodedText(u)) = 0
      BY NoBytes
    <3>3. Bytes[c] \in 1 .. 2
      BY OneEncoded
    <3> QED  BY <1>3, <3>1, <3>2, <3>3
  <2>3. PICK v \in Seq(Simple), d \in Simple : u = Append(v, d)
    BY <2>2, LastIs
  <2> PICK n \in Nat : n = Len(v)
    OBVIOUS
  <2>4. Len(u) = n + 1 /\ u[n + 1] = d /\ \A k \in 1 .. n : u[k] = v[k]
    BY <2>3
  <2>5. s \in Seq(Simple) /\ Len(s) = n + 2 /\ s[n + 2] = c /\ \A k \in 1 .. n + 1 : s[k] = u[k]
    <3>1. Len(s) = (n + 1) + 1 /\ s[(n + 1) + 1] = c
      BY <1>1, <2>4
    <3>2. ASSUME NEW k \in 1 .. n + 1 PROVE s[k] = u[k]
      BY <1>1, <2>4
    <3>3. (n + 1) + 1 = n + 2
      OBVIOUS
    <3> QED  BY <3>1, <3>2, <3>3
  <2>6. s[n + 1] = d /\ \A k \in 1 .. n : s[k] = v[k]
    BY <2>4, <2>5
  <2>7. SubSeq(s, 1, Len(s) - 2) = v
    <3>1. Len(s) - 2 = n /\ n <= Len(s)
      BY <2>5
    <3>2. SubSeq(s, 1, n) = [k \in 1 .. n |-> s[k]]
      BY <3>1
    <3>3. SubSeq(s, 1, n) = v
      BY <2>6, <3>2
    <3> QED  BY <3>1, <3>3
  <2>8. SubSeq(s, Len(s) - 2 + 1, Len(s)) = <<d>> \o <<c>>
    <3>1. Len(s) - 2 + 1 = n + 1
      BY <2>5
    <3> PICK w : w = SubSeq(s, n + 1, n + 2)
      OBVIOUS
    <3>2. w \in Seq(Simple) /\ Len(w) = 2 /\ w[1] = s[n + 1] /\ w[2] = s[n + 2]
      <4>1. /\ \A k \in n + 1 .. n + 2 : s[k] \in Simple
            /\ (n + 2) - (n + 1) + 1 = 2 /\ n + 1 <= n + 2
        BY <2>5
      <4>2. w = [k \in 1 .. 2 |-> s[(n + 1) + k - 1]]
        BY <2>5, <4>1
      <4>3. (n + 1) + 1 - 1 = n + 1 /\ (n + 1) + 2 - 1 = n + 2
        OBVIOUS
      <4>4. \A k \in 1 .. 2 : (n + 1) + k - 1 \in n + 1 .. n + 2
        OBVIOUS
      <4> QED  BY <4>1, <4>2, <4>3, <4>4
    <3> PICK x : x = <<d>> \o <<c>>
      OBVIOUS
    <3>3. x \in Seq(Simple) /\ Len(x) = 2 /\ x[1] = d /\ x[2] = c
      OBVIOUS
    <3>4. \A k \in 1 .. Len(w) : w[k] = x[k]
      <4>1. w[1] = x[1] /\ w[2] = x[2]
        BY <2>5, <2>6, <3>2, <3>3
      <4> SUFFICES ASSUME NEW k \in 1 .. 2 PROVE w[k] = x[k]
        BY <3>2
      <4>2. k = 1 \/ k = 2
        OBVIOUS
      <4> QED  BY <4>1, <4>2
    <3>5. w = x
      BY <3>2, <3>3, <3>4, SeqEqual
    <3> QED  BY <2>5, <3>1, <3>5
  <2>9. s = Append(Append(v, d), c)
    BY <1>1, <2>3
  <2>10. Ending(s, 2, v, <<d>> \o <<c>>)
    BY <2>7, <2>8, Zenon DEF Ending
  <2>11. Inner(s) # 1
    BY <2>1
  <2> QED  BY <2>1, <2>9, <2>10, <2>11, Zenon
<1> QED  BY <1>2, <1>3

LEMMA AfterOne ==
    ASSUME NEW t \in Seq(Simple), NEW c \in Simple
    PROVE  <<c>> \o t \in Seq(Simple)
OBVIOUS

LEMMA BracesDo ==
    ASSUME TextIs(line), NEW r \in Seq(Simple), r # <<>>, KeyBraces(r)
    PROVE  Editor!TypeAround(r, Inner(r))
<1>1. PICK s \in Seq(Simple), t \in Seq(Simple) : LineIs(line, s, t)
  BY DEF TextIs
<1>2. Before = s /\ After = t
  BY <1>1, SeenIs
<1> PICK l : l = InsertText(line, r)
  OBVIOUS
<1>3. LineIs(l, s \o r, t)
  BY <1>1, InsertTextIs
<1>4. line' = IF Inner(r) = 2 THEN MoveBackward(MoveBackward(l)) ELSE MoveBackward(l)
  BY DEF KeyBraces, Shown
<1>5. CASE Inner(r) = 1
  <2>1. PICK u \in Seq(Simple), c \in Simple : Ending(r, 1, u, <<c>>) /\ r = Append(u, c)
    BY <1>5, InnerIs
  <2>2. PICK v \in Seq(Simple) : v = s \o u /\ s \o r = Append(v, c)
    <3>1. s \o r = Append(s \o u, c) /\ s \o u \in Seq(Simple)
      BY <2>1, AppendIs
    <3> QED  BY <3>1
  <2>3. PICK w \in Seq(Simple) : w = <<c>> \o t
    BY AfterOne
  <2>4. LineIs(MoveBackward(l), v, w)
    BY <1>3, <2>2, <2>3, MoveBackwardIs
  <2>5. Before' = v /\ After' = w
    <3>1. line' = MoveBackward(l)
      BY <1>4, <1>5
    <3> QED  BY <2>4, <3>1, SeenIs
  <2> QED  BY <1>2, <1>5, <2>1, <2>2, <2>3, <2>5 DEF Editor!TypeAround, Ending
<1>6. CASE Inner(r) = 2
  <2>1. PICK u \in Seq(Simple), d \in Simple, c \in Simple :
            Ending(r, 2, u, <<d>> \o <<c>>) /\ r = Append(Append(u, d), c)
    BY <1>6, InnerIs
  <2>2. PICK v \in Seq(Simple) : v = s \o u
    <3>1. s \o u \in Seq(Simple)
      OBVIOUS
    <3> QED  BY <3>1, Zenon
  <2>3. PICK z \in Seq(Simple) : z = Append(v, d) /\ s \o r = Append(z, c)
    <3>1. PICK y \in Seq(Simple) : y = Append(u, d)
      BY AppendIs
    <3>2. s \o r = Append(s \o y, c) /\ s \o y \in Seq(Simple)
      BY <2>1, <3>1, AppendIs
    <3>3. s \o y = Append(v, d)
      BY <2>2, <3>1, AppendIs
    <3> QED  BY <3>2, <3>3
  <2>4. PICK w \in Seq(Simple) : w = <<c>> \o t
    BY AfterOne
  <2>5. PICK x \in Seq(Simple) : x = <<d>> \o w
    BY AfterOne
  <2>6. LineIs(MoveBackward(l), z, w)
    <3>1. LineIs(l, Append(z, c), t)
      BY <1>3, <2>3, Zenon
    <3>2. LineIs(MoveBackward(l), z, <<c>> \o t)
      BY <3>1, MoveBackwardIs
    <3> QED  BY <2>4, <3>2, Zenon
  <2>7. LineIs(MoveBackward(MoveBackward(l)), v, x)
    <3>1. LineIs(MoveBackward(l), Append(v, d), w)
      BY <2>3, <2>6
    <3> QED  BY <2>5, <3>1, MoveBackwardIs
  <2>8. Before' = v /\ After' = x
    <3>1. line' = MoveBackward(MoveBackward(l))
      BY <1>4, <1>6
    <3> QED  BY <2>7, <3>1, SeenIs
  <2>9. (<<d>> \o <<c>>) \o t = x
    <3>1. <<d>> \in Seq(Simple) /\ <<c>> \in Seq(Simple)
      OBVIOUS
    <3> QED  BY <2>4, <2>5, <3>1, ConcatAssociative
  <2> QED  BY <1>2, <1>6, <2>1, <2>2, <2>8, <2>9 DEF Editor!TypeAround, Ending
<1> QED  BY <1>5, <1>6, InnerIs

LEMMA EditorSame ==
    ASSUME NEW x
    PROVE  Editor!Front(x) = Front(x) /\ Editor!Last(x) = Last(x)
BY DEF Editor!Front, Editor!Last, Front, Last

LEMMA OneChar ==
    ASSUME NEW c \in Simple
    PROVE  <<c>> \in Seq(Simple)
OBVIOUS

LEMMA JoinIs ==
    ASSUME NEW s \in Seq(Simple), NEW t \in Seq(Simple)
    PROVE  s \o t \in Seq(Simple)
OBVIOUS

LEMMA Regrouped ==
    ASSUME NEW s \in Seq(Simple), NEW t \in Seq(Simple), NEW u \in Seq(Simple)
    PROVE  (s \o t) \o u = s \o (t \o u)
BY ConcatAssociative

LEMMA OneMore ==
    ASSUME NEW s \in Seq(Simple), NEW c \in Simple
    PROVE  Append(s, c) = s \o <<c>> /\ Append(s, c) \in Seq(Simple)
OBVIOUS

LEMMA BlankIs == \E w \in Seq(Simple) : w = <<" ">>
<1> PICK c \in Simple : c = " "
  BY SimpleIs
<1>1. <<c>> \in Seq(Simple)
  BY OneChar
<1> QED  BY <1>1

LEMMA MultiTapDoes ==
    ASSUME TextIs(line), TapIs, NEW r \in Seq(Simple), r # <<>>, KeyMultiTap(r)
    PROVE  IF Repeats(r) THEN Editor!Retype(r[NextTap(r)]) ELSE Editor!Type(<<r[NextTap(r)]>>)
<1>1. PICK s \in Seq(Simple), t \in Seq(Simple) : LineIs(line, s, t)
  BY DEF TextIs
<1>2. Before = s /\ After = t
  BY <1>1, SeenIs
<1> PICK c \in Simple : c = r[NextTap(r)]
  BY NextTapIs
<1>3. CASE Repeats(r)
  <2> PICK l : l = EraseBackward(line)
    OBVIOUS
  <2> PICK u : u = IF s = <<>> THEN <<>> ELSE Front(s)
    OBVIOUS
  <2>1. LineIs(l, u, t)
    BY <1>1, MovesAndErases
  <2>2. u \in Seq(Simple)
    <3>1. CASE s = <<>>
      BY <3>1
    <3>2. CASE s # <<>>
      <4>1. PICK v \in Seq(Simple), d \in Simple : s = Append(v, d)
        BY <3>2, LastIs
      <4> QED  BY <3>2, <4>1, Pieces
    <3> QED  BY <3>1, <3>2
  <2>3. line' = InsertOne(l, c)
    BY <1>3 DEF KeyMultiTap, Shown
  <2>4. LineIs(InsertOne(l, c), Append(u, c), t) /\ Append(u, c) \in Seq(Simple)
    BY <2>1, <2>2, InsertOneIs
  <2>5. Before' = Append(u, c) /\ After' = t
    BY <2>3, <2>4, SeenIs
  <2>6. Before' = Append(IF Before = <<>> THEN <<>> ELSE Front(Before), c) /\ After' = After
    BY <1>2, <2>5, Zenon
  <2>7. Editor!Retype(c)
    BY <2>6, EditorSame, Zenon DEF Editor!Retype
  <2> QED  BY <1>3, <2>7
<1>4. CASE ~Repeats(r)
  <2>1. line' = InsertOne(line, c)
    BY <1>4 DEF KeyMultiTap, Shown
  <2>2. LineIs(InsertOne(line, c), Append(s, c), t) /\ Append(s, c) \in Seq(Simple)
    BY <1>1, InsertOneIs
  <2>3. Before' = Append(s, c) /\ After' = t
    BY <2>1, <2>2, SeenIs
  <2>4. Append(s, c) = s \o <<c>>
    BY OneMore
  <2>5. Editor!Type(<<c>>)
    BY <1>2, <2>3, <2>4 DEF Editor!Type
  <2> QED  BY <1>4, <2>5
<1> QED  BY <1>3, <1>4

\* A command within a program is set apart.
LEMMA SpacedIs ==
    ASSUME NEW s \in Seq(Simple), NEW t \in Seq(Simple), NEW l, LineIs(l, s, t), NEW c
    PROVE  LineIs(Spaced(l, c), s \o (IF c # NONE /\ c # " " THEN <<" ">> ELSE <<>>), t)
<1>1. CASE c # NONE /\ c # " "
  <2>1. PICK w \in Seq(Simple) : w = <<" ">>
    BY BlankIs
  <2>2. LineIs(InsertText(l, w), s \o w, t)
    BY <2>1, InsertTextIs
  <2> QED  BY <1>1, <2>1, <2>2 DEF Spaced, Blank
<1>2. CASE ~(c # NONE /\ c # " ")
  <2>1. s \o <<>> = s
    OBVIOUS
  <2> QED  BY <1>2, <2>1 DEF Spaced, Blank
<1> QED  BY <1>1, <1>2

LEMMA SpacedOut ==
    ASSUME NEW s \in Seq(Simple), NEW t \in Seq(Simple), NEW l, LineIs(l, s, t), NEW c,
           c # NONE, c # " ", NEW w \in Seq(Simple), w = <<" ">>
    PROVE  LineIs(Spaced(l, c), s \o w, t)
<1>1. LineIs(InsertText(l, w), s \o w, t)
  BY InsertTextIs
<1> QED  BY <1>1 DEF Spaced, Blank

LEMMA LookIs ==
    ASSUME NEW s \in Seq(Simple), NEW t \in Seq(Simple), NEW l, LineIs(l, s, t)
    PROVE  /\ GetBackward(l.g, Cursor(l.g)).char = IF s = <<>> THEN NONE ELSE Last(s)
           /\ GetForward(l.g, Cursor(l.g)).char = IF t = <<>> THEN NONE ELSE Head(t)
<1>1. PICK g, w, x : l = Line(g, w, x, ContextAt(s)) /\ Coded(g, s, t)
  BY DEF LineIs
<1>2. l.g = g
  BY <1>1, FieldsOf
<1> QED  BY <1>1, <1>2, LookBackIs, LookAheadIs

LEMMA WithinDoes ==
    ASSUME TextIs(line), NEW r \in Seq(Simple), ~line.context.algebraic, line' = Within(r)
    PROVE  Editor!TypeApart(r, " ")
<1>a. \A x, y, z \in Seq(Simple) : (x \o y) \o z = x \o (y \o z)
  BY Regrouped
<1>b. \A x, y \in Seq(Simple) : \A m : LineIs(m, x, y) =>
          GetForward(m.g, Cursor(m.g)).char = IF y = <<>> THEN NONE ELSE Head(y)
  BY LookIs
<1>c. \A x, y \in Seq(Simple) : \A m, d : LineIs(m, x, y) =>
          LineIs(Spaced(m, d), x \o (IF d # NONE /\ d # " " THEN <<" ">> ELSE <<>>), y)
  BY SpacedIs
<1>1. PICK s \in Seq(Simple), t \in Seq(Simple) : LineIs(line, s, t)
  BY DEF TextIs
<1>2. Before = s /\ After = t
  BY <1>1, SeenIs
<1>d. \A x \in Seq(Simple) : (s \o x) \o r = s \o (x \o r)
  BY <1>a
<1>3. " " # NONE
  BY InputAssumption, BytesAssumption DEF Chars, Simple
<1>4. <<>> \in Seq(Simple)
  OBVIOUS
<1> PICK b : b = GetBackward(line.g, Cursor(line.g)).char
  OBVIOUS
<1> PICK w0 : w0 = IF s = <<>> \/ Last(s) = " " THEN <<>> ELSE <<" ">>
  OBVIOUS
<1>5. w0 \in Seq(Simple)
  BY <1>4, BlankIs
<1>6. b = IF s = <<>> THEN NONE ELSE Last(s)
  BY <1>1, LookIs
<1>7. w0 = IF b # NONE /\ b # " " THEN <<" ">> ELSE <<>>
  <2>1. CASE s = <<>>
    BY <1>6, <2>1
  <2>2. CASE s # <<>>
    <3>1. PICK v \in Seq(Simple), d \in Simple : s = Append(v, d)
      BY <2>2, LastIs
    <3>2. b = d /\ Last(s) = d /\ d # NONE
      BY <1>6, <2>2, <3>1, Pieces, BytesAssumption DEF Chars, Simple
    <3> QED  BY <2>2, <3>2
  <2> QED  BY <2>1, <2>2
<1>8. LineIs(Spaced(line, b), s \o w0, t)
  BY <1>1, <1>7, SpacedIs
<1> PICK u \in Seq(Simple) : u = s \o w0
  <2>1. s \o w0 \in Seq(Simple)
    BY <1>5, JoinIs
  <2> QED  BY <2>1
<1> PICK l : l = InsertText(Spaced(line, b), r)
  OBVIOUS
<1> PICK v \in Seq(Simple) : v = u \o r
  <2>1. u \o r \in Seq(Simple)
    BY JoinIs
  <2> QED  BY <2>1
<1>9. LineIs(l, v, t)
  BY <1>8, InsertTextIs
<1>10. v = s \o (w0 \o r)
  BY <1>d, <1>5, Zenon
<1> PICK c : c = GetForward(l.g, Cursor(l.g)).char
  OBVIOUS
<1>11. c = IF t = <<>> THEN NONE ELSE Head(t)
  <2>1. GetForward(l.g, Cursor(l.g)).char = IF t = <<>> THEN NONE ELSE Head(t)
    BY <1>b, <1>9, Zenon
  <2> QED  BY <2>1
<1>12. line' = IF c = " " THEN MoveForward(l) ELSE Spaced(l, c)
  BY DEF Within, Blank
<1>13. CASE t = <<>>
  <2>1. line' = Spaced(l, c) /\ c = NONE
    BY <1>3, <1>11, <1>12, <1>13
  <2>2. line' = l
    BY <2>1 DEF Spaced
  <2>3. Before' = v /\ After' = t
    BY <1>9, <2>2, SeenIs
  <2> PICK word : word = w0 \o r
    OBVIOUS
  <2>4. word = (IF Before = <<>> \/ Last(Before) = " " THEN <<>> ELSE <<" ">>) \o r
    BY <1>2, Zenon
  <2>5. After = <<>> /\ Before' = Before \o word /\ After' = After
    BY <1>2, <1>10, <1>13, <2>3, Zenon
  <2> QED  BY <2>4, <2>5, EditorSame, Zenon DEF Editor!TypeApart
<1>14. CASE t # <<>> /\ Head(t) = " "
  <2>1. PICK z \in Seq(Simple), d \in Simple : t = <<d>> \o z
    BY <1>14, HeadIs
  <2>2. Head(t) = d /\ Tail(t) = z
    BY <2>1, Pieces
  <2>3. LineIs(MoveForward(l), Append(v, d), z)
    BY <1>9, <2>1, MoveForwardIs
  <2>4. line' = MoveForward(l)
    BY <1>11, <1>12, <1>14
  <2>5. Append(v, d) = v \o <<d>> /\ Append(v, d) \in Seq(Simple)
    BY OneMore
  <2>6. Before' = v \o <<d>> /\ After' = z
    BY <2>3, <2>4, <2>5, SeenIs
  <2> PICK word : word = w0 \o r
    OBVIOUS
  <2>7. word = (IF Before = <<>> \/ Last(Before) = " " THEN <<>> ELSE <<" ">>) \o r
    BY <1>2, Zenon
  <2>8. /\ After # <<>> /\ Head(After) = " "
        /\ Before' = Before \o word \o <<" ">> /\ After' = Tail(After)
    BY <1>2, <1>10, <1>14, <2>2, <2>6, Zenon
  <2> QED  BY <2>7, <2>8, EditorSame, Zenon DEF Editor!TypeApart
<1>15. CASE t # <<>> /\ Head(t) # " "
  <2>1. PICK z \in Seq(Simple), d \in Simple : t = <<d>> \o z
    BY <1>15, HeadIs
  <2>2. Head(t) = d /\ d # NONE
    BY <2>1, Pieces, BytesAssumption DEF Chars, Simple
  <2>3. line' = Spaced(l, c) /\ c # NONE /\ c # " "
    BY <1>11, <1>12, <1>15, <2>2
  <2>4. PICK y \in Seq(Simple) : y = <<" ">>
    BY BlankIs
  <2>5. LineIs(line', v \o y, t)
    <3>1. LineIs(Spaced(l, c), v \o y, t)
      BY <1>9, <2>3, <2>4, SpacedOut
    <3> QED  BY <2>3, <3>1, Zenon
  <2>6. v \o y \in Seq(Simple)
    BY JoinIs
  <2>7. Before' = v \o y /\ After' = t
    BY <2>5, <2>6, SeenIs
  <2> PICK word : word = w0 \o r
    OBVIOUS
  <2>8. word = (IF Before = <<>> \/ Last(Before) = " " THEN <<>> ELSE <<" ">>) \o r
    BY <1>2, Zenon
  <2>9. /\ After # <<>> /\ Head(After) # " "
        /\ Before' = Before \o word \o <<" ">> /\ After' = After
    BY <1>2, <1>10, <1>15, <2>4, <2>7, Zenon
  <2> QED  BY <2>8, <2>9, EditorSame, Zenon DEF Editor!TypeApart
<1> QED  BY <1>13, <1>14, <1>15

LEMMA SpecialIs ==
    ASSUME NEW a, Spells(a)
    PROVE  \A id : a = Special(id) <=> a.type = "special" /\ a.name = id
<1>1. a = Act(a.type, a.name)
  BY DEF Spells
<1> QED  BY <1>1 DEF Special, Act

LEMMA Stays ==
    ASSUME line' = line
    PROVE  Editor!Stay
BY Zenon DEF Before, After, Editor!Stay

LEMMA Clears ==
    ASSUME line' = Cleared(line)
    PROVE  Editor!Clear
<1>1. LineIs(line', <<>>, <<>>) /\ <<>> \in Seq(Simple)
  BY ClearedIs
<1>2. Before' = <<>> /\ After' = <<>>
  BY <1>1, SeenIs
<1> QED  BY <1>2 DEF Editor!Clear

LEMMA WritesDo ==
    ASSUME TextIs(line), NEW r \in Seq(Simple), line' = InsertText(line, r)
    PROVE  Editor!Type(r)
<1>1. PICK s \in Seq(Simple), t \in Seq(Simple) : LineIs(line, s, t)
  BY DEF TextIs
<1>2. Before = s /\ After = t
  BY <1>1, SeenIs
<1>3. s \o r \in Seq(Simple)
  BY JoinIs
<1>4. LineIs(line', s \o r, t)
  BY <1>1, InsertTextIs
<1>5. Before' = s \o r /\ After' = t
  BY <1>3, <1>4, SeenIs
<1> QED  BY <1>2, <1>5, Zenon DEF Editor!Type

LEMMA CharDoes ==
    ASSUME TextIs(line), NEW c \in Simple, line' = InsertOne(line, c)
    PROVE  Editor!Type(<<c>>)
<1>1. PICK s \in Seq(Simple), t \in Seq(Simple) : LineIs(line, s, t)
  BY DEF TextIs
<1>2. Before = s /\ After = t
  BY <1>1, SeenIs
<1>3. Append(s, c) = s \o <<c>> /\ Append(s, c) \in Seq(Simple)
  BY OneMore
<1>4. LineIs(line', Append(s, c), t)
  BY <1>1, InsertOneIs
<1>5. Before' = s \o <<c>> /\ After' = t
  BY <1>3, <1>4, SeenIs
<1> QED  BY <1>2, <1>5, Zenon DEF Editor!Type

LEMMA EditsDo ==
    ASSUME TextIs(line)
    PROVE  /\ line' = EraseBackward(line) => Editor!EraseLeft
           /\ line' = EraseForward(line) => Editor!EraseRight
           /\ line' = MoveBackward(line) => Editor!MoveLeft
           /\ line' = MoveForward(line) => Editor!MoveRight
<1>1. PICK s \in Seq(Simple), t \in Seq(Simple) : LineIs(line, s, t)
  BY DEF TextIs
<1>2. Before = s /\ After = t
  BY <1>1, SeenIs
<1>3. /\ IF s = <<>> THEN LineIs(MoveBackward(line), s, t)
         ELSE LineIs(MoveBackward(line), Front(s), <<Last(s)>> \o t)
      /\ IF t = <<>> THEN LineIs(MoveForward(line), s, t)
         ELSE LineIs(MoveForward(line), Append(s, Head(t)), Tail(t))
      /\ LineIs(EraseBackward(line), IF s = <<>> THEN <<>> ELSE Front(s), t)
      /\ LineIs(EraseForward(line), s, IF t = <<>> THEN <<>> ELSE Tail(t))
  BY <1>1, MovesAndErases
<1>4. <<>> \in Seq(Simple)
  OBVIOUS
<1>5. s # <<>> => Front(s) \in Seq(Simple) /\ <<Last(s)>> \o t \in Seq(Simple)
  <2>1. ASSUME s # <<>> PROVE Front(s) \in Seq(Simple) /\ <<Last(s)>> \o t \in Seq(Simple)
    <3>1. PICK u \in Seq(Simple), c \in Simple : s = Append(u, c)
      BY <2>1, LastIs
    <3> QED  BY <3>1, Pieces, AfterOne
  <2> QED  BY <2>1
<1>6. t # <<>> => Tail(t) \in Seq(Simple) /\ Append(s, Head(t)) \in Seq(Simple)
  OBVIOUS
<1>7. ASSUME line' = EraseBackward(line) PROVE Editor!EraseLeft
  <2> PICK u : u = IF s = <<>> THEN <<>> ELSE Front(s)
    OBVIOUS
  <2>1. u \in Seq(Simple) /\ LineIs(line', u, t)
    BY <1>3, <1>4, <1>5, <1>7
  <2>2. Before' = u /\ After' = t
    BY <2>1, SeenIs
  <2> QED  BY <1>2, <2>2, EditorSame, Zenon DEF Editor!EraseLeft
<1>8. ASSUME line' = EraseForward(line) PROVE Editor!EraseRight
  <2> PICK u : u = IF t = <<>> THEN <<>> ELSE Tail(t)
    OBVIOUS
  <2>1. u \in Seq(Simple) /\ LineIs(line', s, u)
    BY <1>3, <1>4, <1>6, <1>8
  <2>2. Before' = s /\ After' = u
    BY <2>1, SeenIs
  <2> QED  BY <1>2, <2>2, Zenon DEF Editor!EraseRight
<1>9. ASSUME line' = MoveBackward(line) PROVE Editor!MoveLeft
  <2>1. CASE s = <<>>
    <3>1. LineIs(line', s, t)
      BY <1>3, <1>9, <2>1
    <3>2. Before' = s /\ After' = t
      BY <3>1, SeenIs
    <3> QED  BY <1>2, <2>1, <3>2, Zenon DEF Editor!MoveLeft
  <2>2. CASE s # <<>>
    <3>1. LineIs(line', Front(s), <<Last(s)>> \o t)
      BY <1>3, <1>9, <2>2
    <3>2. Before' = Front(s) /\ After' = <<Last(s)>> \o t
      BY <1>5, <2>2, <3>1, SeenIs
    <3> QED  BY <1>2, <2>2, <3>2, EditorSame, Zenon DEF Editor!MoveLeft
  <2> QED  BY <2>1, <2>2
<1>10. ASSUME line' = MoveForward(line) PROVE Editor!MoveRight
  <2>1. CASE t = <<>>
    <3>1. LineIs(line', s, t)
      BY <1>3, <1>10, <2>1
    <3>2. Before' = s /\ After' = t
      BY <3>1, SeenIs
    <3> QED  BY <1>2, <2>1, <3>2, Zenon DEF Editor!MoveRight
  <2>2. CASE t # <<>>
    <3>1. LineIs(line', Append(s, Head(t)), Tail(t))
      BY <1>3, <1>10, <2>2
    <3>2. Before' = Append(s, Head(t)) /\ After' = Tail(t)
      BY <1>6, <2>2, <3>1, SeenIs
    <3> QED  BY <1>2, <2>2, <3>2, Zenon DEF Editor!MoveRight
  <2> QED  BY <2>1, <2>2
<1> QED  BY <1>7, <1>8, <1>9, <1>10

\* Where the cursor is, as the field knows.
LEMMA HereIs ==
    ASSUME TextIs(line)
    PROVE  line.context = Here /\ Here.prog \in Int
<1>1. line.context = Here
  BY ContextFollows
<1>2. PICK s \in Seq(Simple), t \in Seq(Simple) : LineIs(line, s, t)
  BY DEF TextIs
<1>3. Before = s
  BY <1>2, SeenIs
<1>4. Here = ContextAt(s)
  BY <1>3 DEF Here, ContextAt
<1>5. ContextAt(s) \in Contexts
  BY ContextOn
<1>6. \A x \in Contexts : x.prog \in Int
  BY DEF Contexts
<1> QED  BY <1>1, <1>4, <1>5, <1>6

LEMMA SpecialDoes ==
    ASSUME TextIs(line), TapIs, NEW a, Clean(a), a.type = "special", KeySpecial(a.name)
    PROVE  Does(a)
<1>0. \A id : a = Special(id) <=> a.name = id
  BY SpecialIs DEF Clean
<1>1. TextIs(line)
  OBVIOUS
<1>2. CASE ~visible
  <2>1. Editor!Stay
    BY <1>2, Stays DEF KeySpecial, field
  <2> QED  BY <1>2, <2>1, <1>0 DEF Does, Ends
<1>3. CASE visible /\ a.name = "ABORT"
  <2>1. Editor!Clear
    BY <1>3, Clears DEF KeySpecial, KeyABORT
  <2> QED  BY <1>3, <2>1, <1>0 DEF Does, Ends
<1>4. CASE visible /\ a.name = "ENTER"
  <2>1. Editor!Clear \/ Editor!Stay
    BY <1>4, Clears, Stays DEF KeySpecial, EnterInput
  <2> QED  BY <1>4, <2>1, <1>0 DEF Does, Ends
<1>5. CASE visible /\ a.name = "BS"
  <2>1. Editor!EraseLeft
    BY <1>1, <1>5, EditsDo DEF KeySpecial, Edited
  <2> QED  BY <1>5, <2>1, <1>0 DEF Does, Ends
<1>6. CASE visible /\ a.name = "DEL"
  <2>1. Editor!EraseRight
    BY <1>1, <1>6, EditsDo DEF KeySpecial, Edited
  <2> QED  BY <1>6, <2>1, <1>0 DEF Does, Ends
<1>7. CASE visible /\ a.name = "LEFT"
  <2>1. Editor!MoveLeft
    BY <1>1, <1>7, EditsDo DEF KeySpecial, Edited
  <2> QED  BY <1>7, <2>1, <1>0 DEF Does, Ends
<1>8. CASE visible /\ a.name = "RIGHT"
  <2>1. Editor!MoveRight
    BY <1>1, <1>8, EditsDo DEF KeySpecial, Edited
  <2> QED  BY <1>8, <2>1, <1>0 DEF Does, Ends
<1>9. CASE visible /\ a.name \notin {"ABORT", "ENTER", "BS", "DEL", "LEFT", "RIGHT"}
  <2>1. Editor!Stay
    BY <1>9, Stays DEF KeySpecial, Edited
  <2> QED  BY <1>9, <2>1, <1>0 DEF Does, Ends
<1> QED  BY <1>2, <1>3, <1>4, <1>5, <1>6, <1>7, <1>8, <1>9

LEMMA CommandDoes ==
    ASSUME TextIs(line), TapIs, NEW a, Clean(a), a.type = "command", KeyCommand(Spelled[a.name])
    PROVE  Does(a)
<1>0. \A id : a # Special(id)
  BY SpecialIs DEF Clean
<1>1. TextIs(line)
  OBVIOUS
<1> PICK r \in Seq(Simple) : r = Spelled[a.name]
  BY DEF Clean
<1>2. line.context = Here /\ Here.prog \in Int
  BY HereIs
<1>3. CASE ~visible
  <2>1. Editor!Stay
    BY <1>3, Stays DEF KeyCommand, field
  <2> QED  BY <1>3, <2>1, <1>0 DEF Does, Ends
<1>4. CASE visible /\ Here.algebraic
  <2>1. line' = InsertText(line, r)
    BY <1>2, <1>4 DEF KeyCommand, Written, Shown, Within
  <2>2. Editor!Type(r)
    BY <1>1, <2>1, WritesDo
  <2> QED  BY <1>4, <2>2, <1>0 DEF Does, Ends
<1>5. CASE visible /\ ~Here.algebraic /\ Here.prog > 0
  <2>1. line' = Within(r)
    BY <1>2, <1>5 DEF KeyCommand, Written, Shown
  <2>2. Editor!TypeApart(r, " ")
    BY <1>1, <1>2, <1>5, <2>1, WithinDoes
  <2>3. ~(Here.prog <= 0)
    BY <1>2, <1>5
  <2> QED  BY <1>5, <2>2, <2>3, <1>0 DEF Does, Ends
<1>6. CASE visible /\ ~Here.algebraic /\ ~(Here.prog > 0)
  <2>1. Editor!Clear \/ Editor!Stay
    BY <1>2, <1>6, Clears, Stays DEF KeyCommand, Written, EnterInput
  <2>2. Here.prog <= 0
    BY <1>2, <1>6
  <2> QED  BY <1>6, <2>1, <2>2, <1>0 DEF Does, Ends
<1> QED  BY <1>3, <1>4, <1>5, <1>6

\* Whatever the key, the line does what the key is for.
LEMMA PressDoes ==
    ASSUME TextIs(line), TapIs, NEW a, Clean(a), onKeyPress(a)
    PROVE  Does(a)
<1>0. \A id : a = Special(id) => a.type = "special"
  BY SpecialIs DEF Clean
<1>1. TextIs(line) /\ TapIs
  OBVIOUS
<1>2. CASE a.type \in {"void", "menu"}
  <2>1. Editor!Stay
    BY <1>2, Stays DEF onKeyPress, field
  <2> QED  BY <1>0, <1>2, <2>1 DEF Does, Ends
<1>3. CASE a.type = "command"
  BY <1>3, CommandDoes DEF onKeyPress
<1>4. CASE a.type = "special"
  BY <1>4, SpecialDoes DEF onKeyPress
<1>5. CASE a.type = "input"
  <2>1. KeyInput(Spelled[a.name]) /\ Spelled[a.name] \in Seq(Simple)
    BY <1>5 DEF onKeyPress, Clean, Spells
  <2>2. Editor!Type(Spelled[a.name])
    BY <1>1, <2>1, WritesDo DEF KeyInput, Shown
  <2> QED  BY <1>0, <1>5, <2>2 DEF Does, Ends
<1>6. CASE a.type = "inputchar"
  <2>1. KeyInputChar(a.name) /\ a.name \in Simple
    BY <1>6 DEF onKeyPress, Clean, Spells
  <2>2. Editor!Type(<<a.name>>)
    BY <1>1, <2>1, CharDoes DEF KeyInputChar, Shown
  <2> QED  BY <1>0, <1>6, <2>2 DEF Does, Ends
<1>7. CASE a.type = "braces"
  <2> PICK r : r = Spelled[a.name]
    OBVIOUS
  <2>1. KeyBraces(r) /\ r \in Seq(Simple) /\ r # <<>>
    BY <1>7 DEF onKeyPress, Clean, Spells
  <2>2. Editor!TypeAround(r, Inner(r))
    BY <1>1, <2>1, BracesDo
  <2> QED  BY <1>0, <1>7, <2>2 DEF Does, Ends
<1>8. CASE a.type = "multitap"
  <2> PICK r : r = Spelled[a.name]
    OBVIOUS
  <2>1. KeyMultiTap(r) /\ r \in Seq(Simple) /\ r # <<>>
    BY <1>8 DEF onKeyPress, Clean, Spells
  <2>2. IF Repeats(r) THEN Editor!Retype(r[NextTap(r)]) ELSE Editor!Type(<<r[NextTap(r)]>>)
    BY <1>1, <2>1, MultiTapDoes
  <2> QED  BY <1>0, <1>8, <2>2 DEF Does, Ends
<1> QED  BY <1>2, <1>3, <1>4, <1>5, <1>6, <1>7, <1>8 DEF Clean, Spells

-------------------------------------------------------------------------------
(* The keys that modify others: all 52 are gone through. *)

Plainly(a) == a.type # "special" \/ a.name \notin {"SHIFT", "ALPHA", "ON"}
PlainKey(d) == Plainly(d.normal) /\ Plainly(d.shift) /\ Plainly(d.alpha) /\ Plainly(d.alphaShift)

LEMMA PlainActions ==
    /\ \A s : /\ Plainly(Command(s)) /\ Plainly(Menu(s)) /\ Plainly(Input(s))
              /\ Plainly(MultiTap(s)) /\ Plainly(Braces(s))
    /\ \A s : s \notin {"SHIFT", "ALPHA", "ON"} => Plainly(Special(s))
BY DEF Plainly, Command, Menu, Input, MultiTap, Braces, Special, Act

LEMMA PlainKeys ==
    \A s, t, u, l : /\ PlainKey(Letter(Menu(s), Menu(t), u, l)) /\ PlainKey(Letter(Menu(s), Command(t), u, l))
                    /\ PlainKey(Letter(Command(s), Menu(t), u, l)) /\ PlainKey(Letter(Command(s), Command(t), u, l))
                    /\ PlainKey(Letter(Braces(s), MultiTap(t), u, l)) /\ PlainKey(Letter(Input(s), Input(t), u, l))
                    /\ PlainKey(Twice(Input(s), Braces(t))) /\ PlainKey(Twice(Input(s), MultiTap(t)))
                    /\ PlainKey(Same(Input(s)))
                    /\ PlainKey(Key(Command(s), Command(t), Input(u), Command(l)))
BY PlainActions DEF PlainKey, Letter, Twice, Same, Key

LEMMA PlainSpecials ==
    ASSUME NEW s, NEW t, s \notin {"SHIFT", "ALPHA", "ON"}, t \notin {"SHIFT", "ALPHA", "ON"}
    PROVE  /\ PlainKey(Same(Special(s))) /\ PlainKey(Twice(Special(s), Special(t)))
           /\ \A c, u, l : PlainKey(Letter(Special(s), MultiTap(c), u, l))
BY PlainActions DEF PlainKey, Letter, Twice, Same, Key

LEMMA FunctionPlain ==
    ASSUME NEW f, NEW u, NEW l, NEW e, f \notin {"SHIFT", "ALPHA", "ON"}
    PROVE  PlainKey(Function(f, u, l, e))
<1>1. Plainly(Special(f)) /\ Plainly(Input(u)) /\ Plainly(Input(l))
  BY PlainActions
<1> QED  BY <1>1 DEF PlainKey, Function, Letter, Key

LEMMA DisplayPlain ==
    Len(BelowTheDisplay) = 18 /\ \A i \in 1 .. 18 : PlainKey(BelowTheDisplay[i])
<1>1. Len(BelowTheDisplay) = 18
  BY DEF BelowTheDisplay
<1>2. \A i \in 1 .. 18 : i \in 1 .. 6 \/ i \in 7 .. 12 \/ i \in 13 .. 18
  OBVIOUS
<1>3. ASSUME NEW i \in 1 .. 6 PROVE PlainKey(BelowTheDisplay[i])
  BY FunctionPlain DEF BelowTheDisplay
<1>4. ASSUME NEW i \in 7 .. 12 PROVE PlainKey(BelowTheDisplay[i])
  <2>1. PlainKey(BelowTheDisplay[7]) /\ PlainKey(BelowTheDisplay[8]) /\ PlainKey(BelowTheDisplay[9])
    BY PlainKeys DEF BelowTheDisplay
  <2>2. PlainKey(BelowTheDisplay[10]) /\ PlainKey(BelowTheDisplay[11]) /\ PlainKey(BelowTheDisplay[12])
    BY PlainKeys DEF BelowTheDisplay
  <2> QED  BY <2>1, <2>2
<1>5. ASSUME NEW i \in 13 .. 18 PROVE PlainKey(BelowTheDisplay[i])
  <2>1. PlainKey(BelowTheDisplay[13]) /\ PlainKey(BelowTheDisplay[14]) /\ PlainKey(BelowTheDisplay[15])
    BY PlainKeys DEF BelowTheDisplay
  <2>2. PlainKey(BelowTheDisplay[16]) /\ PlainKey(BelowTheDisplay[17]) /\ PlainKey(BelowTheDisplay[18])
    BY PlainKeys DEF BelowTheDisplay
  <2> QED  BY <2>1, <2>2
<1> QED  BY <1>1, <1>2, <1>3, <1>4, <1>5

LEMMA FunctionsPlain ==
    Len(FunctionKeys) = 8 /\ \A i \in 1 .. 8 : PlainKey(FunctionKeys[i])
<1>1. Len(FunctionKeys) = 8
  BY DEF FunctionKeys
<1>2. ASSUME NEW i \in 1 .. 8 PROVE PlainKey(FunctionKeys[i])
  <2>1. PlainKey(FunctionKeys[1]) /\ PlainKey(FunctionKeys[2]) /\ PlainKey(FunctionKeys[3])
    BY PlainKeys, PlainSpecials DEF FunctionKeys
  <2>2. PlainKey(FunctionKeys[4]) /\ PlainKey(FunctionKeys[5]) /\ PlainKey(FunctionKeys[6])
    BY PlainKeys, PlainSpecials DEF FunctionKeys
  <2>3. PlainKey(FunctionKeys[7]) /\ PlainKey(FunctionKeys[8])
    BY PlainKeys, PlainSpecials DEF FunctionKeys
  <2> QED  BY <2>1, <2>2, <2>3
<1> QED  BY <1>1, <1>2

LEMMA DigitsPlain ==
    Len(DigitKeys) = 16 /\ \A i \in 1 .. 16 : PlainKey(DigitKeys[i])
<1>1. Len(DigitKeys) = 16
  BY DEF DigitKeys
<1>2. ASSUME NEW i \in 1 .. 15 PROVE PlainKey(DigitKeys[i])
  <2>1. PlainKey(DigitKeys[1]) /\ PlainKey(DigitKeys[2]) /\ PlainKey(DigitKeys[3])
    BY PlainKeys DEF DigitKeys
  <2>2. PlainKey(DigitKeys[4]) /\ PlainKey(DigitKeys[5]) /\ PlainKey(DigitKeys[6])
    BY PlainKeys DEF DigitKeys
  <2>3. PlainKey(DigitKeys[7]) /\ PlainKey(DigitKeys[8]) /\ PlainKey(DigitKeys[9])
    BY PlainKeys DEF DigitKeys
  <2>4. PlainKey(DigitKeys[10]) /\ PlainKey(DigitKeys[11]) /\ PlainKey(DigitKeys[12])
    BY PlainKeys DEF DigitKeys
  <2>5. PlainKey(DigitKeys[13]) /\ PlainKey(DigitKeys[14]) /\ PlainKey(DigitKeys[15])
    BY PlainKeys DEF DigitKeys
  <2> QED  BY <2>1, <2>2, <2>3, <2>4, <2>5
<1>3. PlainKey(DigitKeys[16])
  <2>1. Plainly(Special("ENTER")) /\ Plainly(Command("DUP"))
    BY PlainActions
  <2> QED  BY <2>1 DEF DigitKeys, PlainKey, Twice, Key
<1> QED  BY <1>1, <1>2, <1>3

LEMMA ArrowsPlain ==
    Len(Arrows) = 4 /\ \A i \in 1 .. 4 : PlainKey(Arrows[i])
<1>1. Len(Arrows) = 4
  BY DEF Arrows
<1>2. ASSUME NEW i \in 1 .. 4 PROVE PlainKey(Arrows[i])
  <2>1. PlainKey(Arrows[1]) /\ PlainKey(Arrows[2]) /\ PlainKey(Arrows[3])
    BY PlainSpecials DEF Arrows
  <2>2. PlainKey(Arrows[4])
    BY PlainSpecials DEF Arrows
  <2> QED  BY <2>1, <2>2
<1> QED  BY <1>1, <1>2

LEMMA ModifiersAre ==
    /\ Len(ModifierRow) = 6
    /\ ModifierRow[1] = Twice(Special("ON"), Special("OFF"))
      /\ ModifierRow[2] = Same(Special("SHIFT")) /\ ModifierRow[3] = Same(Special("ALPHA"))
    /\ \A i \in 4 .. 6 : PlainKey(ModifierRow[i])
<1>1. /\ Len(ModifierRow) = 6
      /\ ModifierRow[1] = Twice(Special("ON"), Special("OFF"))
      /\ ModifierRow[2] = Same(Special("SHIFT")) /\ ModifierRow[3] = Same(Special("ALPHA"))
  BY DEF ModifierRow
<1>2. ASSUME NEW i \in 4 .. 6 PROVE PlainKey(ModifierRow[i])
  <2>1. PlainKey(ModifierRow[4])
    BY PlainKeys DEF ModifierRow
  <2>2. PlainKey(ModifierRow[5])
    BY PlainKeys DEF ModifierRow
  <2>3. PlainKey(ModifierRow[6])
    BY PlainActions DEF ModifierRow, PlainKey, Letter, Key
  <2> QED  BY <2>1, <2>2, <2>3
<1> QED  BY <1>1, <1>2

Rows == {BelowTheDisplay[i] : i \in 1 .. 18} \cup {ModifierRow[i] : i \in 1 .. 6}
        \cup {FunctionKeys[i] : i \in 1 .. 8} \cup {DigitKeys[i] : i \in 1 .. 16} \cup {Arrows[i] : i \in 1 .. 4}

LEMMA RowsAre ==
    /\ BelowTheDisplay \in Seq(Rows) /\ ModifierRow \in Seq(Rows) /\ FunctionKeys \in Seq(Rows)
    /\ DigitKeys \in Seq(Rows) /\ Arrows \in Seq(Rows)
<1>1. /\ BelowTheDisplay = [i \in 1 .. 18 |-> BelowTheDisplay[i]]
      /\ ModifierRow = [i \in 1 .. 6 |-> ModifierRow[i]]
      /\ FunctionKeys = [i \in 1 .. 8 |-> FunctionKeys[i]]
      /\ DigitKeys = [i \in 1 .. 16 |-> DigitKeys[i]]
      /\ Arrows = [i \in 1 .. 4 |-> Arrows[i]]
  BY DEF BelowTheDisplay, ModifierRow, FunctionKeys, DigitKeys, Arrows
<1>2. ASSUME NEW f, NEW n \in Nat, f = [i \in 1 .. n |-> f[i]], \A i \in 1 .. n : f[i] \in Rows
      PROVE  f \in Seq(Rows)
  BY <1>2
<1> QED  BY <1>1, <1>2 DEF Rows

Lines1 == BelowTheDisplay \o ModifierRow
Lines2 == Lines1 \o FunctionKeys
Lines3 == Lines2 \o DigitKeys

\* A row after others.
Follows(w, s, t, m, n) ==
    /\ w \in Seq(Rows) /\ Len(w) = m + n
    /\ \A i \in 1 .. m : w[i] = s[i]
    /\ \A i \in 1 .. n : w[m + i] = t[i]

LEMMA JoinedRows ==
    ASSUME NEW s \in Seq(Rows), NEW t \in Seq(Rows), NEW m \in Nat, NEW n \in Nat, Len(s) = m, Len(t) = n
    PROVE  Follows(s \o t, s, t, m, n)
<1>1. s \o t \in Seq(Rows) /\ Len(s \o t) = m + n
  OBVIOUS
<1>2. ASSUME NEW i \in 1 .. m PROVE (s \o t)[i] = s[i]
  OBVIOUS
<1>3. ASSUME NEW i \in 1 .. n PROVE (s \o t)[m + i] = t[i]
  <2>1. m + i \in 1 .. m + n /\ ~(m + i <= m) /\ (m + i) - m = i
    OBVIOUS
  <2> QED  BY <2>1
<1> QED  BY <1>1, <1>2, <1>3 DEF Follows

LEMMA KeyRows ==
    /\ Len(keyDefs) = 52
    /\ keyDefs[19] = Twice(Special("ON"), Special("OFF"))
    /\ keyDefs[20] = Same(Special("SHIFT")) /\ keyDefs[21] = Same(Special("ALPHA"))
    /\ \A i \in 1 .. 52 : i \notin {19, 20, 21} => PlainKey(keyDefs[i])
<1>1. /\ Len(BelowTheDisplay) = 18 /\ Len(ModifierRow) = 6 /\ Len(FunctionKeys) = 8
      /\ Len(DigitKeys) = 16 /\ Len(Arrows) = 4
  BY DisplayPlain, ModifiersAre, FunctionsPlain, DigitsPlain, ArrowsPlain
<1>2. 6 \in Nat /\ 18 \in Nat /\ 8 \in Nat /\ 24 \in Nat /\ 16 \in Nat /\ 32 \in Nat /\ 4 \in Nat /\ 48 \in Nat
  OBVIOUS
<1>3. Follows(Lines1, BelowTheDisplay, ModifierRow, 18, 6)
  BY <1>1, <1>2, RowsAre, JoinedRows, Zenon DEF Lines1
<1>4. Follows(Lines2, Lines1, FunctionKeys, 24, 8)
  <2>1. Lines1 \in Seq(Rows) /\ Len(Lines1) = 24
    BY <1>3 DEF Follows
  <2> QED  BY <1>1, <1>2, <2>1, RowsAre, JoinedRows, Zenon DEF Lines2
<1>5. Follows(Lines3, Lines2, DigitKeys, 32, 16)
  <2>1. Lines2 \in Seq(Rows) /\ Len(Lines2) = 32
    BY <1>4 DEF Follows
  <2> QED  BY <1>1, <1>2, <2>1, RowsAre, JoinedRows, Zenon DEF Lines3
<1>6. Follows(keyDefs, Lines3, Arrows, 48, 4)
  <2>1. Lines3 \in Seq(Rows) /\ Len(Lines3) = 48
    BY <1>5 DEF Follows
  <2>2. keyDefs = Lines3 \o Arrows
    BY Zenon DEF keyDefs, Lines1, Lines2, Lines3
  <2> QED  BY <1>1, <1>2, <2>1, <2>2, RowsAre, JoinedRows, Zenon
<1>7. /\ \A i \in 1 .. 18 : keyDefs[i] = BelowTheDisplay[i]
      /\ \A i \in 1 .. 6 : keyDefs[18 + i] = ModifierRow[i]
      /\ \A i \in 1 .. 8 : keyDefs[24 + i] = FunctionKeys[i]
      /\ \A i \in 1 .. 16 : keyDefs[32 + i] = DigitKeys[i]
  <2>1. ASSUME NEW i \in 1 .. 18 PROVE keyDefs[i] = BelowTheDisplay[i]
    <3>1. i \in 1 .. 24 /\ i \in 1 .. 32 /\ i \in 1 .. 48
      OBVIOUS
    <3> QED  BY <1>3, <1>4, <1>5, <1>6, <3>1, Zenon DEF Follows
  <2>2. ASSUME NEW i \in 1 .. 6 PROVE keyDefs[18 + i] = ModifierRow[i]
    <3>1. 18 + i \in 1 .. 24 /\ 18 + i \in 1 .. 32 /\ 18 + i \in 1 .. 48
      OBVIOUS
    <3>2. Lines1[18 + i] = ModifierRow[i] /\ Lines2[18 + i] = Lines1[18 + i]
      BY <1>3, <1>4, <3>1, Zenon DEF Follows
    <3>3. Lines3[18 + i] = Lines2[18 + i] /\ keyDefs[18 + i] = Lines3[18 + i]
      BY <1>5, <1>6, <3>1, Zenon DEF Follows
    <3> QED  BY <3>2, <3>3
  <2>3. ASSUME NEW i \in 1 .. 8 PROVE keyDefs[24 + i] = FunctionKeys[i]
    <3>1. 24 + i \in 1 .. 32 /\ 24 + i \in 1 .. 48
      OBVIOUS
    <3> QED  BY <1>4, <1>5, <1>6, <3>1, Zenon DEF Follows
  <2>4. ASSUME NEW i \in 1 .. 16 PROVE keyDefs[32 + i] = DigitKeys[i]
    <3>1. 32 + i \in 1 .. 48
      OBVIOUS
    <3> QED  BY <1>5, <1>6, <3>1, Zenon DEF Follows
  <2> QED  BY <2>1, <2>2, <2>3, <2>4, Zenon
<1>8. keyDefs[19] = ModifierRow[1] /\ keyDefs[20] = ModifierRow[2] /\ keyDefs[21] = ModifierRow[3]
  <2>1. /\ keyDefs[18 + 1] = ModifierRow[1] /\ keyDefs[18 + 2] = ModifierRow[2]
        /\ keyDefs[18 + 3] = ModifierRow[3]
    BY <1>7
  <2> QED  BY <2>1
<1>9. ASSUME NEW i \in 1 .. 52, i \notin {19, 20, 21} PROVE PlainKey(keyDefs[i])
  <2>1. CASE i \in 1 .. 18
    BY <1>7, <2>1, DisplayPlain
  <2>2. CASE i \in 22 .. 24
    <3>1. i - 18 \in 4 .. 6 /\ i = 18 + (i - 18)
      BY <2>2
    <3> QED  BY <1>7, <3>1, ModifiersAre
  <2>3. CASE i \in 25 .. 32
    <3>1. i - 24 \in 1 .. 8 /\ i = 24 + (i - 24)
      BY <2>3
    <3> QED  BY <1>7, <3>1, FunctionsPlain
  <2>4. CASE i \in 33 .. 48
    <3>1. i - 32 \in 1 .. 16 /\ i = 32 + (i - 32)
      BY <2>4
    <3> QED  BY <1>7, <3>1, DigitsPlain
  <2>5. CASE i \in 49 .. 52
    <3>1. i - 48 \in 1 .. 4 /\ i = 48 + (i - 48)
      BY <2>5
    <3> QED  BY <1>6, <3>1, ArrowsPlain DEF Follows
  <2> QED  BY <1>9, <2>1, <2>2, <2>3, <2>4, <2>5
<1>10. Len(keyDefs) = 52
  BY <1>6 DEF Follows
<1> QED  BY <1>8, <1>9, <1>10, ModifiersAre

\* SHIFT modifies whatever is held with it, and so does ALPHA; of the others ON alone, unless SHIFT
\* is held.
LEMMA ModifierIs ==
    ASSUME NEW k \in KeyCodes, NEW shift, NEW alpha
    PROVE  /\ k = 19 => Modifier(Printed(k, shift, alpha)) = {"SHIFT"}
           /\ k = 20 => Modifier(Printed(k, shift, alpha)) = {"ALPHA"}
           /\ k = 18 => Modifier(Printed(k, shift, alpha)) \subseteq {"META"}
           /\ k = 18 /\ ~shift /\ ~alpha => Modifier(Printed(k, shift, alpha)) = {"META"}
           /\ k \notin {18, 19, 20} => Modifier(Printed(k, shift, alpha)) = {}
<1>1. k + 1 \in 1 .. 52
  BY KeyAssumption, KeyRows
<1>2. ASSUME k = 19 PROVE Modifier(Printed(k, shift, alpha)) = {"SHIFT"}
  <2>1. keyDefs[k + 1] = Same(Special("SHIFT"))
    BY <1>2, KeyRows
  <2>2. Printed(k, shift, alpha) = Special("SHIFT")
    BY <2>1 DEF Printed, Same, Key
  <2> QED  BY <2>2 DEF Modifier, Special, Act
<1>3. ASSUME k = 20 PROVE Modifier(Printed(k, shift, alpha)) = {"ALPHA"}
  <2>1. keyDefs[k + 1] = Same(Special("ALPHA"))
    BY <1>3, KeyRows
  <2>2. Printed(k, shift, alpha) = Special("ALPHA")
    BY <2>1 DEF Printed, Same, Key
  <2> QED  BY <2>2 DEF Modifier, Special, Act
<1>4. ASSUME k \notin {18, 19, 20} PROVE Modifier(Printed(k, shift, alpha)) = {}
  <2>1. k + 1 \notin {19, 20, 21}
    BY <1>1, <1>4, KeyAssumption
  <2>2. PlainKey(keyDefs[k + 1])
    BY <1>1, <2>1, KeyRows
  <2>3. Plainly(Printed(k, shift, alpha))
    BY <2>2 DEF Printed, PlainKey
  <2> QED  BY <2>3 DEF Modifier, Plainly
<1>5. ASSUME k = 18
      PROVE  /\ Modifier(Printed(k, shift, alpha)) \subseteq {"META"}
             /\ ~shift /\ ~alpha => Modifier(Printed(k, shift, alpha)) = {"META"}
  <2>1. keyDefs[k + 1] = Twice(Special("ON"), Special("OFF"))
    BY <1>5, KeyRows
  <2>2. /\ Printed(k, shift, alpha) \in {Special("ON"), Special("OFF")}
        /\ ~shift /\ ~alpha => Printed(k, shift, alpha) = Special("ON")
    BY <2>1 DEF Printed, Twice, Key
  <2>3. Modifier(Special("ON")) = {"META"} /\ Modifier(Special("OFF")) = {}
    BY DEF Modifier, Special, Act
  <2> QED  BY <2>2, <2>3
<1> QED  BY <1>2, <1>3, <1>4, <1>5

LEMMA ModifiersOf ==
    ASSUME NEW k \in KeyCodes
    PROVE  /\ \A shift, alpha : /\ k = 19 => Modifier(Printed(k, shift, alpha)) = {"SHIFT"}
                                /\ k = 20 => Modifier(Printed(k, shift, alpha)) = {"ALPHA"}
                                /\ k = 18 => Modifier(Printed(k, shift, alpha)) \subseteq {"META"}
                                /\ k \notin {18, 19, 20} => Modifier(Printed(k, shift, alpha)) = {}
           /\ k = 19 => Modifier(Printed(k, FALSE, FALSE)) = {"SHIFT"}
           /\ k = 20 => Modifier(Printed(k, FALSE, FALSE)) = {"ALPHA"}
           /\ k = 18 => Modifier(Printed(k, FALSE, FALSE)) = {"META"}
           /\ k \notin {18, 19, 20} => Modifier(Printed(k, FALSE, FALSE)) = {}
<1>1. \A shift, alpha : /\ k = 19 => Modifier(Printed(k, shift, alpha)) = {"SHIFT"}
                        /\ k = 20 => Modifier(Printed(k, shift, alpha)) = {"ALPHA"}
                        /\ k = 18 => Modifier(Printed(k, shift, alpha)) \subseteq {"META"}
                        /\ k \notin {18, 19, 20} => Modifier(Printed(k, shift, alpha)) = {}
  BY ModifierIs
<1>2. /\ k = 19 => Modifier(Printed(k, FALSE, FALSE)) = {"SHIFT"}
      /\ k = 20 => Modifier(Printed(k, FALSE, FALSE)) = {"ALPHA"}
      /\ k \notin {18, 19, 20} => Modifier(Printed(k, FALSE, FALSE)) = {}
  BY <1>1, Zenon
<1>3. k = 18 => Modifier(Printed(k, FALSE, FALSE)) = {"META"}
  BY ModifierIs
<1> QED  BY <1>1, <1>2, <1>3

\* The modifiers the application has heard of are those whose keys are held.
ModeHeld == /\ kbdMode \subseteq {"SHIFT", "ALPHA"} /\ down \subseteq KeyCodes \cap {18, 19, 20}
            /\ "SHIFT" \in kbdMode <=> 19 \in down
            /\ "ALPHA" \in kbdMode <=> 20 \in down

\* ON is the one that is not taken back.
KeyInv == "META" \notin astray => ModeHeld

LEMMA HeldIs ==
    ASSUME ModeHeld
    PROVE  (Held("SHIFT") <=> "SHIFT" \in kbdMode) /\ (Held("ALPHA") <=> "ALPHA" \in kbdMode)
<1>1. ASSUME NEW k \in down
      PROVE  /\ k \in {18, 19, 20}
             /\ Modifier(Printed(k, FALSE, FALSE)) = {"SHIFT"} <=> k = 19
             /\ Modifier(Printed(k, FALSE, FALSE)) = {"ALPHA"} <=> k = 20
  <2>1. k \in KeyCodes /\ k \in {18, 19, 20}
    BY <1>1 DEF ModeHeld
  <2>2. /\ k = 18 => Modifier(Printed(k, FALSE, FALSE)) = {"META"}
        /\ k = 19 => Modifier(Printed(k, FALSE, FALSE)) = {"SHIFT"}
        /\ k = 20 => Modifier(Printed(k, FALSE, FALSE)) = {"ALPHA"}
    BY <2>1, ModifiersOf, Zenon
  <2>3. {"SHIFT"} # {"ALPHA"} /\ {"META"} # {"SHIFT"} /\ {"META"} # {"ALPHA"}
    OBVIOUS
  <2> QED  BY <2>1, <2>2, <2>3
<1> QED  BY <1>1 DEF ModeHeld, Held

LEMMA ActionIs ==
    ASSUME ModeHeld, NEW k
    PROVE  getKeyAction(k, kbdMode) = Printed(k, Held("SHIFT"), Held("ALPHA"))
<1>1. /\ "META" \notin kbdMode /\ "HEX" \notin kbdMode
      /\ (Either(kbdMode, "ALPHA", "ALPHA_LOCK") <=> "ALPHA" \in kbdMode)
      /\ (Either(kbdMode, "SHIFT", "SHIFT_LOCK") <=> "SHIFT" \in kbdMode)
  BY DEF ModeHeld, Either
<1>2. (Held("SHIFT") <=> "SHIFT" \in kbdMode) /\ (Held("ALPHA") <=> "ALPHA" \in kbdMode)
  BY HeldIs
<1>3. getKeyAction(k, kbdMode) =
        LET def == keyDefs[k + 1]
        IN  IF Either(kbdMode, "ALPHA", "ALPHA_LOCK")
            THEN (IF Either(kbdMode, "SHIFT", "SHIFT_LOCK") THEN def.alphaShift ELSE def.alpha)
            ELSE (IF Either(kbdMode, "SHIFT", "SHIFT_LOCK") THEN def.shift ELSE def.normal)
  BY <1>1, Zenon DEF getKeyAction
<1> QED  BY <1>1, <1>2, <1>3 DEF Printed

LEMMA KeyInit == LineInit => KeyInv
BY DEF LineInit, ModeHeld, KeyInv

\* A key that goes down or up, ON among them once it means OFF.
LEMMA KeyStays ==
    ASSUME ModeHeld, NEW k \in KeyCodes, NEW a, a = getKeyAction(k, kbdMode)
    PROVE  /\ k = 19 => Modifier(a) = {"SHIFT"} /\ Modifier(Printed(k, FALSE, FALSE)) = {"SHIFT"}
           /\ k = 20 => Modifier(a) = {"ALPHA"} /\ Modifier(Printed(k, FALSE, FALSE)) = {"ALPHA"}
           /\ k = 18 => Modifier(a) \subseteq {"META"} /\ Modifier(Printed(k, FALSE, FALSE)) = {"META"}
           /\ k \notin {18, 19, 20} => Modifier(a) = {} /\ Modifier(Printed(k, FALSE, FALSE)) = {}
<1>1. PICK shift, alpha : a = Printed(k, shift, alpha)
  <2>1. a = Printed(k, Held("SHIFT"), Held("ALPHA"))
    BY ActionIs
  <2> QED  BY <2>1, Zenon
<1>2. /\ k = 19 => Modifier(Printed(k, shift, alpha)) = {"SHIFT"}
      /\ k = 20 => Modifier(Printed(k, shift, alpha)) = {"ALPHA"}
      /\ k = 18 => Modifier(Printed(k, shift, alpha)) \subseteq {"META"}
      /\ k \notin {18, 19, 20} => Modifier(Printed(k, shift, alpha)) = {}
  BY ModifiersOf, Zenon
<1>3. /\ k = 19 => Modifier(Printed(k, FALSE, FALSE)) = {"SHIFT"}
      /\ k = 20 => Modifier(Printed(k, FALSE, FALSE)) = {"ALPHA"}
      /\ k = 18 => Modifier(Printed(k, FALSE, FALSE)) = {"META"}
      /\ k \notin {18, 19, 20} => Modifier(Printed(k, FALSE, FALSE)) = {}
  BY ModifiersOf, Zenon
<1>4. Modifier(a) = Modifier(Printed(k, shift, alpha))
  BY <1>1, Zenon
<1> QED  BY <1>2, <1>3, <1>4, Zenon

LEMMA KeyStep ==
    ASSUME KeyInv, [LineNext]_lineVars
    PROVE  KeyInv'
<1>1. ASSUME UNCHANGED keys, astray \subseteq astray' PROVE KeyInv'
  BY <1>1 DEF keys, ModeHeld, KeyInv
<1>2. ASSUME NEW k \in KeyCodes, onKeyDown(k) PROVE KeyInv'
  <2>1. SUFFICES ASSUME "META" \notin astray' PROVE ModeHeld'
    BY DEF KeyInv
  <2> PICK a : a = getKeyAction(k, kbdMode)
    OBVIOUS
  <2>2. /\ kbdMode' = kbdMode \cup Modifier(a) /\ astray' = astray \cup LeadsAstray(a)
        /\ down' = IF Modifier(Printed(k, FALSE, FALSE)) = {} THEN down ELSE down \cup {k}
    BY <1>2, Zenon DEF onKeyDown
  <2>3. "META" \notin astray /\ "META" \notin Modifier(a)
    BY <2>1, <2>2 DEF LeadsAstray
  <2>4. ModeHeld
    BY <2>3 DEF KeyInv
  <2>5. CASE k \in {19, 20}
    <3> PICK m : m = IF k = 19 THEN "SHIFT" ELSE "ALPHA"
      OBVIOUS
    <3>1. Modifier(a) = {m} /\ Modifier(Printed(k, FALSE, FALSE)) = {m} /\ {m} # {}
      BY <2>4, <2>5, KeyStays
    <3>2. kbdMode' = kbdMode \cup {m} /\ down' = down \cup {k}
      BY <2>2, <3>1, Zenon
    <3> QED  BY <2>4, <2>5, <3>2 DEF ModeHeld
  <2>6. CASE k = 18
    <3>1. Modifier(a) \subseteq {"META"} /\ Modifier(Printed(k, FALSE, FALSE)) = {"META"}
      BY <2>4, <2>6, KeyStays
    <3>2. Modifier(a) = {} /\ {"META"} # {}
      BY <2>3, <3>1
    <3>3. kbdMode' = kbdMode /\ down' = down \cup {k}
      BY <2>2, <3>1, <3>2
    <3> QED  BY <2>4, <2>6, <3>3 DEF ModeHeld
  <2>7. CASE k \notin {18, 19, 20}
    <3>1. Modifier(a) = {} /\ Modifier(Printed(k, FALSE, FALSE)) = {}
      BY <2>4, <2>7, KeyStays
    <3> QED  BY <2>2, <2>4, <3>1 DEF ModeHeld
  <2> QED  BY <2>5, <2>6, <2>7
<1>3. ASSUME NEW k \in KeyCodes, onKeyUp(k) PROVE KeyInv'
  <2>1. SUFFICES ASSUME "META" \notin astray' PROVE ModeHeld'
    BY DEF KeyInv
  <2> PICK a : a = getKeyAction(k, kbdMode)
    OBVIOUS
  <2>2. k \in down /\ down' = down \ {k} /\ kbdMode' = kbdMode \ Modifier(a) /\ astray' = astray
    BY <1>3, Zenon DEF onKeyUp
  <2>3. ModeHeld
    BY <2>1, <2>2 DEF KeyInv
  <2>4. k \in {18, 19, 20}
    BY <2>2, <2>3 DEF ModeHeld
  <2>5. CASE k \in {19, 20}
    <3>1. Modifier(a) = (IF k = 19 THEN {"SHIFT"} ELSE {"ALPHA"})
      BY <2>3, <2>5, KeyStays
    <3> QED  BY <2>2, <2>3, <2>5, <3>1 DEF ModeHeld
  <2>6. CASE k = 18
    <3>1. Modifier(a) \subseteq {"META"}
      BY <2>3, <2>6, KeyStays
    <3>2. kbdMode \subseteq {"SHIFT", "ALPHA"}
      BY <2>3 DEF ModeHeld
    <3>3. kbdMode' = kbdMode
      BY <2>2, <3>1, <3>2
    <3>4. down' = down \ {k} /\ 19 # k /\ 20 # k
      BY <2>2, <2>6
    <3> QED  BY <2>3, <3>3, <3>4 DEF ModeHeld
  <2> QED  BY <2>4, <2>5, <2>6
<1>4. ASSUME NEW a \in AuxKeys, KeyPressEvent(a) PROVE KeyInv'
  BY <1>1, <1>4 DEF KeyPressEvent
<1>5. ASSUME CursorBlink PROVE KeyInv'
  BY <1>1, <1>5 DEF CursorBlink
<1>6. ASSUME UNCHANGED lineVars PROVE KeyInv'
  BY <1>1, <1>6 DEF lineVars
<1> QED  BY <1>2, <1>3, <1>4, <1>5, <1>6 DEF LineNext

\* SHIFT and ALPHA are in force while their keys are held and not longer, though what a key
\* that is released means is looked up under the modifiers of that moment; and so is OFF,
\* above ON.  ON itself, whose modifier is not taken back, ends that.
THEOREM ModifiersAreHeld == LineSpec => []KeyInv
<1>1. LineInit => KeyInv
  BY KeyInit
<1>2. KeyInv /\ [LineNext]_lineVars => KeyInv'
  BY KeyStep
<1> QED  BY <1>1, <1>2, PTL DEF LineSpec

\* A key does to the line what is printed on it, under the modifiers that are held, and what
\* a line editor would, until a backslash is written or ON is pressed: whatever the sizes of
\* the buffers, the text and the strings of keys, no character is lost, cut apart or doubled.
THEOREM LineIsEdited == LineSpec => ImplementsEditor
<1> DEFINE Step == astray' = {} =>
                     /\ \A k \in KeyCodes : /\ onKeyDown(k) => Does(Printed(k, Held("SHIFT"), Held("ALPHA")))
                                            /\ onKeyUp(k) => Editor!Stay
                     /\ \A a \in AuxKeys : KeyPressEvent(a) => Does(a)
<1>1. ASSUME LineInv, KeyInv PROVE Step
  <2>a. ASSUME NEW a, Spells(a), onKeyPress(a), astray' = astray \cup LeadsAstray(a), astray' = {}
        PROVE  Does(a)
    <3>1. astray = {} /\ LeadsAstray(a) = {}
      BY <2>a
    <3>2. TextIs(line) /\ TapIs
      BY <1>1, <3>1 DEF LineInv
    <3>3. Clean(a)
      BY <2>a, <3>1, CleanIs
    <3> QED  BY <2>a, <3>2, <3>3, PressDoes
  <2>1. ASSUME NEW k \in KeyCodes, onKeyDown(k), astray' = {}
        PROVE  Does(Printed(k, Held("SHIFT"), Held("ALPHA")))
    <3> PICK a : a = getKeyAction(k, kbdMode)
      OBVIOUS
    <3>1. onKeyPress(a) /\ astray' = astray \cup LeadsAstray(a)
      BY <2>1, Zenon DEF onKeyDown
    <3>2. ModeHeld
      <4>1. astray = {}
        BY <2>1, <3>1
      <4> QED  BY <1>1, <4>1 DEF KeyInv
    <3>3. a = Printed(k, Held("SHIFT"), Held("ALPHA"))
      BY <3>2, ActionIs
    <3>4. Spells(a)
      BY <1>1, KeyAssumption DEF LineInv, ModeIs
    <3>5. Does(a)
      BY <2>a, <2>1, <3>1, <3>4
    <3> QED  BY <3>3, <3>5, Zenon
  <2>2. ASSUME NEW k \in KeyCodes, onKeyUp(k) PROVE Editor!Stay
    BY <2>2, Stays DEF onKeyUp, field
  <2>3. ASSUME NEW a \in AuxKeys, KeyPressEvent(a), astray' = {} PROVE Does(a)
    <3>1. Spells(a) /\ onKeyPress(a) /\ astray' = astray \cup LeadsAstray(a)
      BY <2>3, KeyAssumption DEF KeyPressEvent
    <3> QED  BY <2>a, <2>3, <3>1
  <2> QED  BY <2>1, <2>2, <2>3
<1> HIDE DEF Step
<1>2. LineInv /\ KeyInv => [Step]_lineVars
  BY <1>1
<1>3. LineSpec => []LineInv /\ []KeyInv
  BY LineInvariance, ModifiersAreHeld, PTL
<1>4. LineSpec => [][Step]_lineVars
  BY <1>2, <1>3, PTL
<1> QED  BY <1>4 DEF Step, ImplementsEditor
====
